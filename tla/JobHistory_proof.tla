-------------------------- MODULE JobHistory_proof --------------------------
(***************************************************************************)
(* The history the jobs table tells: what a step may do to the rows that   *)
(* are there, what follows for chains of retries, the refs that joined     *)
(* them, terminal rows and inhibitions, and that the table is the log of   *)
(* attempts JobHistory specifies (compiler/jobs.py).                       *)
(***************************************************************************)
EXTENDS JobManager_proof

----------------------------------------------------------------------------
(* The inductive invariant.  A live row has not been classified and has no *)
(* successor; whoever is about to write a row's end holds one that may     *)
(* still end that way, and no compile thread writes it too.                *)

Unclassified(u) == jobs[u].rec.kind \notin Kinds

LiveOpen == \A u \in Rows : Live(u) => Unclassified(u) /\ jobs[u].rec.to = 0

LoopHolds ==
    loop # Idle =>
        /\ backends[loop.job] = "over"
        /\ loop.at \in {"record", "unpublished"} =>
              jobs[loop.job].stage \in TerminalErrors /\ Unclassified(loop.job)
        /\ loop.at = "publish" => jobs[loop.job].stage = "PREPARED" /\ Unclassified(loop.job)

HitHolds ==
    \A t \in Admin : admin[t].at = "hit" =>
        /\ backends[admin[t].job] = "none"
        /\ jobs[admin[t].job].stage \in {"QUEUED", "PREPARED"}

Unused == \A u \in Uuid : u \notin Rows => backends[u] = "none"

SettledInv == LiveOpen /\ LoopHolds /\ HitHolds /\ Unused

----------------------------------------------------------------------------
(* What a step does to the table.                                          *)

(* A terminal row keeps its stage, and a row once classified its kind.     *)
Moves(v) ==
    /\ \/ jobs'[v].stage = jobs[v].stage
       \/ /\ jobs[v].stage \notin TerminalErrors
          /\ jobs'[v].stage \in LiveStages => Live(v)
    /\ \/ jobs'[v].rec.kind = jobs[v].rec.kind
       \/ Unclassified(v) /\ jobs'[v].stage \notin LiveStages

(* It gets no successor, and may lose one with its record.                 *)
KeepsTo(v) ==
    \/ jobs'[v].rec.to = 0
    \/ jobs'[v].rec.to = jobs[v].rec.to /\ jobs'[v].rec.kind = jobs[v].rec.kind

(* A row that is added is live, unclassified and has no successor.         *)
Fresh ==
    /\ Len(jobs') \in {Len(jobs), Len(jobs) + 1}
    /\ Len(jobs') = Len(jobs) + 1 =>
          LET new == jobs'[Len(jobs) + 1]
          IN  new.stage = "QUEUED" /\ new.rec.kind \notin Kinds /\ new.rec.to = 0

(* A step that resumes nothing; a ref may join a live row.                 *)
Plain ==
    /\ \A v \in Rows : Moves(v) /\ KeepsTo(v)
    /\ Fresh
    /\ aliases \subseteq aliases'
    /\ \A p \in aliases' \ aliases : p[1] \in Rows /\ Live(p[1])

(* The step that opens the successor of u, which is terminal and of a kind *)
(* that may have one, while no inhibition stands.                          *)
Resumes(u) ==
    LET new == Len(jobs) + 1 IN
    /\ \A v \in Rows : Moves(v)
    /\ \A v \in Rows \ {u} : KeepsTo(v)
    /\ Fresh /\ Len(jobs') = new
    /\ inhibition = None /\ jobs[u].stage \in TerminalErrors
    /\ jobs'[u].rec.to = new /\ jobs'[u].rec.kind \notin {"safety", "permanent"}
    /\ jobs'[new].ref = jobs[u].ref /\ jobs'[new].key = jobs[u].key
    /\ jobs'[new].attempt \in {1, jobs[u].attempt + 1}
    /\ aliases' = aliases \cup CarriedAliases(jobs, u, new)

TableStep == Plain \/ \E u \in Rows : Resumes(u)

(* A step that leaves the rows alone; a ref may join a live one.           *)
LEMMA RowsAlone ==
    ASSUME TypeInv, UNCHANGED jobs,
           \/ UNCHANGED aliases
           \/ \E u \in Rows, r \in Ref : Live(u) /\ aliases' = aliases \cup {<<u, r>>}
    PROVE  Plain
BY DEF Plain, Moves, KeepsTo, Fresh, TypeInv, TypeOK

(* A step that adds no row and lets no ref join.                           *)
LEMMA OldRowsOnly ==
    ASSUME TypeInv, Len(jobs') = Len(jobs), UNCHANGED aliases,
           \A v \in Rows : Moves(v) /\ KeepsTo(v)
    PROVE  Plain
BY RowsInUuid DEF Plain, Fresh

(* set_job: one row that has not ended changes its stage.                  *)
LEMMA StageMoves ==
    ASSUME TypeInv, NEW u \in Rows, NEW stage \in Stages,
           jobs' = [jobs EXCEPT ![u].stage = stage], UNCHANGED aliases,
           jobs[u].stage \notin TerminalErrors, stage \in LiveStages => Live(u)
    PROVE  Plain
<1>1. /\ Len(jobs') = Len(jobs) /\ Len(jobs) \in Nat
      /\ \A v \in Rows : /\ jobs'[v].stage = IF v = u THEN stage ELSE jobs[v].stage
                         /\ jobs'[v].rec = jobs[v].rec
  BY StageStep, RowsInUuid DEF TypeInv
<1>2. ASSUME NEW v \in Rows PROVE Moves(v) /\ KeepsTo(v)
  BY <1>1, Zenon DEF Moves, KeepsTo
<1> QED
  BY <1>1, <1>2, OldRowsOnly

(* set_failure: one row that has ended is classified.                      *)
LEMMA RecMoves ==
    ASSUME TypeInv, NEW u \in Rows, NEW kind \in RecordKinds,
           jobs' = [jobs EXCEPT ![u].rec = Record(kind)], UNCHANGED aliases,
           ~Live(u), Unclassified(u)
    PROVE  Plain
<1>1. Record(kind) \in RecordType /\ Record(kind).to = 0
  BY RecordTyped
<1>2. /\ Len(jobs') = Len(jobs) /\ Len(jobs) \in Nat
      /\ \A v \in Rows : /\ jobs'[v].rec = IF v = u THEN Record(kind) ELSE jobs[v].rec
                         /\ jobs'[v].stage = jobs[v].stage
  BY <1>1, RecStep, RowsInUuid DEF TypeInv
<1>3. ASSUME NEW v \in Rows PROVE Moves(v) /\ KeepsTo(v)
  BY <1>1, <1>2, Zenon DEF Moves, KeepsTo, Live
<1> QED
  BY <1>2, <1>3, OldRowsOnly

(* ... as the table an immediate retry starts from.                        *)
LEMMA RecordWritten ==
    ASSUME TypeInv, NEW u \in Rows, NEW rec \in RecordType
    PROVE  LET written == [jobs EXCEPT ![u].rec = rec]
           IN  /\ SameJobs(jobs, written) /\ written \in Seq(Row) /\ Len(written) = Len(jobs)
               /\ \A v \in Rows : /\ written[v].stage = jobs[v].stage
                                  /\ v # u => written[v].rec = jobs[v].rec
               /\ written[u].rec = rec
<1> DEFINE written == [jobs EXCEPT ![u].rec = rec]
<1>1. jobs \in Seq(Row) /\ u \in 1..Len(jobs) /\ Rows = 1..Len(jobs)
  BY RowsInUuid DEF TypeInv, TypeOK
<1>2. /\ SameJobs(jobs, written)
      /\ \A v \in 1..Len(jobs) : /\ written[v].rec = IF v = u THEN rec ELSE jobs[v].rec
                                 /\ written[v].stage = jobs[v].stage
  BY <1>1, RecRewrite
<1> HIDE DEF written
<1>3. /\ SameJobs(jobs, written) /\ written \in Seq(Row) /\ Len(written) = Len(jobs)
      /\ \A v \in Rows : /\ written[v].stage = jobs[v].stage
                         /\ v # u => written[v].rec = jobs[v].rec
      /\ written[u].rec = rec
  BY <1>1, <1>2 DEF SameJobs
<1> QED
  BY <1>3 DEF written

(* Startup ends and classifies a row in one write (_reconcile_jobs).       *)
LEMMA BothWritten ==
    ASSUME TypeInv, NEW u \in Rows, NEW kind \in RecordKinds,
           jobs' = [[jobs EXCEPT ![u].stage = "INTERRUPTED"] EXCEPT ![u].rec = Record(kind)]
    PROVE  /\ Len(jobs') = Len(jobs) /\ Len(jobs) \in Nat /\ Record(kind).to = 0
           /\ \A v \in Rows :
                 /\ jobs'[v].rec = IF v = u THEN Record(kind) ELSE jobs[v].rec
                 /\ jobs'[v].stage = IF v = u THEN "INTERRUPTED" ELSE jobs[v].stage
<1>1. Record(kind) \in RecordType /\ Record(kind).to = 0 /\ "INTERRUPTED" \in Stages
  BY RecordTyped DEF Stages, TerminalErrors
<1> QED
  BY <1>1, BothStep, RowsInUuid DEF TypeInv

LEMMA BothMoves ==
    ASSUME TypeInv, NEW u \in Rows, NEW kind \in RecordKinds,
           jobs' = [[jobs EXCEPT ![u].stage = "INTERRUPTED"] EXCEPT ![u].rec = Record(kind)],
           UNCHANGED aliases, Live(u), Unclassified(u)
    PROVE  Plain
<1>1. /\ Len(jobs') = Len(jobs) /\ Len(jobs) \in Nat /\ Record(kind).to = 0
      /\ \A v \in Rows :
            /\ jobs'[v].rec = IF v = u THEN Record(kind) ELSE jobs[v].rec
            /\ jobs'[v].stage = IF v = u THEN "INTERRUPTED" ELSE jobs[v].stage
  BY BothWritten
<1>2. jobs[u].stage \notin TerminalErrors /\ "INTERRUPTED" \notin LiveStages
  BY DEF Live, LiveStages, TerminalErrors
<1>3. ASSUME NEW v \in Rows PROVE Moves(v) /\ KeepsTo(v)
  BY <1>1, <1>2, Zenon DEF Moves, KeepsTo
<1> QED
  BY <1>1, <1>3, OldRowsOnly

(* Time passes a record's not_before.                                      *)
LEMMA DueStep ==
    ASSUME TypeInv, NEW u \in Rows, jobs' = [jobs EXCEPT ![u].rec.due = TRUE]
    PROVE  /\ Len(jobs') = Len(jobs)
           /\ \A v \in Rows : /\ jobs'[v].stage = jobs[v].stage
                              /\ jobs'[v].rec.kind = jobs[v].rec.kind
                              /\ jobs'[v].rec.to = jobs[v].rec.to
<1> DEFINE new == [jobs EXCEPT ![u].rec.due = TRUE]
<1>1. jobs \in Seq(Row) /\ u \in 1..Len(jobs) /\ Rows = 1..Len(jobs)
  BY RowsInUuid DEF TypeInv, TypeOK
<1>2. /\ SameJobs(jobs, new)
      /\ \A v \in 1..Len(jobs) :
            /\ new[v].stage = jobs[v].stage
            /\ new[v].rec.kind = jobs[v].rec.kind
            /\ new[v].rec.to = jobs[v].rec.to
  BY <1>1, DueRewrite
<1>3. jobs' = new
  OBVIOUS
<1> HIDE DEF new
<1> QED
  BY <1>1, <1>2, <1>3 DEF SameJobs

LEMMA DueMoves ==
    ASSUME TypeInv, NEW u \in Rows, jobs' = [jobs EXCEPT ![u].rec.due = TRUE],
           UNCHANGED aliases
    PROVE  Plain
<1>1. /\ Len(jobs') = Len(jobs)
      /\ \A v \in Rows : /\ jobs'[v].stage = jobs[v].stage
                         /\ jobs'[v].rec.kind = jobs[v].rec.kind
                         /\ jobs'[v].rec.to = jobs[v].rec.to
  BY DueStep
<1>2. ASSUME NEW v \in Rows PROVE Moves(v) /\ KeepsTo(v)
  BY <1>1, Zenon DEF Moves, KeepsTo
<1> QED
  BY <1>1, <1>2, OldRowsOnly

(* _create, and the row of a cache hit.                                    *)
LEMMA CreateMoves ==
    ASSUME TypeInv, NEW r \in Ref, NEW k \in Key,
           jobs' = Append(jobs, NewRow(r, k, 1, "null")), UNCHANGED aliases
    PROVE  /\ Plain
           /\ Len(jobs') = Len(jobs) + 1 /\ \A v \in Rows : jobs'[v] = jobs[v]
           /\ jobs'[Len(jobs) + 1].stage = "QUEUED"
<1> DEFINE row == NewRow(r, k, 1, "null")
<1>1. /\ row \in Row /\ row.stage = "QUEUED" /\ row.rec.kind = "null" /\ row.rec.to = 0
  <2>1. boot \in Nat /\ 1 \in Nat /\ "null" \in RecordKinds
    BY DEF TypeInv, TypeOK, RecordKinds
  <2>2. Record("null").kind = "null" /\ Record("null").to = 0
    BY <2>1, RecordTyped
  <2>3. row \in Row /\ row.stage = "QUEUED" /\ row.rec = Record("null")
    BY <2>1, FreshRowTyped
  <2> QED
    BY <2>2, <2>3
<1>2. jobs' = Append(jobs, row)
  OBVIOUS
<1> HIDE DEF row
<1>3. /\ Len(jobs') = Len(jobs) + 1 /\ jobs'[Len(jobs) + 1] = row
      /\ \A v \in Rows : jobs'[v] = jobs[v]
  BY <1>1, <1>2, AppendTyped, RowsInUuid DEF TypeInv, TypeOK
<1> QED
  BY <1>1, <1>3 DEF Plain, Moves, KeepsTo, Fresh, Kinds

(* _new_attempt: the terminal row it is called for is consumed or refused. *)
LEMMA AttemptMoves ==
    ASSUME TypeInv, NEW rows \in Seq(Row), SameJobs(jobs, rows), NEW u \in Rows,
           \A v \in Rows : /\ rows[v].stage = jobs[v].stage
                           /\ v # u => rows[v].rec = jobs[v].rec,
           \/ rows[u].rec = jobs[u].rec
           \/ rows[u].rec.to = 0 /\ Unclassified(u),
           inhibition = None, jobs[u].stage \in TerminalErrors,
           rows[u].rec.kind \notin {"safety", "permanent"},
           NEW attempt \in {1, jobs[u].attempt + 1}, NEW sourced \in BOOLEAN,
           OpenAttempt(rows, u, attempt, sourced)
    PROVE  TableStep /\ Fresh /\ \A v \in Rows : jobs'[v].stage = jobs[v].stage
                                                 /\ jobs'[v].rec.kind = rows[v].rec.kind
<1> DEFINE new == Len(jobs) + 1
           row == NewRow(rows[u].ref, rows[u].key, attempt, "carried")
<1>1. /\ Rows = 1..Len(jobs) /\ Len(jobs) \in Nat /\ Len(rows) = Len(jobs)
      /\ attempt \in Nat /\ TypeOK
      /\ \A v \in Rows : rows[v].ref = jobs[v].ref /\ rows[v].key = jobs[v].key
  BY RowsInUuid, RowTyped DEF SameJobs, TypeInv
<1>2. /\ \A v \in Rows : /\ jobs'[v].stage = rows[v].stage
                         /\ jobs'[v].rec.kind = rows[v].rec.kind
      /\ Attempted(rows, u, attempt)
  BY <1>1, OpenAttemptTyped
<1>3. \A v \in Rows : Moves(v)
  BY <1>2 DEF Moves, Live, LiveStages, TerminalErrors
<1>4. ASSUME NEW v \in Rows, jobs'[v].rec.to = rows[v].rec.to PROVE KeepsTo(v)
  BY <1>2, <1>4 DEF KeepsTo
<1>5. /\ row.stage = "QUEUED" /\ row.rec.kind = "carried" /\ row.rec.to = 0
      /\ row.ref = jobs[u].ref /\ row.key = jobs[u].key /\ row.attempt = attempt
  <2>1. rows[u].ref \in Ref /\ rows[u].key \in Key
    BY <1>1, RowTyped
  <2> QED
    BY <1>1, <2>1, FreshRowTyped, RecordTyped DEF TypeOK, RecordKinds
<1> HIDE DEF row
<1>6. CASE sourced \/ rows[u].key \in sources
  <2>1. aliases' = aliases \cup CarriedAliases(jobs, u, new)
        /\ backends' = [backends EXCEPT ![new] = "new"]
    BY <1>1, <1>6 DEF OpenAttempt, CarriedAliases
  <2>2. /\ Len(jobs') = new /\ jobs'[new] = row
        /\ \A v \in Rows : jobs'[v].rec.to = IF v = u THEN new ELSE rows[v].rec.to
    <3>1. Len(jobs') = Len(rows) + 1
      <4>1. jobs' = Append([rows EXCEPT ![u].rec.to = Len(rows) + 1],
                           NewRow(rows[u].ref, rows[u].key, attempt, "carried"))
        BY <1>6 DEF OpenAttempt
      <4>2. Len([rows EXCEPT ![u].rec.to = Len(rows) + 1]) = Len(rows)
        BY <1>1
      <4> QED
        BY <4>1, <4>2
    <3> QED
      BY <1>1, <1>2, <3>1 DEF Attempted, row
  <2>3. Fresh
    BY <1>1, <1>5, <2>2 DEF Fresh, Kinds
  <2>4. Resumes(u)
    BY <1>1, <1>2, <1>3, <1>4, <1>5, <2>1, <2>2, <2>3 DEF Resumes
  <2> QED
    BY <1>2, <2>3, <2>4 DEF TableStep
<1>7. CASE ~(sourced \/ rows[u].key \in sources)
  <2>1. jobs' = [rows EXCEPT ![u].rec.refused = TRUE] /\ UNCHANGED aliases
    BY <1>7 DEF OpenAttempt
  <2>2. /\ Len(jobs') = Len(jobs)
        /\ \A v \in Rows : jobs'[v].rec.to = rows[v].rec.to
    BY <1>1, <2>1, RefusedRewrite DEF SameJobs
  <2>3. Fresh
    BY <1>1, <2>2 DEF Fresh
  <2> QED
    BY <1>2, <1>3, <1>4, <2>1, <2>2, <2>3 DEF TableStep, Plain
<1> QED
  BY <1>6, <1>7
----------------------------------------------------------------------------
(* The invariant across a step.                                            *)

EndsKept == \A v \in Rows : /\ jobs'[v].stage = jobs[v].stage
                            /\ jobs'[v].rec.kind = jobs[v].rec.kind

BackendsKept ==
    \A v \in Uuid : backends[v] \in {"none", "over"} =>
                        backends'[v] = backends[v] \/ v \in Rows' \ Rows

(* Live rows stay open.                                                    *)
LEMMA LiveStaysOpen ==
    ASSUME TypeInv, TypeInv', RowsKept, LiveOpen, TableStep
    PROVE  LiveOpen'
<1>1. /\ Rows = 1..Len(jobs) /\ Rows' = 1..Len(jobs') /\ Len(jobs) \in Nat
      /\ Fresh /\ \A v \in Rows : Moves(v)
      /\ \A v \in Rows : jobs[v].stage \notin TerminalErrors => KeepsTo(v)
  BY RowsInUuid, RowsAfter DEF TableStep, Plain, Resumes
<1>2. ASSUME NEW v \in Rows, Live(v)' PROVE Unclassified(v)' /\ jobs'[v].rec.to = 0
  <2>1. Live(v) /\ jobs'[v].stage \in LiveStages
    BY <1>1, <1>2 DEF Moves, Live
  <2>2. jobs[v].stage \notin TerminalErrors
    BY <2>1 DEF Live, LiveStages, TerminalErrors
  <2> QED
    BY <1>1, <2>1, <2>2 DEF Moves, KeepsTo, LiveOpen, Unclassified
<1>3. ASSUME NEW v \in Rows', v \notin Rows PROVE Unclassified(v)' /\ jobs'[v].rec.to = 0
  <2>1. v = Len(jobs) + 1 /\ Len(jobs') = Len(jobs) + 1
    BY <1>1, <1>3 DEF Fresh
  <2> QED
    BY <1>1, <2>1 DEF Fresh, Unclassified
<1> QED
  BY <1>2, <1>3 DEF LiveOpen

(* Unused row numbers stay unused.                                         *)
LEMMA UnusedStays ==
    ASSUME TypeInv, TypeInv', RowsKept, Unused, BackendsKept
    PROVE  Unused'
BY RowsAfter DEF Unused, BackendsKept

(* A thread that is about to end a row still may, after a step that ends   *)
(* none.                                                                   *)
LEMMA ThreadsHold ==
    ASSUME TypeInv, TypeInv', RowsKept, SettledInv, EndsKept, BackendsKept,
           loop' \in {loop, Idle},
           \/ UNCHANGED admin
           \/ \E t \in Admin, next \in AdminType :
                 next.at # "hit" /\ admin' = [admin EXCEPT ![t] = next]
    PROVE  LoopHolds' /\ HitHolds'
<1>1. Rows \subseteq Uuid
  BY RowsInUuid
<1>2. ASSUME loop' # Idle PROVE LoopHolds'
  <2>1. loop' = loop /\ loop.job \in Rows
    BY <1>2 DEF TypeInv, JobsNamed
  <2> QED
    BY <1>1, <2>1 DEF SettledInv, LoopHolds, EndsKept, BackendsKept, Unclassified
<1>3. ASSUME NEW t \in Admin, admin'[t].at = "hit"
      PROVE  backends'[admin'[t].job] = "none"
             /\ jobs'[admin'[t].job].stage \in {"QUEUED", "PREPARED"}
  <2>1. admin'[t] = admin[t]
    BY <1>3 DEF TypeInv, TypeOK
  <2>2. admin[t].job \in Rows
    BY <1>3, <2>1 DEF TypeInv, JobsNamed
  <2> QED
    BY <1>1, <1>3, <2>1, <2>2 DEF SettledInv, HitHolds, EndsKept, BackendsKept
<1> QED
  BY <1>2, <1>3 DEF LoopHolds, HitHolds

(* What is left to show of a step: how the table moves, and that the rows  *)
(* the threads hold stay as they are.                                      *)
Settles == TableStep /\ LoopHolds' /\ HitHolds' /\ BackendsKept

LEMMA SettledStays ==
    ASSUME TypeInv, TypeInv', RowsKept, SettledInv, Settles
    PROVE  SettledInv'
BY LiveStaysOpen, UnusedStays DEF SettledInv, Settles

(* A step that touches neither rows nor threads that hold one.             *)
LEMMA AloneSettles ==
    ASSUME TypeInv, TypeInv', RowsKept, SettledInv, UNCHANGED <<jobs, aliases>>, BackendsKept,
           loop' \in {loop, Idle},
           \/ UNCHANGED admin
           \/ \E t \in Admin, next \in AdminType :
                 next.at # "hit" /\ admin' = [admin EXCEPT ![t] = next]
    PROVE  Settles
BY RowsAlone, ThreadsHold DEF EndsKept, Settles, TableStep

(* A new attempt, for a row as it is or with a record just written.        *)
LEMMA AttemptSettles ==
    ASSUME TypeInv, TypeInv', RowsKept, SettledInv,
           NEW u \in Rows, NEW attempt \in {1, jobs[u].attempt + 1},
           NEW sourced \in BOOLEAN, OpenAttempt(jobs, u, attempt, sourced),
           inhibition = None, jobs[u].stage \in TerminalErrors,
           jobs[u].rec.kind \notin {"safety", "permanent"},
           loop' \in {loop, Idle},
           \/ UNCHANGED admin
           \/ \E t \in Admin, next \in AdminType :
                 next.at # "hit" /\ admin' = [admin EXCEPT ![t] = next]
    PROVE  Settles
<1>1. jobs \in Seq(Row) /\ SameJobs(jobs, jobs) /\ Rows = 1..Len(jobs) /\ Len(jobs) \in Nat
  BY RowsInUuid DEF SameJobs, TypeInv, TypeOK
<1>2. TableStep /\ EndsKept
  BY <1>1, AttemptMoves DEF EndsKept
<1>3. BackendsKept
  <2>1. attempt \in Nat /\ TypeOK
    BY RowTyped DEF TypeInv
  <2>2. Attempted(jobs, u, attempt)
    BY <1>1, <2>1, OpenAttemptTyped
  <2>3. ASSUME Len(jobs') = Len(jobs) + 1, backends' = [backends EXCEPT ![Len(jobs) + 1] = "new"]
        PROVE  BackendsKept
    <3>1. Len(jobs) + 1 \in Rows' \ Rows
      BY <1>1, <2>3, RowsAfter
    <3> QED
      BY <2>3, <3>1 DEF BackendsKept, TypeInv, TypeOK
  <2> QED
    BY <2>2, <2>3 DEF Attempted, BackendsKept
<1> QED
  BY <1>2, <1>3, ThreadsHold DEF Settles
----------------------------------------------------------------------------
(* The steps, one by one.                                                  *)

(* What lets a row have a successor (_maybe_resume, _requeue_prev).        *)
LEMMA AutoMay ==
    ASSUME NEW u, NEW rec, MayResume(u, rec)
    PROVE  inhibition = None /\ rec.kind \notin {"safety", "permanent"}
BY DEF MayResume, AutoEligible

LEMMA OperatorMay ==
    ASSUME NEW rec, NEW stage, OperatorEligible(rec, stage)
    PROVE  rec.kind \notin {"safety", "permanent"}
BY DEF OperatorEligible, IsNull

(* prepare reads, or writes beside the table.                              *)
LEMMA AdminReadsSettle ==
    ASSUME TypeInv, TypeInv', RowsKept, SettledInv, NEW t \in Admin,
           \/ \E r \in Ref, k \in Key : Ingest(t, r, k) \/ IngestChanged(t, r, k)
           \/ CacheMiss(t) \/ PrepareDone(t)
           \/ (\E u \in Uuid : WaitRead(t, u)) \/ WaitMark(t)
           \/ (\E r \in Ref : RecoverClear(t, r))
    PROVE  Settles
<1>1. UNCHANGED <<jobs, aliases, backends, loop>>
  BY DEF Ingest, IngestChanged, CacheMiss, PrepareDone, WaitRead, WaitMark,
         RecoverClear, table, durable, compile
<1>2. \E next : next.at # "hit" /\ admin' = [admin EXCEPT ![t] = next]
  BY DEF Ingest, IngestChanged, CacheMiss, PrepareDone, WaitRead, WaitMark,
         RecoverClear, Closed
<1>3. \E next \in AdminType : next.at # "hit" /\ admin' = [admin EXCEPT ![t] = next]
  <2>1. PICK next : next.at # "hit" /\ admin' = [admin EXCEPT ![t] = next]
    BY <1>2
  <2>2. next \in AdminType
    <3>1. admin \in [Admin -> AdminType] /\ admin' \in [Admin -> AdminType]
      BY DEF TypeInv, TypeOK
    <3>2. admin'[t] = next
      BY <2>1, <3>1
    <3> QED
      BY <3>1, <3>2
  <2> QED
    BY <2>1, <2>2
<1>4. BackendsKept
  BY <1>1 DEF BackendsKept
<1> QED
  BY <1>1, <1>3, <1>4, AloneSettles

(* The two writes of a cache hit.                                          *)
LEMMA CacheHitSettles ==
    ASSUME TypeInv, TypeInv', RowsKept, SettledInv, NEW t \in Admin, CacheHit(t)
    PROVE  Settles
<1> DEFINE new == Len(jobs) + 1
<1>1. /\ admin[t].ref \in Ref /\ admin[t].key \in Key
      /\ jobs' = Append(jobs, NewRow(admin[t].ref, admin[t].key, 1, "null"))
      /\ UNCHANGED <<aliases, backends, loop>>
      /\ admin' = [admin EXCEPT ![t] = [at |-> "hit", ref |-> admin[t].ref, job |-> new]]
  BY DEF CacheHit, AdminAt, TypeInv, TypeOK, AdminType, Idle, Closed, compile
<1>2. /\ Plain /\ Len(jobs') = new /\ \A v \in Rows : jobs'[v] = jobs[v]
      /\ jobs'[new].stage = "QUEUED"
  BY <1>1, CreateMoves
<1>3. BackendsKept /\ EndsKept
  BY <1>1, <1>2 DEF BackendsKept, EndsKept
<1>4. new \in Uuid /\ new \notin Rows
  BY <1>2, RowsInUuid, RowsAfter
<1>5. LoopHolds'
  <2>1. loop # Idle => loop.job \in Rows
    BY DEF TypeInv, JobsNamed
  <2> QED
    BY <1>1, <1>3, <2>1 DEF SettledInv, LoopHolds, EndsKept, Unclassified
<1>6. ASSUME NEW s \in Admin, admin'[s].at = "hit"
      PROVE  backends'[admin'[s].job] = "none"
             /\ jobs'[admin'[s].job].stage \in {"QUEUED", "PREPARED"}
  <2>1. CASE s = t
    <3>1. admin'[s].job = new
      BY <1>1, <2>1 DEF TypeInv, TypeOK
    <3> QED
      BY <1>1, <1>2, <1>4, <3>1 DEF SettledInv, Unused
  <2>2. CASE s # t
    <3>1. admin'[s] = admin[s]
      BY <1>1, <2>2 DEF TypeInv, TypeOK
    <3>2. admin[s].job \in Rows
      BY <1>6, <3>1 DEF TypeInv, JobsNamed
    <3> QED
      BY <1>1, <1>3, <1>6, <3>1, <3>2 DEF SettledInv, HitHolds, EndsKept
  <2> QED
    BY <2>1, <2>2
<1>7. HitHolds'
  BY <1>6 DEF HitHolds
<1> QED
  BY <1>2, <1>3, <1>5, <1>7 DEF Settles, TableStep

LEMMA CacheHitDoneSettles ==
    ASSUME TypeInv, TypeInv', RowsKept, SettledInv, NEW t \in Admin, CacheHitDone(t)
    PROVE  Settles
<1> DEFINE u == admin[t].job
<1>1. /\ u \in Rows /\ admin[t].at = "hit"
      /\ jobs' = [jobs EXCEPT ![u].stage = "PREPARED"]
      /\ UNCHANGED <<aliases, backends, loop>>
      /\ admin' = [admin EXCEPT ![t] = Closed]
  BY DEF CacheHitDone, AdminAt, TypeInv, JobsNamed, compile
<1>2. jobs[u].stage \in {"QUEUED", "PREPARED"} /\ backends[u] = "none"
  BY <1>1 DEF SettledInv, HitHolds
<1>3. "PREPARED" \in Stages /\ "PREPARED" \notin LiveStages
      /\ jobs[u].stage \notin TerminalErrors
  BY <1>2 DEF Stages, LiveStages, TerminalErrors
<1> HIDE DEF u
<1>4. Plain
  BY <1>1, <1>3, StageMoves
<1>5. \A v \in Rows : /\ jobs'[v].stage = IF v = u THEN "PREPARED" ELSE jobs[v].stage
                      /\ jobs'[v].rec = jobs[v].rec
  BY <1>1, <1>3, StageStep DEF TypeInv
<1>6. LoopHolds'
  <2> SUFFICES ASSUME loop # Idle PROVE LoopHolds'
    BY <1>1 DEF LoopHolds
  <2>1. loop.job \in Rows /\ loop.job # u
    BY <1>2 DEF TypeInv, JobsNamed, SettledInv, LoopHolds
  <2>2. jobs'[loop.job].stage = jobs[loop.job].stage /\ jobs'[loop.job].rec = jobs[loop.job].rec
    BY <1>5, <2>1
  <2> QED
    BY <1>1, <2>2 DEF SettledInv, LoopHolds, Unclassified
<1>7. ASSUME NEW s \in Admin, admin'[s].at = "hit"
      PROVE  backends'[admin'[s].job] = "none"
             /\ jobs'[admin'[s].job].stage \in {"QUEUED", "PREPARED"}
  <2>1. admin'[s] = admin[s]
    BY <1>1, <1>7 DEF TypeInv, TypeOK, Closed
  <2>2. admin[s].job \in Rows
    BY <1>7, <2>1 DEF TypeInv, JobsNamed
  <2> QED
    BY <1>1, <1>5, <1>7, <2>1, <2>2 DEF SettledInv, HitHolds
<1>8. HitHolds' /\ BackendsKept
  BY <1>1, <1>7 DEF HitHolds, BackendsKept
<1> QED
  BY <1>4, <1>6, <1>8 DEF Settles, TableStep

(* submit joins, resumes, creates, or answers with what is there.          *)
LEMMA SubmitSettles ==
    ASSUME TypeInv, TypeInv', RowsKept, SettledInv, NEW t \in Admin, Submit(t)
    PROVE  Settles
<1> DEFINE r == admin[t].ref
           k == admin[t].key
           own == FindJob(r, k)
           Moved == \E next \in AdminType :
                       next.at # "hit" /\ admin' = [admin EXCEPT ![t] = next]
<1>1. r \in Ref /\ k \in Key /\ own \subseteq Rows /\ LiveFor(k) \subseteq Rows
      /\ UNCHANGED loop /\ SubmitOver(t, r, k, own)
  BY DEF Submit, AdminAt, TypeInv, TypeOK, AdminType, Idle, Closed, FindJob, LiveFor
<1>2. ASSUME NEW stage \in Stages, Answered(t, stage) PROVE Moved
  <2>1. [at |-> "answered", ref |-> r, stage |-> stage] \in AdminType
    BY <1>1 DEF AdminType
  <2> QED
    BY <1>2, <2>1 DEF Answered
<1>3. ASSUME UNCHANGED <<jobs, aliases, backends>>, Moved PROVE Settles
  BY <1>1, <1>3, AloneSettles DEF BackendsKept
<1>4. ASSUME NEW u \in Rows, Live(u), Join(t, u) PROVE Settles
  <2>1. jobs[u].stage \in Stages
    BY RowTyped DEF TypeInv
  <2>2. Moved /\ Plain /\ BackendsKept /\ EndsKept
    BY <1>1, <1>2, <1>4, <2>1, RowsAlone DEF Join, BackendsKept, EndsKept
  <2> QED
    BY <1>1, <2>2, ThreadsHold DEF Settles, TableStep
<1>5. ASSUME NEW u \in Rows, jobs[u].stage \in TerminalErrors, SubmitTerminal(t, u)
      PROVE  Settles
  <2>1. jobs[u].stage \in Stages /\ "QUEUED" \in Stages
    BY RowTyped DEF TypeInv, Stages, LiveStages
  <2>2. CASE MayResume(u, jobs[u].rec)
    BY <1>1, <1>2, <1>5, <2>1, <2>2, AutoMay, AttemptSettles DEF SubmitTerminal
  <2>3. CASE ~MayResume(u, jobs[u].rec)
    BY <1>2, <1>3, <1>5, <2>1, <2>3 DEF SubmitTerminal, table
  <2> QED
    BY <2>2, <2>3
<1>6. ASSUME Create(r, k), Answered(t, "QUEUED") PROVE Settles
  <2>1. /\ jobs' = Append(jobs, NewRow(r, k, 1, "null")) /\ UNCHANGED aliases
        /\ backends' = [backends EXCEPT ![Len(jobs) + 1] = "new"]
    BY <1>6 DEF Create
  <2>2. /\ Plain /\ Len(jobs') = Len(jobs) + 1 /\ \A v \in Rows : jobs'[v] = jobs[v]
    BY <1>1, <2>1, CreateMoves
  <2>3. EndsKept
    BY <2>2 DEF EndsKept
  <2>4. BackendsKept
    <3>1. Len(jobs) + 1 \in Rows' \ Rows
      BY <2>2, RowsInUuid, RowsAfter
    <3> QED
      BY <2>1, <3>1 DEF BackendsKept, TypeInv, TypeOK
  <2>5. Moved
    BY <1>2, <1>6 DEF Stages, LiveStages
  <2> QED
    BY <1>1, <2>2, <2>3, <2>4, <2>5, ThreadsHold DEF Settles, TableStep
<1>7. SubmitFresh(t, r, k) => Settles
  BY <1>1, <1>4, <1>6 DEF SubmitFresh, Oldest, LiveFor
<1>8. ASSUME Answered(t, "PREPARED"), UNCHANGED <<table, refState, backends>>
      PROVE  Settles
  BY <1>2, <1>3, <1>8 DEF table, Stages
<1>9. Newest(own) \subseteq Rows
  BY <1>1 DEF Newest
<1> HIDE DEF own
<1> QED
  BY <1>1, <1>4, <1>5, <1>7, <1>8, <1>9 DEF SubmitOver

(* An operator's requeue (recover_ref, requeue).                           *)
LEMMA RecoverSettles ==
    ASSUME TypeInv, TypeInv', RowsKept, SettledInv, NEW t \in Admin, RecoverRequeue(t)
    PROVE  Settles
<1>1. UNCHANGED loop /\ admin' = [admin EXCEPT ![t] = Closed]
      /\ Closed \in AdminType /\ Closed.at # "hit"
  BY DEF RecoverRequeue, AdminType, Closed
<1>2. ASSUME UNCHANGED <<table, refState, backends>> PROVE Settles
  BY <1>1, <1>2, AloneSettles DEF table, BackendsKept
<1>3. ASSUME NEW u \in Rows, inhibition = None, jobs[u].stage \in TerminalErrors,
             OperatorEligible(jobs[u].rec, jobs[u].stage), OpenAttempt(jobs, u, 1, FALSE)
      PROVE  Settles
  BY <1>1, <1>3, OperatorMay, AttemptSettles
<1>4. ASSUME NEW k, RequeueRow(admin[t].ref, k) PROVE Settles
  BY <1>2, <1>3, <1>4 DEF RequeueRow, Newest, FindJob
<1> QED
  BY <1>2, <1>4 DEF RecoverRequeue

(* A due retry (retry_due).                                                *)
LEMMA RetryDueSettles ==
    ASSUME TypeInv, TypeInv', RowsKept, SettledInv, NEW u \in Uuid, RetryDue(u)
    PROVE  Settles
BY AutoMay, AttemptSettles DEF RetryDue

(* Polling a backend: the job of the loop is one that just ended (pump).   *)
LEMMA PollSettles ==
    ASSUME TypeInv, TypeInv', RowsKept, SettledInv, NEW u \in Uuid, Poll(u)
    PROVE  Settles
<1>1. /\ u \in Rows /\ Live(u) /\ jobs[u].stage \notin TerminalErrors
      /\ UNCHANGED <<aliases, admin>>
  BY DEF Poll, Live, LiveStages, TerminalErrors
<1>2. PICK stage \in Stages :
         /\ jobs' = [jobs EXCEPT ![u].stage = stage]
         /\ \/ UNCHANGED loop
            \/ loop' = [at |-> "publish", job |-> u] /\ stage = "PREPARED"
            \/ loop' = [at |-> "record", job |-> u] /\ stage \in TerminalErrors
         /\ backends[u] \notin {"none", "over"}
         /\ \E next \in BackendStates : backends' = [backends EXCEPT ![u] = next]
         /\ ~UNCHANGED loop => backends' = [backends EXCEPT ![u] = "over"]
  BY JobManagerAssumption DEF Poll, Stages, LiveStages, BackendStates
<1>3. loop = Idle
  BY DEF Poll, LoopAt, TypeInv, TypeOK, LoopType
<1>4. Plain
  BY <1>1, <1>2, StageMoves
<1>5. \A v \in Rows : /\ jobs'[v].stage = IF v = u THEN stage ELSE jobs[v].stage
                      /\ jobs'[v].rec = jobs[v].rec
  BY <1>1, <1>2, StageStep DEF TypeInv
<1>6. \A v \in Uuid : v # u => backends'[v] = backends[v]
  BY <1>2 DEF TypeInv, TypeOK
<1>7. BackendsKept
  BY <1>2, <1>6 DEF BackendsKept
<1>8. LoopHolds'
  <2>1. ASSUME loop' # Idle
        PROVE  /\ loop'.job = u /\ loop'.at \in {"publish", "record"} /\ backends'[u] = "over"
               /\ loop'.at = "publish" => stage = "PREPARED"
               /\ loop'.at = "record" => stage \in TerminalErrors
    BY <1>2, <1>3, <2>1 DEF TypeInv, TypeOK
  <2>2. Unclassified(u)' /\ jobs'[u].stage = stage
    BY <1>1, <1>5 DEF SettledInv, LiveOpen, Unclassified
  <2> QED
    BY <2>1, <2>2 DEF LoopHolds
<1>9. HitHolds'
  <2> SUFFICES ASSUME NEW t \in Admin, admin[t].at = "hit"
               PROVE  backends'[admin[t].job] = "none"
                      /\ jobs'[admin[t].job].stage \in {"QUEUED", "PREPARED"}
    BY <1>1 DEF HitHolds
  <2>1. /\ admin[t].job \in Rows /\ backends[admin[t].job] = "none"
        /\ jobs[admin[t].job].stage \in {"QUEUED", "PREPARED"}
    BY DEF TypeInv, JobsNamed, SettledInv, HitHolds
  <2>2. admin[t].job # u /\ admin[t].job \in Uuid
    BY <1>2, <2>1, RowsInUuid
  <2> QED
    BY <1>5, <1>6, <2>1, <2>2
<1> QED
  BY <1>4, <1>7, <1>8, <1>9 DEF Settles, TableStep

(* The outcome of the loop's job is recorded, and may be resumed at once   *)
(* (_finish_terminal).                                                     *)
LEMMA RecordSettles ==
    ASSUME TypeInv, TypeInv', RowsKept, SettledInv, RecordTerminal
    PROVE  Settles
<1> DEFINE u == loop.job
           stage == jobs[u].stage
           kind(evidence) == Classify(stage, stage, evidence, memlock)
           rows(evidence) == [jobs EXCEPT ![u].rec = Record(kind(evidence))]
<1>1. /\ u \in Rows /\ loop # Idle /\ loop.at = "record" /\ loop' = Idle
      /\ UNCHANGED admin
  BY DEF RecordTerminal, LoopAt, TypeInv, JobsNamed, Idle
<1>2. stage \in TerminalErrors /\ Unclassified(u) /\ ~Live(u) /\ backends[u] = "over"
  BY <1>1 DEF SettledInv, LoopHolds, Live, LiveStages, TerminalErrors
<1>3. PICK evidence \in SUBSET Evidence :
         \/ /\ MayResume(u, Record(kind(evidence)))
            /\ OpenAttempt(rows(evidence), u, jobs[u].attempt + 1, FALSE)
         \/ jobs' = rows(evidence) /\ UNCHANGED <<aliases, backends>>
  BY DEF RecordTerminal
<1>4. kind(evidence) \in Kinds /\ kind(evidence) \in RecordKinds
  BY ClassifyKind DEF RecordKinds
<1>5. Record(kind(evidence)) \in RecordType /\ Record(kind(evidence)).to = 0
  BY <1>4, RecordTyped
<1>6. (BackendsKept /\ \A v \in Rows : jobs'[v].stage = jobs[v].stage)
         => HitHolds' /\ LoopHolds'
  <2> SUFFICES ASSUME BackendsKept, \A v \in Rows : jobs'[v].stage = jobs[v].stage,
                      NEW t \in Admin, admin[t].at = "hit"
               PROVE  backends'[admin[t].job] = "none"
                      /\ jobs'[admin[t].job].stage \in {"QUEUED", "PREPARED"}
    BY <1>1 DEF HitHolds, LoopHolds
  <2>1. /\ admin[t].job \in Rows /\ backends[admin[t].job] = "none"
        /\ jobs[admin[t].job].stage \in {"QUEUED", "PREPARED"}
    BY DEF TypeInv, JobsNamed, SettledInv, HitHolds
  <2> QED
    BY <2>1, RowsInUuid DEF BackendsKept
<1>7. CASE /\ MayResume(u, Record(kind(evidence)))
           /\ OpenAttempt(rows(evidence), u, jobs[u].attempt + 1, FALSE)
  <2> DEFINE written == rows(evidence)
  <2>1. /\ SameJobs(jobs, written) /\ written \in Seq(Row) /\ Len(written) = Len(jobs)
        /\ \A v \in Rows : /\ written[v].stage = jobs[v].stage
                           /\ v # u => written[v].rec = jobs[v].rec
        /\ written[u].rec = Record(kind(evidence))
    <3> HIDE DEF u, kind
    <3> QED
      BY <1>1, <1>5, RecordWritten
  <2>2. OpenAttempt(written, u, jobs[u].attempt + 1, FALSE)
        /\ MayResume(u, Record(kind(evidence)))
    BY <1>7
  <2>3. inhibition = None /\ Record(kind(evidence)).kind \notin {"safety", "permanent"}
    BY <2>2, AutoMay
  <2> HIDE DEF u, stage, kind, rows, written
  <2>4. TableStep /\ \A v \in Rows : jobs'[v].stage = jobs[v].stage
    BY <1>1, <1>2, <1>5, <2>1, <2>2, <2>3, AttemptMoves DEF stage
  <2>5. BackendsKept
    <3>1. jobs[u].attempt + 1 \in Nat /\ TypeOK
      BY <1>1, RowTyped DEF TypeInv
    <3>2. Attempted(written, u, jobs[u].attempt + 1) /\ Rows = 1..Len(jobs) /\ Len(jobs) \in Nat
      BY <1>1, <2>1, <2>2, <3>1, OpenAttemptTyped, RowsInUuid
    <3>3. ASSUME Len(jobs') = Len(jobs) + 1,
                 backends' = [backends EXCEPT ![Len(jobs) + 1] = "new"]
          PROVE  BackendsKept
      <4>1. Len(jobs) + 1 \in Rows' \ Rows
        BY <3>2, <3>3, RowsAfter
      <4> QED
        BY <3>3, <4>1 DEF BackendsKept, TypeInv, TypeOK
    <3> QED
      BY <2>1, <3>2, <3>3 DEF Attempted, BackendsKept
  <2> QED
    BY <1>6, <2>4, <2>5 DEF Settles
<1>8. CASE jobs' = rows(evidence) /\ UNCHANGED <<aliases, backends>>
  <2>1. jobs' = [jobs EXCEPT ![u].rec = Record(kind(evidence))]
    BY <1>8
  <2> HIDE DEF u, stage, kind, rows
  <2>2. Plain
    BY <1>1, <1>2, <1>4, <1>8, <2>1, RecMoves
  <2>3. \A v \in Rows : jobs'[v].stage = jobs[v].stage
    BY <1>1, <1>5, <2>1, RecStep DEF TypeInv
  <2>4. BackendsKept
    BY <1>8 DEF BackendsKept
  <2> QED
    BY <1>6, <2>2, <2>3, <2>4 DEF Settles, TableStep
<1> QED
  BY <1>3, <1>7, <1>8

(* Publication: a result that cannot be read back ends its row after all,  *)
(* and only that write leaves an end still to be classified                *)
(* (_publish_result).                                                      *)
LEMMA PublishSettles ==
    ASSUME TypeInv, TypeInv', RowsKept, SettledInv,
           PublishRename \/ PublishFails \/ RecordUnpublished \/ PublishCommit
               \/ MarkPrepared
    PROVE  Settles
<1> DEFINE u == loop.job
<1>1. /\ loop # Idle /\ u \in Rows /\ u \in Uuid /\ backends[u] = "over"
      /\ UNCHANGED <<aliases, backends, admin>>
  <2>1. loop # Idle /\ UNCHANGED <<aliases, backends, admin>>
    BY DEF PublishRename, PublishFails, RecordUnpublished, PublishCommit, MarkPrepared,
           LoopAt, Idle, compile, table
  <2> QED
    BY <2>1, RowsInUuid DEF TypeInv, JobsNamed, SettledInv, LoopHolds
<1>2. BackendsKept
  BY <1>1 DEF BackendsKept
<1>3. CASE PublishRename \/ PublishCommit \/ MarkPrepared
  <2>1. UNCHANGED jobs
    BY <1>3 DEF PublishRename, PublishCommit, MarkPrepared, table
  <2>2. loop' = Idle \/ (loop'.job = u /\ loop'.at \in {"mark", "commit"})
    BY <1>1, <1>3 DEF PublishRename, PublishCommit, MarkPrepared, TypeInv, TypeOK, LoopType
  <2>3. LoopHolds'
    BY <1>1, <2>2 DEF LoopHolds
  <2>4. HitHolds'
    BY <1>1, <2>1 DEF SettledInv, HitHolds
  <2> QED
    BY <1>1, <1>2, <2>1, <2>3, <2>4, RowsAlone DEF Settles, TableStep
<1>4. CASE PublishFails
  <2>1. /\ jobs' = [jobs EXCEPT ![u].stage = "COMPILE_FAILED"] /\ loop.at = "publish"
        /\ loop' = [loop EXCEPT !.at = "unpublished"]
    BY <1>4 DEF PublishFails, LoopAt
  <2>2. /\ jobs[u].stage = "PREPARED" /\ Unclassified(u)
        /\ "COMPILE_FAILED" \in Stages /\ "COMPILE_FAILED" \in TerminalErrors
        /\ "COMPILE_FAILED" \notin LiveStages /\ "PREPARED" \notin TerminalErrors
    BY <1>1, <2>1 DEF SettledInv, LoopHolds, Stages, LiveStages, TerminalErrors
  <2>3. loop'.at = "unpublished" /\ loop'.job = u
    BY <1>1, <2>1 DEF TypeInv, TypeOK, LoopType
  <2> HIDE DEF u
  <2>4. Plain
    BY <1>1, <2>1, <2>2, StageMoves
  <2>5. \A v \in Rows : /\ jobs'[v].stage = IF v = u THEN "COMPILE_FAILED" ELSE jobs[v].stage
                        /\ jobs'[v].rec = jobs[v].rec
    BY <1>1, <2>1, <2>2, StageStep DEF TypeInv
  <2>6. LoopHolds'
    BY <1>1, <2>2, <2>3, <2>5 DEF LoopHolds, Unclassified
  <2>7. ASSUME NEW t \in Admin, admin[t].at = "hit"
        PROVE  /\ backends[admin[t].job] = "none"
               /\ jobs'[admin[t].job].stage \in {"QUEUED", "PREPARED"}
    <3>1. /\ admin[t].job \in Rows /\ backends[admin[t].job] = "none"
          /\ jobs[admin[t].job].stage \in {"QUEUED", "PREPARED"}
      BY <2>7 DEF TypeInv, JobsNamed, SettledInv, HitHolds
    <3>2. admin[t].job # u
      BY <1>1, <3>1
    <3> QED
      BY <2>5, <3>1, <3>2
  <2>8. HitHolds'
    BY <1>1, <2>7 DEF HitHolds
  <2> QED
    BY <1>2, <2>4, <2>6, <2>8 DEF Settles, TableStep
<1>5. CASE RecordUnpublished
  <2> DEFINE kind == Classify("COMPILE_FAILED", "COMPILE_FAILED", {}, memlock)
  <2>1. /\ jobs' = [jobs EXCEPT ![u].rec = Record(kind)] /\ loop.at = "unpublished"
        /\ loop' = Idle
    BY <1>5 DEF RecordUnpublished, LoopAt
  <2>2. kind \in RecordKinds
    BY ClassifyKind DEF RecordKinds
  <2>3. Unclassified(u) /\ ~Live(u)
    BY <1>1, <2>1 DEF SettledInv, LoopHolds, Live, LiveStages, TerminalErrors
  <2> HIDE DEF u, kind
  <2>4. Plain
    BY <1>1, <2>1, <2>2, <2>3, RecMoves
  <2>5. \A v \in Rows : jobs'[v].stage = jobs[v].stage
    BY <1>1, <2>1, <2>2, RecordTyped, RecStep DEF TypeInv
  <2>6. HitHolds'
    BY <1>1, <2>5 DEF TypeInv, JobsNamed, SettledInv, HitHolds
  <2>7. LoopHolds'
    BY <2>1 DEF LoopHolds
  <2> QED
    BY <1>2, <2>4, <2>6, <2>7 DEF Settles, TableStep
<1> QED
  BY <1>3, <1>4, <1>5

(* The compile threads write no row (run_compile).                         *)
LEMMA CompileSettles ==
    ASSUME TypeInv, TypeInv', RowsKept, SettledInv, NEW u \in Uuid, CompileStep(u)
    PROVE  Settles
<1>1. UNCHANGED <<jobs, aliases, loop, admin>>
  BY DEF CompileStep, Acquire, FindBusy, Finish, table, durable
<1>2. \E next : backends[u] \notin {"none", "over"} /\ backends' = [backends EXCEPT ![u] = next]
  BY DEF CompileStep, Acquire, FindBusy, Finish
<1>3. BackendsKept
  BY <1>2 DEF BackendsKept, TypeInv, TypeOK
<1> QED
  BY <1>1, <1>3, AloneSettles

(* The clock moves a record on (not_before).                               *)
LEMMA BackoffSettles ==
    ASSUME TypeInv, TypeInv', RowsKept, SettledInv, NEW u \in Uuid, BackoffElapses(u)
    PROVE  Settles
<1>1. /\ u \in Rows /\ jobs' = [jobs EXCEPT ![u].rec.due = TRUE]
      /\ UNCHANGED <<aliases, backends, loop, admin>>
  BY DEF BackoffElapses, process, compile
<1>2. Plain
  BY <1>1, DueMoves
<1>3. EndsKept
  BY <1>1, DueStep DEF EndsKept
<1>4. BackendsKept
  BY <1>1 DEF BackendsKept
<1> QED
  BY <1>1, <1>2, <1>3, <1>4, ThreadsHold DEF Settles, TableStep

(* Startup runs without threads, and ends and classifies rows that nobody  *)
(* else writes (store.recover, _reconcile_jobs).                           *)
LEMMA StartupSettles ==
    ASSUME TypeInv, CompileInv, TypeInv', RowsKept, SettledInv, StartupStep
    PROVE  Settles
<1>1. /\ phase # "serving" /\ UNCHANGED <<aliases, backends, loop, admin>>
  BY DEF StartupStep, RecoverScratch, Adopt, ReconcileLive, ReconcileUnrecorded, Serve,
         process, compile, table, durable
<1>2. loop' = Idle /\ \A t \in Admin : admin'[t] \in {Idle, Closed}
  BY <1>1 DEF CompileInv, StartsEmpty
<1>3. LoopHolds' /\ HitHolds' /\ BackendsKept
  BY <1>1, <1>2 DEF LoopHolds, HitHolds, BackendsKept, Idle, Closed
<1>4. ASSUME Adopt \/ Serve PROVE Plain
  <2>1. UNCHANGED <<jobs, aliases>>
    BY <1>4 DEF Adopt, Serve, table, durable
  <2> QED
    BY <2>1, RowsAlone
<1>5. ASSUME NEW u \in Uuid, RecoverScratch(u) PROVE Plain
  <2>1. /\ u \in Rows /\ Live(u) /\ jobs' = [jobs EXCEPT ![u].stage = "INTERRUPTED"]
    BY <1>5 DEF RecoverScratch, Interrupted
  <2>2. /\ "INTERRUPTED" \in Stages /\ "INTERRUPTED" \notin LiveStages
        /\ jobs[u].stage \notin TerminalErrors
    BY <2>1 DEF Live, Stages, LiveStages, TerminalErrors
  <2> QED
    BY <1>1, <2>1, <2>2, StageMoves
<1>6. \A u \in Uuid : \E kind \in RecordKinds : InterruptRecord(u) = Record(kind)
  BY ClassifyKind DEF InterruptRecord, RecordKinds, Kinds
<1>7. ASSUME NEW u \in Uuid, ReconcileLive(u) PROVE Plain
  <2>1. PICK kind \in RecordKinds : InterruptRecord(u) = Record(kind)
    BY <1>6
  <2>2. /\ u \in Rows /\ Live(u)
        /\ jobs' = [[jobs EXCEPT ![u].stage = "INTERRUPTED"] EXCEPT ![u].rec = Record(kind)]
    BY <1>7, <2>1 DEF ReconcileLive, Interrupted
  <2>3. Unclassified(u)
    BY <2>2 DEF SettledInv, LiveOpen
  <2> QED
    BY <1>1, <2>2, <2>3, BothMoves
<1>8. ASSUME NEW u \in Uuid, ReconcileUnrecorded(u) PROVE Plain
  <2>1. PICK kind \in RecordKinds : InterruptRecord(u) = Record(kind)
    BY <1>6
  <2>2. /\ u \in Rows /\ ~Live(u) /\ Unclassified(u)
        /\ jobs' = [jobs EXCEPT ![u].rec = InterruptRecord(u)]
    BY <1>8 DEF ReconcileUnrecorded, Unrecorded, IsNull, Live, LiveStages, Unclassified, Kinds
  <2> QED
    BY <1>1, <2>1, <2>2, RecMoves
<1> QED
  BY <1>3, <1>4, <1>5, <1>7, <1>8 DEF StartupStep, Settles, TableStep

(* The rest of the world: a death empties the threads and keeps the rows.  *)
LEMMA WorldSettles ==
    ASSUME TypeInv, TypeInv', RowsKept, SettledInv, WorldStep
    PROVE  SettledInv' /\ TableStep
<1>1. ASSUME NEW new \in Inhibitions, Inhibit(new) PROVE Settles
  BY <1>1, AloneSettles DEF Inhibit, table, process, compile, BackendsKept
<1>2. ASSUME NEW k \in Prunable, Prune(k) PROVE Settles
  BY <1>2, AloneSettles DEF Prune, table, process, compile, BackendsKept
<1>3. ASSUME Restart PROVE SettledInv' /\ TableStep
  <2>1. UNCHANGED <<jobs, aliases>> /\ loop' = Idle /\ \A u \in Uuid : backends'[u] = "none"
    BY <1>3 DEF Restart, durable, table
  <2>2. \A t \in Admin : admin'[t] \in {Idle, Closed}
    BY <1>3 DEF Restart
  <2>3. TableStep
    BY <2>1, RowsAlone DEF TableStep
  <2>4. LiveOpen'
    BY <2>1, <2>3, LiveStaysOpen DEF SettledInv
  <2> QED
    BY <2>1, <2>2, <2>3, <2>4 DEF SettledInv, LoopHolds, HitHolds, Unused, Idle, Closed
<1> QED
  BY <1>1, <1>2, <1>3, BackoffSettles, SettledStays DEF WorldStep, Settles

(* Every step keeps the invariant and moves the table as it may.           *)
LEMMA NextSettles ==
    ASSUME TypeInv, CompileInv, SettledInv, [Next]_vars
    PROVE  TypeInv' /\ CompileInv' /\ SettledInv' /\ RowsKept /\ TableStep
<1>1. TypeInv' /\ RowsKept /\ CompileInv'
  BY NextTyped, NextCompile
<1>2. CASE UNCHANGED vars
  <2>1. UNCHANGED <<jobs, aliases, backends, loop, admin>>
    BY <1>2 DEF vars, durable, process, table, compile
  <2> QED
    BY <1>1, <2>1, AloneSettles, SettledStays DEF Settles, BackendsKept
<1>3. ASSUME NEW t \in Admin, AdminStep(t) PROVE Settles
  BY <1>1, <1>3, AdminReadsSettle, CacheHitSettles, CacheHitDoneSettles, SubmitSettles,
     RecoverSettles DEF AdminStep
<1>4. ASSUME LoopStep PROVE Settles
  BY <1>1, <1>4, RetryDueSettles, PollSettles, RecordSettles, PublishSettles DEF LoopStep
<1>5. CASE Next
  BY <1>1, <1>3, <1>4, <1>5, CompileSettles, WorldSettles, StartupSettles, SettledStays
  DEF Next, Settles
<1> QED
  BY <1>1, <1>2, <1>5

(* The invariant holds from the start.                                     *)
LEMMA InitSettled == Init => SettledInv
  BY DEF Init, SettledInv, LiveOpen, LoopHolds, HitHolds, Unused, Idle, Rows

LEMMA Settled == Spec => [](TypeInv /\ CompileInv /\ SettledInv)
<1>1. TypeInv /\ CompileInv /\ SettledInv /\ [Next]_vars
         => TypeInv' /\ CompileInv' /\ SettledInv'
  BY NextSettles
<1> QED
  BY InitTyped, CompileInit, InitSettled, <1>1, PTL DEF Spec
----------------------------------------------------------------------------
(* What follows for the history.                                           *)

(* A row with a successor was there before the step.                       *)
LEMMA ChainedIsOld ==
    ASSUME TypeInv, TypeInv', RowsKept, Fresh, NEW u \in Rows', jobs'[u].rec.to # 0
    PROVE  u \in Rows
<1>1. Rows = 1..Len(jobs) /\ Rows' = 1..Len(jobs') /\ Len(jobs) \in Nat
  BY RowsInUuid, RowsAfter
<1> QED
  BY <1>1 DEF Fresh

(* A link that a step keeps stays good.                                    *)
LEMMA LinkKept ==
    ASSUME TypeInv, TypeInv', RowsKept, ResumeChain, NEW u \in Rows,
           jobs[u].rec.to # 0, jobs'[u].rec.to = jobs[u].rec.to,
           jobs'[u].rec.kind = jobs[u].rec.kind
    PROVE  LET v == jobs'[u].rec.to
           IN  /\ v \in Rows /\ v \in Rows' /\ u < v
               /\ jobs'[v].ref = jobs'[u].ref /\ jobs'[v].key = jobs'[u].key
               /\ jobs'[v].attempt \in {1, jobs'[u].attempt + 1}
               /\ jobs'[u].rec.kind \notin {"safety", "permanent"}
<1>1. jobs[u].rec.to \in Rows /\ Rows \subseteq Rows'
  BY RowsAfter DEF ResumeChain
<1> QED
  BY <1>1 DEF ResumeChain, RowsKept

(* Chains across a step: the only new link is to the row that is added.    *)
LEMMA ChainKept ==
    ASSUME TypeInv, TypeInv', RowsKept, ResumeChain, TableStep
    PROVE  ResumeChain'
<1>1. Rows = 1..Len(jobs) /\ Rows' = 1..Len(jobs') /\ Len(jobs) \in Nat /\ Rows \subseteq Rows'
  BY RowsInUuid, RowsAfter
<1>2. Fresh
  BY DEF TableStep, Plain, Resumes
<1>3. CASE Plain
  <2> SUFFICES ASSUME NEW u \in Rows', jobs'[u].rec.to # 0
               PROVE  LET v == jobs'[u].rec.to
                      IN  /\ v \in Rows' /\ u < v
                          /\ jobs'[v].ref = jobs'[u].ref /\ jobs'[v].key = jobs'[u].key
                          /\ jobs'[v].attempt \in {1, jobs'[u].attempt + 1}
                          /\ jobs'[u].rec.kind \notin {"safety", "permanent"}
                          /\ \A w \in Rows' : jobs'[w].rec.to = v => w = u
    BY DEF ResumeChain
  <2>1. /\ u \in Rows /\ jobs'[u].rec.to = jobs[u].rec.to
        /\ jobs'[u].rec.kind = jobs[u].rec.kind
    BY <1>2, <1>3, ChainedIsOld DEF Plain, KeepsTo
  <2>2. ASSUME NEW w \in Rows', jobs'[w].rec.to = jobs'[u].rec.to PROVE w = u
    <3>1. w \in Rows /\ jobs[w].rec.to = jobs[u].rec.to
      BY <1>2, <1>3, <2>1, <2>2, ChainedIsOld DEF Plain, KeepsTo
    <3> QED
      BY <2>1, <3>1 DEF ResumeChain
  <2> QED
    BY <2>1, <2>2, LinkKept
<1>4. ASSUME NEW p \in Rows, Resumes(p) PROVE ResumeChain'
  <2> DEFINE new == Len(jobs) + 1
  <2>1. new \in Rows' /\ new \notin Rows /\ jobs'[p].rec.to = new /\ p < new
    BY <1>1, <1>4 DEF Resumes
  <2>2. ASSUME NEW u \in Rows', jobs'[u].rec.to # 0, u # p
        PROVE  /\ u \in Rows /\ jobs'[u].rec.to = jobs[u].rec.to
               /\ jobs'[u].rec.kind = jobs[u].rec.kind /\ jobs'[u].rec.to # new
    <3>1. /\ u \in Rows /\ jobs'[u].rec.to = jobs[u].rec.to
          /\ jobs'[u].rec.kind = jobs[u].rec.kind
      BY <1>2, <1>4, <2>2, ChainedIsOld DEF Resumes, KeepsTo
    <3>2. jobs[u].rec.to \in Rows
      BY <2>2, <3>1 DEF ResumeChain
    <3> QED
      BY <2>1, <3>1, <3>2
  <2> SUFFICES ASSUME NEW u \in Rows', jobs'[u].rec.to # 0
               PROVE  LET v == jobs'[u].rec.to
                      IN  /\ v \in Rows' /\ u < v
                          /\ jobs'[v].ref = jobs'[u].ref /\ jobs'[v].key = jobs'[u].key
                          /\ jobs'[v].attempt \in {1, jobs'[u].attempt + 1}
                          /\ jobs'[u].rec.kind \notin {"safety", "permanent"}
                          /\ \A w \in Rows' : jobs'[w].rec.to = v => w = u
    BY DEF ResumeChain
  <2>3. CASE u = p
    <3>1. \A w \in Rows' : jobs'[w].rec.to = new => w = p
      BY <2>1, <2>2
    <3> QED
      BY <1>4, <2>1, <2>3, <3>1 DEF Resumes, RowsKept
  <2>4. CASE u # p
    <3>1. ASSUME NEW w \in Rows', jobs'[w].rec.to = jobs'[u].rec.to PROVE w = u
      <4>1. w # p /\ u \in Rows /\ w \in Rows /\ jobs[w].rec.to = jobs[u].rec.to
            /\ jobs[u].rec.to # 0
        BY <2>1, <2>2, <2>4, <3>1
      <4> QED
        BY <4>1 DEF ResumeChain
    <3> QED
      BY <2>2, <2>4, <3>1, LinkKept
  <2> QED
    BY <2>3, <2>4
<1> QED
  BY <1>3, <1>4 DEF TableStep

(* Whoever resumes, the serve loop, a submitter or an operator, and        *)
(* through any number of deaths, the successor a row names is a later row  *)
(* for the same ref and bytes that no other row names, with the next       *)
(* attempt number or the first of a new cycle, and a safety or permanent   *)
(* failure names none (the resumed_to stamp of _new_attempt).              *)
THEOREM Chains == Spec => []ResumeChain
<1>1. Init => ResumeChain
  BY DEF Init, ResumeChain, Rows
<1>2. TypeInv /\ CompileInv /\ SettledInv /\ ResumeChain /\ [Next]_vars => ResumeChain'
  BY NextSettles, ChainKept
<1> QED
  BY <1>1, <1>2, Settled, PTL DEF Spec

(* The refs reachable from a row after the step.                           *)
RefsNext(v) == {jobs'[v].ref} \cup {r \in Ref : <<v, r>> \in aliases'}

(* The refs of a row with a successor: only live rows are joined.          *)
LEMMA AliasesKept ==
    ASSUME TypeInv, TypeInv', RowsKept, LiveOpen, ResumeChain, AliasesFollow, TableStep
    PROVE  AliasesFollow'
<1>1. Rows = 1..Len(jobs) /\ Rows' = 1..Len(jobs') /\ Len(jobs) \in Nat /\ Rows \subseteq Rows'
  BY RowsInUuid, RowsAfter
<1>2. Fresh /\ aliases \subseteq aliases'
  BY DEF TableStep, Plain, Resumes
<1>3. \A v \in Rows : RefsOf(v) \subseteq RefsNext(v)
  BY <1>2 DEF RefsOf, RefsNext, RowsKept
<1>4. ASSUME NEW u \in Rows, jobs[u].rec.to # 0, jobs'[u].rec.to = jobs[u].rec.to,
             \A r \in Ref : <<u, r>> \in aliases' => <<u, r>> \in aliases
      PROVE  RefsNext(u) \subseteq RefsNext(jobs'[u].rec.to)
  <2>1. jobs[u].rec.to \in Rows /\ RefsOf(u) \subseteq RefsOf(jobs[u].rec.to)
    BY <1>4 DEF ResumeChain, AliasesFollow
  <2>2. RefsNext(u) \subseteq RefsOf(u)
    BY <1>4 DEF RefsOf, RefsNext, RowsKept
  <2>3. RefsOf(jobs[u].rec.to) \subseteq RefsNext(jobs'[u].rec.to)
    BY <1>2, <1>4, <2>1 DEF RefsOf, RefsNext, RowsKept
  <2> QED
    BY <2>1, <2>2, <2>3
<1>5. CASE Plain
  <2> SUFFICES ASSUME NEW u \in Rows', jobs'[u].rec.to # 0
               PROVE  RefsNext(u) \subseteq RefsNext(jobs'[u].rec.to)
    BY DEF AliasesFollow, RefsOf, RefsNext
  <2>1. u \in Rows /\ jobs'[u].rec.to = jobs[u].rec.to
    BY <1>2, <1>5, ChainedIsOld DEF Plain, KeepsTo
  <2>2. \A r \in Ref : <<u, r>> \in aliases' => <<u, r>> \in aliases
    <3>1. ~Live(u)
      BY <2>1 DEF LiveOpen
    <3> QED
      BY <1>5, <3>1 DEF Plain
  <2> QED
    BY <1>4, <2>1, <2>2
<1>6. ASSUME NEW p \in Rows, Resumes(p) PROVE AliasesFollow'
  <2> DEFINE new == Len(jobs) + 1
  <2>1. /\ new \notin Rows /\ jobs'[p].rec.to = new /\ jobs'[new].ref = jobs[p].ref
        /\ aliases' = aliases \cup CarriedAliases(jobs, p, new)
    BY <1>1, <1>6 DEF Resumes
  <2>2. ASSUME NEW u \in Rows, NEW r, <<u, r>> \in aliases' PROVE <<u, r>> \in aliases
    BY <2>1, <2>2 DEF CarriedAliases
  <2> SUFFICES ASSUME NEW u \in Rows', jobs'[u].rec.to # 0
               PROVE  RefsNext(u) \subseteq RefsNext(jobs'[u].rec.to)
    BY DEF AliasesFollow, RefsOf, RefsNext
  <2>3. CASE u = p
    <3>1. RefsNext(p) \subseteq RefsOf(p)
      BY <2>2 DEF RefsOf, RefsNext, RowsKept
    <3>2. ASSUME NEW r \in RefsOf(p) PROVE r \in RefsNext(new)
      <4>1. r = jobs[p].ref \/ (r \in Ref /\ <<new, r>> \in aliases')
        BY <2>1 DEF CarriedAliases, RefsOf
      <4> QED
        BY <2>1, <4>1 DEF RefsNext
    <3> QED
      BY <2>1, <2>3, <3>1, <3>2
  <2>4. CASE u # p
    <3>1. u \in Rows /\ jobs'[u].rec.to = jobs[u].rec.to
      BY <1>2, <1>6, <2>4, ChainedIsOld DEF Resumes, KeepsTo
    <3> QED
      BY <1>4, <2>2, <3>1
  <2> QED
    BY <2>3, <2>4
<1> QED
  BY <1>5, <1>6 DEF TableStep

(* A ref that joined a job is reachable from the attempt that resumes it,  *)
(* and so from the whole chain: nobody who waits for a job is left with a  *)
(* row that will not move any more (_carry_aliases).                       *)
THEOREM Aliases == Spec => []AliasesFollow
<1>1. Init => ResumeChain /\ AliasesFollow
  BY DEF Init, ResumeChain, AliasesFollow, Rows
<1>2. TypeInv /\ CompileInv /\ SettledInv /\ ResumeChain /\ AliasesFollow /\ [Next]_vars
         => ResumeChain' /\ AliasesFollow'
  BY NextSettles, ChainKept, AliasesKept DEF SettledInv
<1> QED
  BY <1>1, <1>2, Settled, PTL DEF Spec

(* Under an inhibition no step of any thread gives a terminal row a        *)
(* successor (_maybe_resume, requeue).                                     *)
THEOREM NoneResumed == Spec => NoResumeUnderInhibition
<1>1. TypeInv /\ CompileInv /\ SettledInv /\ [Next]_vars
         => (inhibition # None =>
                \A u \in Rows : jobs'[u].rec.to \in {0, jobs[u].rec.to})
  BY NextSettles DEF TableStep, Plain, Resumes, KeepsTo
<1> QED
  BY <1>1, Settled, PTL DEF Spec, NoResumeUnderInhibition

(* No later step, of a thread that read the row earlier or of a process    *)
(* that starts again, takes back how a job ended or what the end was       *)
(* classified as.                                                          *)
THEOREM EndsStand == Spec => TerminalIsHistory
<1>1. TypeInv /\ CompileInv /\ SettledInv /\ [Next]_vars
         => \A u \in Rows : jobs[u].stage \in TerminalErrors =>
               /\ jobs'[u].stage = jobs[u].stage
               /\ jobs[u].rec.kind \in Kinds => jobs'[u].rec.kind = jobs[u].rec.kind
  BY NextSettles DEF TableStep, Plain, Resumes, Moves, Unclassified
<1> QED
  BY <1>1, Settled, PTL DEF Spec, TerminalIsHistory

----------------------------------------------------------------------------
(* No live row is forgotten.  The table moves as above; what is left is    *)
(* that no step takes a live row out of the hands it is in.                *)

Opens ==
    \/ Len(jobs') = Len(jobs) /\ UNCHANGED backends
    \/ Len(jobs') = Len(jobs) + 1 /\ backends' = [backends EXCEPT ![Len(jobs) + 1] = "new"]

(* Every old row that is still live keeps its backend, or its admin        *)
(* thread, and a new one gets one or the other.                            *)
InHand ==
    /\ \A v \in Rows : Compiling(v) => Compiling(v)' \/ ~Live(v)'
    /\ \A t \in Admin : admin[t].at = "hit" =>
          admin'[t] = admin[t] \/ jobs'[admin[t].job].stage \notin LiveStages
    /\ \A v \in Rows' \ Rows :
          Compiling(v)' \/ \E t \in Admin : admin'[t].at = "hit" /\ admin'[t].job = v

LEMMA InHandKept ==
    ASSUME TypeInv, TypeInv', RowsKept, TableStep, NoneForgotten, phase = "serving", InHand
    PROVE  NoneForgotten'
<1>1. \A v \in Rows : Moves(v)
  BY DEF TableStep, Plain, Resumes
<1>2. ASSUME NEW v \in Rows, Live(v)'
      PROVE  Compiling(v)' \/ \E t \in Admin : admin'[t].at = "hit" /\ admin'[t].job = v
  <2>1. Live(v)
    BY <1>1, <1>2 DEF Moves, Live
  <2>2. CASE Compiling(v)
    BY <1>2, <2>2 DEF InHand
  <2>3. ASSUME NEW t \in Admin, admin[t].at = "hit", admin[t].job = v
        PROVE  admin'[t].at = "hit" /\ admin'[t].job = v
    <3>1. admin'[t] = admin[t]
      BY <1>2, <2>3 DEF InHand, Live
    <3> QED
      BY <2>3, <3>1
  <2> QED
    BY <2>1, <2>2, <2>3 DEF NoneForgotten
<1> QED
  BY <1>2 DEF NoneForgotten, InHand

(* A step that opens at most one row, with a backend, while the threads    *)
(* between the writes of a cache hit stay there.                           *)
LEMMA OpensInHand ==
    ASSUME TypeInv, TypeInv', RowsKept, Opens,
           \/ UNCHANGED admin
           \/ \E t \in Admin : /\ admin[t].at # "hit"
                               /\ \E next : admin' = [admin EXCEPT ![t] = next]
    PROVE  InHand
<1>1. Rows = 1..Len(jobs) /\ Rows' = 1..Len(jobs') /\ Len(jobs) \in Nat
      /\ Rows \subseteq Uuid /\ Rows' \subseteq Uuid
  BY RowsInUuid, RowsAfter
<1>2. \A t \in Admin : admin[t].at = "hit" => admin'[t] = admin[t]
  BY DEF TypeInv, TypeOK
<1>3. /\ \A v \in Rows : backends'[v] = backends[v]
      /\ \A v \in Rows' \ Rows : backends'[v] = "new"
  <2>1. CASE Len(jobs') = Len(jobs) /\ UNCHANGED backends
    BY <1>1, <2>1
  <2>2. CASE Len(jobs') = Len(jobs) + 1
             /\ backends' = [backends EXCEPT ![Len(jobs) + 1] = "new"]
    <3>1. Len(jobs) + 1 \in Uuid /\ Len(jobs) + 1 \notin Rows
          /\ \A v \in Rows' \ Rows : v = Len(jobs) + 1
      BY <1>1, <2>2
    <3> QED
      BY <1>1, <2>2, <3>1 DEF TypeInv, TypeOK
  <2> QED
    BY <2>1, <2>2 DEF Opens
<1> QED
  BY <1>2, <1>3 DEF InHand, Compiling

(* The next attempt has its backend from the start, or there is none       *)
(* (_new_attempt).                                                         *)
LEMMA AttemptInHand ==
    ASSUME TypeInv, NEW rows \in Seq(Row), Len(rows) = Len(jobs), NEW u \in Rows,
           NEW attempt \in Nat, NEW sourced \in BOOLEAN,
           OpenAttempt(rows, u, attempt, sourced)
    PROVE  Opens
<1>1. Rows = 1..Len(rows) /\ TypeOK
  BY RowsInUuid DEF TypeInv
<1>2. Attempted(rows, u, attempt)
  BY <1>1, OpenAttemptTyped
<1> QED
  BY <1>2 DEF Attempted, Opens

LEMMA AdminInHand ==
    ASSUME TypeInv, TypeInv', RowsKept, NEW t \in Admin, AdminStep(t)
    PROVE  phase = "serving" /\ InHand
<1>1. phase = "serving"
  BY DEF AdminStep, Ingest, IngestChanged, CacheHit, CacheHitDone, CacheMiss, Submit,
         PrepareDone, WaitRead, WaitMark, RecoverClear, RecoverRequeue, AdminAt
<1> SUFFICES InHand
  BY <1>1
<1>2. ASSUME Opens, admin[t].at # "hit", \E next : admin' = [admin EXCEPT ![t] = next]
      PROVE  InHand
  BY <1>2, OpensInHand
<1>3. ASSUME UNCHANGED <<jobs, backends>> PROVE Opens
  BY <1>3 DEF Opens
<1>4. ASSUME NEW u \in Rows, NEW sourced \in BOOLEAN,
             \/ OpenAttempt(jobs, u, jobs[u].attempt + 1, sourced)
             \/ OpenAttempt(jobs, u, 1, sourced)
      PROVE  Opens
  <2>1. jobs \in Seq(Row) /\ jobs[u].attempt + 1 \in Nat
    BY RowTyped DEF TypeInv, TypeOK
  <2> QED
    BY <1>4, <2>1, AttemptInHand
<1>5. CASE \/ \E r \in Ref, k \in Key : Ingest(t, r, k) \/ IngestChanged(t, r, k)
           \/ CacheMiss(t) \/ PrepareDone(t)
           \/ (\E u \in Uuid : WaitRead(t, u)) \/ WaitMark(t)
           \/ (\E r \in Ref : RecoverClear(t, r))
  <2>1. UNCHANGED <<jobs, backends>> /\ admin[t].at # "hit"
    BY <1>5 DEF Ingest, IngestChanged, CacheMiss, PrepareDone, WaitRead, WaitMark,
                RecoverClear, AdminAt, table, durable, compile
  <2>2. \E next : admin' = [admin EXCEPT ![t] = next]
    BY <1>5 DEF Ingest, IngestChanged, CacheMiss, PrepareDone, WaitRead, WaitMark,
                RecoverClear
  <2> QED
    BY <1>2, <1>3, <2>1, <2>2
<1>6. CASE CacheHit(t)
  <2> DEFINE new == Len(jobs) + 1
             hit == [at |-> "hit", ref |-> admin[t].ref, job |-> new]
  <2>1. /\ admin[t].at = "ingested" /\ UNCHANGED backends
        /\ jobs' = Append(jobs, NewRow(admin[t].ref, admin[t].key, 1, "null"))
        /\ admin' = [admin EXCEPT ![t] = hit]
    BY <1>6 DEF CacheHit, AdminAt, compile
  <2>2. /\ admin'[t].at = "hit" /\ admin'[t].job = new
        /\ \A s \in Admin : s # t => admin'[s] = admin[s]
    BY <2>1 DEF TypeInv, TypeOK
  <2>3. Rows = 1..Len(jobs) /\ Rows' = 1..Len(jobs') /\ Len(jobs) \in Nat
    BY RowsInUuid, RowsAfter
  <2>4. Len(jobs') = new
    BY <2>1 DEF TypeInv, TypeOK
  <2>5. \A v \in Rows' \ Rows : v = new
    BY <2>3, <2>4
  <2> HIDE DEF new, hit
  <2> QED
    BY <1>1, <2>1, <2>2, <2>5 DEF InHand, Compiling
<1>7. CASE CacheHitDone(t)
  <2> DEFINE u == admin[t].job
  <2>1. /\ u \in Rows /\ jobs' = [jobs EXCEPT ![u].stage = "PREPARED"]
        /\ UNCHANGED backends /\ admin' = [admin EXCEPT ![t] = Closed]
    BY <1>7 DEF CacheHitDone, AdminAt, compile, TypeInv, JobsNamed
  <2>2. \A s \in Admin : s # t => admin'[s] = admin[s]
    BY <2>1 DEF TypeInv, TypeOK
  <2>3. "PREPARED" \in Stages /\ "PREPARED" \notin LiveStages
    BY DEF Stages, LiveStages
  <2>4. Len(jobs') = Len(jobs) /\ Rows' = Rows /\ jobs'[u].stage \notin LiveStages
    <3> HIDE DEF u
    <3>1. /\ Len(jobs') = Len(jobs)
          /\ \A v \in Rows : jobs'[v].stage = IF v = u THEN "PREPARED" ELSE jobs[v].stage
      BY <2>1, <2>3, StageStep DEF TypeInv
    <3> QED
      BY <2>1, <2>3, <3>1, RowsInUuid, RowsAfter
  <2> QED
    BY <2>1, <2>2, <2>4 DEF InHand, Compiling
<1>8. CASE Submit(t)
  <2> DEFINE r == admin[t].ref
             k == admin[t].key
             own == FindJob(r, k)
  <2>1. /\ r \in Ref /\ k \in Key /\ own \subseteq Rows /\ admin[t].at = "submit"
        /\ SubmitOver(t, r, k, own)
    BY <1>8 DEF Submit, AdminAt, TypeInv, TypeOK, AdminType, Idle, Closed, FindJob
  <2>2. \E next : admin' = [admin EXCEPT ![t] = next]
    BY <2>1 DEF SubmitOver, SubmitFresh, SubmitTerminal, Join, Answered
  <2>3. ASSUME NEW u \in Rows, SubmitTerminal(t, u) PROVE Opens
    BY <1>3, <1>4, <2>3 DEF SubmitTerminal, table
  <2>4. ASSUME NEW u, Join(t, u) PROVE Opens
    BY <1>3, <2>4 DEF Join
  <2>5. ASSUME Create(r, k) PROVE Opens
    BY <2>5, CreateMoves DEF Create, Opens, TypeInv, TypeOK
  <2>6. Newest(own) \subseteq Rows
    BY <2>1 DEF Newest
  <2> HIDE DEF own, r, k
  <2>7. Opens
    BY <1>3, <2>1, <2>3, <2>4, <2>5, <2>6 DEF SubmitOver, SubmitFresh, table
  <2> QED
    BY <1>2, <2>1, <2>2, <2>7
<1>9. CASE RecoverRequeue(t)
  <2>1. admin[t].at # "hit" /\ \E next : admin' = [admin EXCEPT ![t] = next]
    BY <1>9 DEF RecoverRequeue, AdminAt
  <2>2. ASSUME NEW k, RequeueRow(admin[t].ref, k) PROVE Opens
    BY <1>3, <1>4, <2>2 DEF RequeueRow, Newest, FindJob, table
  <2>3. Opens
    BY <1>3, <1>9, <2>2 DEF RecoverRequeue, table
  <2> QED
    BY <1>2, <2>1, <2>3
<1> QED
  BY <1>1, <1>5, <1>6, <1>7, <1>8, <1>9 DEF AdminStep

(* The serve loop gives up a backend only with a stage that is final.      *)
LEMMA LoopInHand ==
    ASSUME TypeInv, TypeInv', RowsKept, LoopStep
    PROVE  phase = "serving" /\ InHand
<1>1. phase = "serving" /\ UNCHANGED admin
  BY DEF LoopStep, RetryDue, Poll, RecordTerminal, PublishRename, PublishFails,
         RecordUnpublished, PublishCommit, MarkPrepared, LoopAt
<1> SUFFICES InHand
  BY <1>1
<1>2. ASSUME NEW rows \in Seq(Row), Len(rows) = Len(jobs), NEW u \in Rows,
             OpenAttempt(rows, u, jobs[u].attempt + 1, FALSE)
      PROVE  InHand
  <2>1. jobs[u].attempt + 1 \in Nat
    BY RowTyped DEF TypeInv
  <2> QED
    BY <1>1, <1>2, <2>1, AttemptInHand, OpensInHand
<1>3. ASSUME UNCHANGED backends, Len(jobs') = Len(jobs) PROVE InHand
  BY <1>1, <1>3, OpensInHand DEF Opens
<1>4. ASSUME NEW u \in Uuid, RetryDue(u) PROVE InHand
  BY <1>2, <1>4 DEF RetryDue, TypeInv, TypeOK
<1>5. ASSUME NEW u \in Uuid, Poll(u) PROVE InHand
  <2>1. PICK stage \in Stages, next \in BackendStates :
           /\ jobs' = [jobs EXCEPT ![u].stage = stage]
           /\ backends' = [backends EXCEPT ![u] = next]
           /\ next \in {"none", "over"} => stage \notin LiveStages
    BY <1>5, JobManagerAssumption
    DEF Poll, Stages, LiveStages, BackendStates, TerminalErrors
  <2>2. /\ u \in Rows /\ Rows' = Rows
        /\ jobs'[u].stage = stage
        /\ \A v \in Rows : backends'[v] = IF v = u THEN next ELSE backends[v]
    <3>1. u \in Rows
      BY <1>5 DEF Poll
    <3>2. /\ Len(jobs') = Len(jobs)
          /\ \A v \in Rows : jobs'[v].stage = IF v = u THEN stage ELSE jobs[v].stage
      BY <2>1, <3>1, StageStep DEF TypeInv
    <3>3. Rows' = Rows
      BY <3>2, RowsInUuid, RowsAfter
    <3>4. \A v \in Rows : backends'[v] = IF v = u THEN next ELSE backends[v]
      BY <2>1, RowsInUuid DEF TypeInv, TypeOK
    <3> QED
      BY <3>1, <3>2, <3>3, <3>4
  <2> QED
    BY <1>1, <2>1, <2>2 DEF InHand, Compiling, Live
<1>6. CASE RecordTerminal
  <2> DEFINE u == loop.job
  <2>1. u \in Rows
    BY <1>6 DEF RecordTerminal, LoopAt, TypeInv, JobsNamed, Idle
  <2>2. PICK rec : /\ rec \in RecordType
                   /\ \/ OpenAttempt([jobs EXCEPT ![u].rec = rec], u,
                                     jobs[u].attempt + 1, FALSE)
                      \/ jobs' = [jobs EXCEPT ![u].rec = rec] /\ UNCHANGED backends
    <3>1. \A evidence \in SUBSET Evidence :
             Record(Classify(jobs[u].stage, jobs[u].stage, evidence, memlock)) \in RecordType
      BY ClassifyKind, RecordTyped DEF RecordKinds
    <3> QED
      BY <1>6, <3>1 DEF RecordTerminal
  <2> DEFINE rows == [jobs EXCEPT ![u].rec = rec]
  <2>3. rows \in Seq(Row) /\ Len(rows) = Len(jobs)
    <3> HIDE DEF u
    <3>1. jobs \in Seq(Row) /\ u \in 1..Len(jobs)
      BY <2>1, RowsInUuid DEF TypeInv, TypeOK
    <3>2. SameJobs(jobs, rows)
      BY <2>2, <3>1, RecRewrite
    <3> QED
      BY <3>2 DEF SameJobs
  <2>4. OpenAttempt(rows, u, jobs[u].attempt + 1, FALSE) \/ (jobs' = rows /\ UNCHANGED backends)
    BY <2>2
  <2> HIDE DEF rows
  <2> QED
    BY <1>2, <1>3, <2>1, <2>3, <2>4
<1>7. CASE PublishRename \/ PublishCommit \/ MarkPrepared
  BY <1>3, <1>7 DEF PublishRename, PublishCommit, MarkPrepared, table, compile
<1>8. CASE PublishFails
  <2>1. /\ jobs' = [jobs EXCEPT ![loop.job].stage = "COMPILE_FAILED"] /\ UNCHANGED backends
        /\ jobs \in Seq(Row)
    BY <1>8 DEF PublishFails, compile, TypeInv, TypeOK
  <2>2. Len(jobs') = Len(jobs)
    BY <2>1
  <2> QED
    BY <1>3, <2>1, <2>2
<1>9. CASE RecordUnpublished
  <2>1. UNCHANGED backends /\ jobs \in Seq(Row)
        /\ \E rec : jobs' = [jobs EXCEPT ![loop.job].rec = rec]
    BY <1>9 DEF RecordUnpublished, compile, TypeInv, TypeOK
  <2>2. Len(jobs') = Len(jobs)
    BY <2>1
  <2> QED
    BY <1>3, <2>1, <2>2
<1> QED
  BY <1>1, <1>4, <1>5, <1>6, <1>7, <1>8, <1>9 DEF LoopStep

(* Whatever submits, retries, recovers, polls, finds the launcher busy or  *)
(* starts again, a live row of a serving process is in somebody's hands:   *)
(* pump has a backend to poll, or an admin thread is about to write the    *)
(* row's end (pump, _create, _new_attempt, _reconcile_jobs).               *)
THEOREM NoneLost == Spec => []NoneForgotten
<1>1. Init => NoneForgotten
  BY DEF Init, NoneForgotten, Rows
<1>2. TypeInv /\ CompileInv /\ SettledInv /\ NoneForgotten /\ [Next]_vars => NoneForgotten'
  <2> SUFFICES ASSUME TypeInv, CompileInv, SettledInv, NoneForgotten, [Next]_vars
               PROVE  NoneForgotten'
    OBVIOUS
  <2>1. TypeInv' /\ RowsKept /\ TableStep
    BY NextSettles
  <2>2. ASSUME phase = "serving", InHand PROVE NoneForgotten'
    BY <2>1, <2>2, InHandKept
  <2>3. ASSUME UNCHANGED <<backends, admin>>, Len(jobs') = Len(jobs), phase' = phase
        PROVE  NoneForgotten'
    <3>1. CASE phase = "serving"
      BY <2>1, <2>2, <2>3, <3>1, OpensInHand DEF Opens
    <3> QED
      BY <2>3, <3>1 DEF NoneForgotten
  <2>4. CASE UNCHANGED vars
    BY <2>3, <2>4 DEF vars, durable, process, table, compile
  <2>5. ASSUME NEW t \in Admin, AdminStep(t) PROVE NoneForgotten'
    BY <2>1, <2>2, <2>5, AdminInHand
  <2>6. CASE LoopStep
    BY <2>1, <2>2, <2>6, LoopInHand
  <2>7. ASSUME NEW u \in Uuid, CompileStep(u) PROVE NoneForgotten'
    <3>1. /\ phase = "serving" /\ UNCHANGED <<jobs, admin>>
          /\ \E next \in {"running", "busy", "ok", "failed"} :
                backends' = [backends EXCEPT ![u] = next]
      BY <2>7 DEF CompileStep, Acquire, FindBusy, Finish, table, durable
    <3>2. \A v \in Rows : Compiling(v) => Compiling(v)'
      BY <3>1, RowsInUuid DEF Compiling, TypeInv, TypeOK
    <3> QED
      BY <2>2, <3>1, <3>2 DEF InHand, Rows
  <2>8. CASE WorldStep
    <3>1. ASSUME NEW new \in Inhibitions, Inhibit(new) PROVE NoneForgotten'
      BY <2>3, <3>1 DEF Inhibit, table, process, compile
    <3>2. ASSUME NEW k \in Prunable, Prune(k) PROVE NoneForgotten'
      BY <2>3, <3>2 DEF Prune, table, process, compile
    <3>3. ASSUME NEW u \in Uuid, BackoffElapses(u) PROVE NoneForgotten'
      BY <2>3, <3>3, DueStep DEF BackoffElapses, process, compile
    <3>4. CASE Restart
      BY <3>4 DEF Restart, NoneForgotten
    <3> QED
      BY <2>8, <3>1, <3>2, <3>3, <3>4 DEF WorldStep
  <2>9. CASE StartupStep
    <3>1. CASE Serve
      BY <3>1 DEF Serve, NoneForgotten, Rows, Live, durable, table
    <3>2. ASSUME phase' # "serving" PROVE NoneForgotten'
      BY <3>2 DEF NoneForgotten
    <3> QED
      BY <2>9, <3>1, <3>2
      DEF StartupStep, Adopt, RecoverScratch, ReconcileLive, ReconcileUnrecorded, process
  <2> QED
    BY <2>4, <2>5, <2>6, <2>7, <2>8, <2>9 DEF Next
<1> QED
  BY <1>1, <1>2, Settled, PTL DEF Spec
----------------------------------------------------------------------------
(* The table is a log of attempts: each step is one of JobHistory's.       *)

Tells == [History!Next]_(History!vars)

(* What the readers are told of a row stays.                               *)
Same(v) ==
    /\ jobs'[v].stage = jobs[v].stage \/ ToldState(v)' = ToldState(v)
    /\ jobs'[v].rec.kind = jobs[v].rec.kind /\ jobs'[v].rec.to = jobs[v].rec.to
    /\ Publishing(v)' <=> Publishing(v)

LEMMA SameTold ==
    ASSUME RowsKept, NEW v \in Rows, Same(v)
    PROVE  Told(v)' = Told(v)
<1>1. ToldState(v)' = ToldState(v)
  BY DEF Same, ToldState, Live
<1>2. ToldKind(v)' = ToldKind(v) /\ jobs'[v].rec.to = jobs[v].rec.to
  BY DEF Same, ToldKind
<1>3. /\ jobs'[v].ref = jobs[v].ref /\ jobs'[v].key = jobs[v].key
      /\ jobs'[v].attempt = jobs[v].attempt
  BY DEF RowsKept
<1> QED
  BY <1>1, <1>2, <1>3 DEF Told

LEMMA QuietTells ==
    ASSUME TypeInv, TypeInv', RowsKept, Len(jobs') = Len(jobs),
           UNCHANGED aliases, UNCHANGED inhibition, \A v \in Rows : Same(v)
    PROVE  Tells
<1>1. Rows' = Rows
  BY RowsInUuid, RowsAfter
<1>2. Log' = Log
  BY <1>1, SameTold DEF Log
<1> QED
  BY <1>2 DEF Tells, History!vars

(* An entry rewritten in two fields.                                       *)
Entry(r, k, n, state, kind, next) ==
    [ref |-> r, key |-> k, attempt |-> n, state |-> state, kind |-> kind, next |-> next]

LEMMA StateWritten ==
    ASSUME NEW r, NEW k, NEW n, NEW state, NEW kind, NEW next, NEW x
    PROVE  [Entry(r, k, n, state, kind, next) EXCEPT !.state = x] = Entry(r, k, n, x, kind, next)
BY DEF Entry

LEMMA KindWritten ==
    ASSUME NEW r, NEW k, NEW n, NEW state, NEW kind, NEW next, NEW x
    PROVE  [Entry(r, k, n, state, kind, next) EXCEPT !.kind = x] = Entry(r, k, n, state, x, next)
BY DEF Entry

LEMMA NextWritten ==
    ASSUME NEW r, NEW k, NEW n, NEW state, NEW kind, NEW next, NEW x
    PROVE  [Entry(r, k, n, state, kind, next) EXCEPT !.next = x] = Entry(r, k, n, state, kind, x)
BY DEF Entry

LEMMA ToldEntry ==
    ASSUME NEW u
    PROVE  /\ Told(u) = Entry(jobs[u].ref, jobs[u].key, jobs[u].attempt, ToldState(u),
                              ToldKind(u), jobs[u].rec.to)
           /\ Told(u)' = Entry(jobs'[u].ref, jobs'[u].key, jobs'[u].attempt,
                               ToldState(u)', ToldKind(u)', jobs'[u].rec.to)
BY DEF Told, Entry

(* One entry changes, the way its attempt may.                             *)
EntryMoves(u) ==
    \/ /\ ToldKind(u)' = ToldKind(u) /\ jobs'[u].rec.to = jobs[u].rec.to
       /\ \/ ToldState(u) = "open" /\ ToldState(u)' \in {"publishing", "prepared"}
          \/ ToldState(u) = "publishing" /\ ToldState(u)' = "prepared"
    \/ /\ ToldState(u) \in {"open", "publishing"} /\ ToldState(u)' = "failed"
       /\ jobs'[u].rec.to = jobs[u].rec.to
    \/ /\ ToldState(u) = "failed" /\ ToldState(u)' = "failed"
       /\ Unclassified(u) /\ jobs'[u].rec.kind \in Kinds /\ jobs'[u].rec.to = 0

LEMMA EntryTells ==
    ASSUME TypeInv, TypeInv', RowsKept, Len(jobs') = Len(jobs),
           UNCHANGED aliases, UNCHANGED inhibition,
           NEW u \in Rows, \A v \in Rows \ {u} : Same(v), EntryMoves(u)
    PROVE  Tells
<1>1. Rows' = Rows
  BY RowsInUuid, RowsAfter
<1>2. \A v \in Rows \ {u} : Told(v)' = Told(v)
  BY SameTold
<1>3. /\ Log = [v \in Rows |-> Told(v)] /\ Log' = [v \in Rows |-> Told(v)'] /\ DOMAIN Log = Rows
      /\ \A v \in Rows : Log[v] = Told(v) /\ Log'[v] = Told(v)'
  BY <1>1 DEF Log
<1>4. /\ Told(u).state = ToldState(u) /\ Told(u).kind = ToldKind(u)
      /\ ToldKind(u)' \in Kinds \cup {"open"}
  BY DEF Told, ToldKind
<1>5. /\ jobs'[u].ref = jobs[u].ref /\ jobs'[u].key = jobs[u].key
      /\ jobs'[u].attempt = jobs[u].attempt
  BY DEF RowsKept
<1>6. ASSUME NEW e, Told(u)' = e PROVE Log' = [Log EXCEPT ![u] = e]
  BY <1>1, <1>2, <1>3, <1>6
<1>7. CASE /\ ToldKind(u)' = ToldKind(u) /\ jobs'[u].rec.to = jobs[u].rec.to
           /\ \/ ToldState(u) = "open" /\ ToldState(u)' \in {"publishing", "prepared"}
              \/ ToldState(u) = "publishing" /\ ToldState(u)' = "prepared"
  <2>1. Told(u)' = [Told(u) EXCEPT !.state = ToldState(u)']
    BY <1>5, <1>7 DEF Told
  <2>2. Log' = [Log EXCEPT ![u].state = ToldState(u)']
    BY <1>3, <1>6, <2>1
  <2>3. History!Progress(u)
    BY <1>3, <1>4, <1>7, <2>2 DEF History!Progress
  <2> QED
    BY <1>3, <2>3 DEF Tells, History!Next
<1>8. CASE /\ ToldState(u) \in {"open", "publishing"} /\ ToldState(u)' = "failed"
           /\ jobs'[u].rec.to = jobs[u].rec.to
  <2>1. Told(u)' = [[Told(u) EXCEPT !.state = "failed"] EXCEPT !.kind = ToldKind(u)']
    <3> DEFINE e == Told(u)
               r == jobs[u].ref
               k == jobs[u].key
               n == jobs[u].attempt
               state == ToldState(u)
               kind == ToldKind(u)
               to == jobs[u].rec.to
               x == ToldKind(u)'
    <3>1. e = Entry(r, k, n, state, kind, to)
      BY ToldEntry
    <3>2. Told(u)' = Entry(r, k, n, "failed", x, to)
      BY <1>5, <1>8, ToldEntry
    <3> HIDE DEF e, r, k, n, state, kind, to, x
    <3> DEFINE one == [e EXCEPT !.state = "failed"]
    <3>3. one = Entry(r, k, n, "failed", kind, to)
      BY <3>1, StateWritten
    <3> HIDE DEF one
    <3>4. [one EXCEPT !.kind = x] = Entry(r, k, n, "failed", x, to)
      BY <3>3, KindWritten
    <3> QED
      BY <3>2, <3>4 DEF e, x, one
  <2>2. Log' = [Log EXCEPT ![u].state = "failed", ![u].kind = ToldKind(u)']
    BY <1>3, <1>6, <2>1
  <2>3. History!Fail(u)
    BY Zenon, <1>3, <1>4, <1>8, <2>2 DEF History!Fail
  <2> QED
    BY <1>3, <2>3 DEF Tells, History!Next
<1>9. CASE /\ ToldState(u) = "failed" /\ ToldState(u)' = "failed"
           /\ Unclassified(u) /\ jobs'[u].rec.kind \in Kinds /\ jobs'[u].rec.to = 0
  <2>1. ToldKind(u) = "open" /\ ToldKind(u)' \in Kinds
    BY <1>9 DEF ToldKind, Unclassified
  <2>2. Told(u)' = [[Told(u) EXCEPT !.kind = ToldKind(u)'] EXCEPT !.next = 0]
    <3> DEFINE e == Told(u)
               r == jobs[u].ref
               k == jobs[u].key
               n == jobs[u].attempt
               kind == ToldKind(u)
               to == jobs[u].rec.to
               x == ToldKind(u)'
    <3>1. e = Entry(r, k, n, "failed", kind, to)
      BY <1>9, ToldEntry
    <3>2. Told(u)' = Entry(r, k, n, "failed", x, 0)
      BY <1>5, <1>9, ToldEntry
    <3> HIDE DEF e, r, k, n, kind, to, x
    <3> DEFINE one == [e EXCEPT !.kind = x]
    <3>3. one = Entry(r, k, n, "failed", x, to)
      BY <3>1, KindWritten
    <3> HIDE DEF one
    <3>4. [one EXCEPT !.next = 0] = Entry(r, k, n, "failed", x, 0)
      BY <3>3, NextWritten
    <3> QED
      BY <3>2, <3>4 DEF e, x, one
  <2>3. Log' = [Log EXCEPT ![u].kind = ToldKind(u)', ![u].next = 0]
    BY <1>3, <1>6, <2>2
  <2>4. History!Classify(u)
    BY Zenon, <1>3, <1>4, <1>9, <2>1, <2>3 DEF History!Classify
  <2> QED
    BY <1>3, <2>4 DEF Tells, History!Next
<1> QED
  BY <1>7, <1>8, <1>9 DEF EntryMoves

(* A sequence and one more element.                                        *)
LEMMA Appended ==
    ASSUME NEW n \in Nat, NEW s, s = [v \in 1..n |-> s[v]], NEW e
    PROVE  /\ Len(s) = n
           /\ Append(s, e) = [v \in 1..(n + 1) |-> IF v = n + 1 THEN e ELSE s[v]]
<1> DEFINE S == {s[v] : v \in 1..n} \cup {e}
<1>1. s \in Seq(S) /\ e \in S
  <2>1. s \in [1..n -> S]
    OBVIOUS
  <2> HIDE DEF S
  <2> QED
    BY <2>1 DEF S
<1> HIDE DEF S
<1>2. Len(s) = n
  BY <1>1
<1> QED
  BY <1>1, <1>2

(* The log with one more attempt.                                          *)
LEMMA LogAppended ==
    ASSUME TypeInv, TypeInv', RowsKept, NEW new, new = Len(jobs) + 1, Len(jobs') = new,
           NEW base, base = [v \in Rows |-> Told(v)']
    PROVE  Log' = Append(base, Told(new)')
<1> DEFINE n == Len(jobs)
           e == Told(new)'
<1>1. n \in Nat /\ Rows = 1..n /\ Rows' = 1..(n + 1) /\ new = n + 1
  BY RowsInUuid, RowsAfter
<1>2. base = [v \in 1..n |-> base[v]] /\ \A v \in 1..n : base[v] = Told(v)'
  BY <1>1
<1>3. Log' = [v \in 1..(n + 1) |-> Told(v)']
  BY <1>1 DEF Log
<1>4. ASSUME NEW v \in 1..(n + 1)
      PROVE  Told(v)' = IF v = n + 1 THEN e ELSE base[v]
  <2>1. v = new \/ v \in 1..n
    BY <1>1
  <2>2. new \notin 1..n
    BY <1>1
  <2> HIDE DEF n
  <2>3. CASE v = new
    BY <1>1, <2>3
  <2>4. CASE v \in 1..n
    BY <1>1, <1>2, <2>2, <2>4
  <2> QED
    BY <2>1, <2>3, <2>4
<1> HIDE DEF n, e
<1>5. Append(base, e) = [v \in 1..(n + 1) |-> IF v = n + 1 THEN e ELSE base[v]]
  BY <1>1, <1>2, Appended
<1>6. [v \in 1..(n + 1) |-> Told(v)'] = [v \in 1..(n + 1) |-> IF v = n + 1 THEN e ELSE base[v]]
  BY <1>4
<1> QED
  BY <1>3, <1>5, <1>6 DEF e

(* A first attempt: _create, and the row of a cache hit.                   *)
LEMMA StartTells ==
    ASSUME TypeInv, TypeInv', RowsKept, NEW r \in Ref, NEW k \in Key,
           jobs' = Append(jobs, NewRow(r, k, 1, "null")),
           UNCHANGED aliases, UNCHANGED inhibition, UNCHANGED loop
    PROVE  Tells
<1>1. PICK new \in Nat : new = Len(jobs) + 1
  BY RowsInUuid
<1>2. Len(jobs') = new /\ \A v \in Rows : jobs'[v] = jobs[v]
  BY <1>1, CreateMoves
<1>3. jobs'[new] = NewRow(r, k, 1, "null")
  <2>1. NewRow(r, k, 1, "null") \in Row /\ jobs \in Seq(Row)
    BY FreshRowTyped DEF TypeInv, TypeOK, RecordKinds
  <2> QED
    BY <1>1, <2>1, AppendTyped
<1>4. Told(new)' = History!Attempt(r, k, 1)
  <2>1. "null" \in RecordKinds /\ boot \in Nat /\ 1 \in Nat /\ "null" \notin Kinds
    BY DEF RecordKinds, TypeInv, TypeOK, Kinds
  <2> DEFINE row == NewRow(r, k, 1, "null")
  <2>2. /\ row.ref = r /\ row.key = k /\ row.attempt = 1 /\ row.stage = "QUEUED"
        /\ row.rec = Record("null")
    BY <2>1, FreshRowTyped
  <2>3. jobs'[new] = row
    BY <1>3
  <2> HIDE DEF row
  <2>4. /\ jobs'[new].ref = r /\ jobs'[new].key = k /\ jobs'[new].attempt = 1
        /\ jobs'[new].stage = "QUEUED" /\ jobs'[new].rec.kind = "null"
        /\ jobs'[new].rec.to = 0
    BY <2>1, <2>2, <2>3, RecordTyped
  <2>5. ToldState(new)' = "open" /\ ToldKind(new)' = "open"
    BY <2>1, <2>4 DEF ToldState, ToldKind, Live, LiveStages
  <2> QED
    BY <2>4, <2>5 DEF Told, History!Attempt
<1>5. ASSUME NEW v \in Rows PROVE Told(v)' = Told(v)
  <2>1. Same(v)
    BY <1>2 DEF Same, Publishing
  <2> QED
    BY <2>1, SameTold
<1>6. Log = [v \in Rows |-> Told(v)']
  BY <1>5 DEF Log
<1>7. Log' = Append(Log, Told(new)')
  BY <1>1, <1>2, <1>6, LogAppended
<1>8. History!Start(r, k)
  BY <1>4, <1>7 DEF History!Start
<1> QED
  BY <1>8 DEF Tells, History!Next

(* The log is a function of the table and of what the loop publishes.      *)
LEMMA SameLog == ASSUME UNCHANGED <<jobs, loop>> PROVE Log' = Log
<1>1. ASSUME NEW v PROVE Told(v)' = Told(v)
  <2>1. Live(v)' = Live(v) /\ Publishing(v)' = Publishing(v) /\ ToldKind(v)' = ToldKind(v)
    BY DEF Live, Publishing, ToldKind
  <2>2. ToldState(v)' = ToldState(v)
    BY <2>1 DEF ToldState
  <2> QED
    BY <2>1, <2>2 DEF Told
<1>2. Rows' = Rows
  BY DEF Rows
<1> QED
  BY <1>1, <1>2, Zenon DEF Log

(* A ref joins a live row.                                                 *)
LEMMA JoinTells ==
    ASSUME TypeInv, TypeInv', RowsKept, NEW u \in Rows, Live(u), NEW r \in Ref,
           UNCHANGED <<jobs, loop>>, UNCHANGED inhibition,
           aliases' = aliases \cup {<<u, r>>}
    PROVE  Tells
<1>1. Log' = Log
  BY SameLog
<1>2. DOMAIN Log = Rows /\ Log[u].state = "open"
  BY DEF Log, Told, ToldState
<1>3. History!Join(u, r)
  BY <1>1, <1>2 DEF History!Join
<1> QED
  BY <1>2, <1>3 DEF Tells, History!Next

(* A step beside the table, which may raise or clear an inhibition.        *)
LEMMA BesideTells ==
    ASSUME UNCHANGED <<jobs, aliases, loop>>
    PROVE  Tells
<1>1. Log' = Log
  BY SameLog
<1>2. History!Inhibit
  BY <1>1 DEF History!Inhibit
<1> QED
  BY <1>2 DEF Tells, History!Next

(* A row that was refused a successor, or given one, is told as it was     *)
(* but for its kind and its successor (_new_attempt).                      *)
LEMMA AttemptTells ==
    ASSUME TypeInv, TypeInv', RowsKept,
           NEW rows \in Seq(Row), SameJobs(jobs, rows), NEW u \in Rows,
           \A v \in Rows : /\ rows[v].stage = jobs[v].stage
                           /\ v # u => rows[v].rec = jobs[v].rec,
           \/ rows[u].rec = jobs[u].rec
           \/ rows[u].rec.to = 0 /\ rows[u].rec.kind \in Kinds /\ Unclassified(u),
           inhibition = None, UNCHANGED inhibition, jobs[u].stage \in TerminalErrors,
           rows[u].rec.kind \notin {"safety", "permanent"},
           NEW attempt \in {1, jobs[u].attempt + 1}, NEW sourced \in BOOLEAN,
           OpenAttempt(rows, u, attempt, sourced),
           \A v \in Rows : Publishing(v)' <=> Publishing(v)
    PROVE  Tells
<1>1. /\ Rows = 1..Len(jobs) /\ Len(jobs) \in Nat /\ Len(rows) = Len(jobs)
      /\ attempt \in Nat /\ TypeOK
      /\ \A v \in Rows : rows[v].ref = jobs[v].ref /\ rows[v].key = jobs[v].key
  BY RowsInUuid, RowTyped DEF SameJobs, TypeInv
<1>2. /\ \A v \in Rows : /\ jobs'[v].stage = jobs[v].stage
                         /\ jobs'[v].rec.kind = rows[v].rec.kind
      /\ Attempted(rows, u, attempt)
  BY <1>1, OpenAttemptTyped
<1>3. ToldState(u) = "failed" /\ ToldState(u)' = "failed"
  BY <1>2 DEF ToldState, Live, LiveStages, TerminalErrors
<1>4. ASSUME NEW v \in Rows, rows[v].rec = jobs[v].rec, jobs'[v].rec.to = rows[v].rec.to
      PROVE  Same(v)
  BY <1>2, <1>4 DEF Same
<1>5. CASE sourced \/ rows[u].key \in sources
  <2>1. PICK new \in Nat : new = Len(jobs) + 1
    BY <1>1
  <2>2. /\ Len(jobs') = new /\ aliases' = aliases \cup CarriedAliases(jobs, u, new)
        /\ jobs'[new] = NewRow(jobs[u].ref, jobs[u].key, attempt, "carried")
        /\ \A v \in Rows : jobs'[v].rec.to = IF v = u THEN new ELSE rows[v].rec.to
    <3>1. /\ Len(jobs') = Len(rows) + 1
          /\ aliases' = aliases \cup CarriedAliases(jobs, u, new)
      <4>1. /\ jobs' = Append([rows EXCEPT ![u].rec.to = Len(rows) + 1],
                              NewRow(rows[u].ref, rows[u].key, attempt, "carried"))
            /\ aliases' = aliases \cup CarriedAliases(rows, u, Len(rows) + 1)
        BY <1>5 DEF OpenAttempt
      <4>2. Len([rows EXCEPT ![u].rec.to = Len(rows) + 1]) = Len(rows)
        BY <1>1
      <4>3. CarriedAliases(rows, u, Len(rows) + 1) = CarriedAliases(jobs, u, new)
        BY <1>1, <2>1 DEF CarriedAliases
      <4> QED
        BY <4>1, <4>2, <4>3
    <3> QED
      BY <1>1, <1>2, <2>1, <3>1 DEF Attempted
  <2>3. Told(new)' = History!Attempt(jobs[u].ref, jobs[u].key, attempt)
    <3> DEFINE row == NewRow(jobs[u].ref, jobs[u].key, attempt, "carried")
    <3>1. /\ row.ref = jobs[u].ref /\ row.key = jobs[u].key /\ row.attempt = attempt
          /\ row.stage = "QUEUED" /\ row.rec.kind = "carried" /\ row.rec.to = 0
      <4>1. jobs[u].ref \in Ref /\ jobs[u].key \in Key
        BY <1>1, RowTyped
      <4> QED
        BY <1>1, <4>1, FreshRowTyped, RecordTyped DEF TypeOK, RecordKinds
    <3>2. jobs'[new] = row
      BY <2>2
    <3> HIDE DEF row
    <3>3. ToldState(new)' = "open" /\ ToldKind(new)' = "open"
      BY <3>1, <3>2 DEF ToldState, ToldKind, Live, LiveStages, Kinds
    <3> QED
      BY <3>1, <3>2, <3>3 DEF Told, History!Attempt
  <2> DEFINE kind == ToldKind(u)'
             base == [Log EXCEPT ![u].kind = kind, ![u].next = new]
  <2>4. kind \in (IF ToldKind(u) = "open" THEN Kinds \cup {"open"} ELSE {ToldKind(u)})
                  \ {"safety", "permanent"}
    <3>1. jobs'[u].rec.kind = rows[u].rec.kind
      BY <1>2
    <3> QED
      BY <3>1 DEF ToldKind, Unclassified
  <2>5. base = [v \in Rows |-> Told(v)']
    <3>1. \A v \in Rows \ {u} : Told(v)' = Told(v)
      BY <1>4, <2>2, SameTold
    <3>2. Told(u)' = [[Told(u) EXCEPT !.kind = kind] EXCEPT !.next = new]
      <4> DEFINE e == Told(u)
                 r == jobs[u].ref
                 k == jobs[u].key
                 n == jobs[u].attempt
                 was == ToldKind(u)
                 to == jobs[u].rec.to
      <4>1. e = Entry(r, k, n, "failed", was, to)
        BY <1>3, ToldEntry
      <4>2. Told(u)' = Entry(r, k, n, "failed", kind, new)
        BY <1>3, <2>2, ToldEntry DEF RowsKept
      <4> HIDE DEF e, r, k, n, was, to, kind
      <4> DEFINE one == [e EXCEPT !.kind = kind]
      <4>3. one = Entry(r, k, n, "failed", kind, to)
        BY <4>1, KindWritten
      <4> HIDE DEF one
      <4>4. [one EXCEPT !.next = new] = Entry(r, k, n, "failed", kind, new)
        BY <4>3, NextWritten
      <4> QED
        BY <4>2, <4>4 DEF e, one
    <3>3. Log = [v \in Rows |-> Told(v)] /\ DOMAIN Log = Rows /\ Log[u] = Told(u)
      BY DEF Log
    <3> HIDE DEF kind
    <3> QED
      BY <3>1, <3>2, <3>3
  <2>6. Len(Log) = Len(jobs) /\ DOMAIN Log = Rows
    <3>1. Log = [v \in 1..Len(jobs) |-> Log[v]]
      BY <1>1 DEF Log
    <3> QED
      BY <1>1, <3>1, Appended
  <2> HIDE DEF kind, base
  <2>7. Log' = Append(base, Told(new)')
    BY <2>1, <2>2, <2>5, LogAppended
  <2>8. /\ Log[u].state = "failed" /\ Log[u].kind = ToldKind(u) /\ Log[u].ref = jobs[u].ref
        /\ Log[u].key = jobs[u].key /\ Log[u].attempt = jobs[u].attempt
    BY <1>3 DEF Log, Told
  <2>9. History!Refs(u) = RefsOf(u)
    BY <2>8 DEF History!Refs, RefsOf
  <2>10. History!Resume(u)
    <3>1. Len(Log) + 1 = new
      BY <2>1, <2>6
    <3>2. aliases' = aliases \cup {<<new, r>> : r \in History!Refs(u) \ {Log[u].ref}}
      BY <2>2, <2>8, <2>9 DEF CarriedAliases
    <3>3. Log' = Append([Log EXCEPT ![u].kind = kind, ![u].next = new],
                        History!Attempt(Log[u].ref, Log[u].key, attempt))
      BY <2>3, <2>7, <2>8, Zenon DEF base
    <3>4. kind \in (IF Log[u].kind = "open" THEN Kinds \cup {"open"} ELSE {Log[u].kind})
                       \ {"safety", "permanent"}
          /\ attempt \in {1, Log[u].attempt + 1}
      BY <2>4, <2>8
    <3> HIDE DEF History!Attempt, History!Refs
    <3> QED
      BY <2>8, <3>1, <3>2, <3>3, <3>4 DEF History!Resume
  <2> QED
    BY <2>6, <2>10 DEF Tells, History!Next
<1>6. CASE ~(sourced \/ rows[u].key \in sources)
  <2>1. jobs' = [rows EXCEPT ![u].rec.refused = TRUE] /\ UNCHANGED aliases
    BY <1>6 DEF OpenAttempt
  <2>2. /\ Len(jobs') = Len(jobs)
        /\ \A v \in Rows : jobs'[v].rec.to = rows[v].rec.to
    BY <1>1, <2>1, RefusedRewrite DEF SameJobs
  <2>3. \A v \in Rows \ {u} : Same(v)
    BY <1>4, <2>2
  <2>4. CASE rows[u].rec = jobs[u].rec
    BY <1>4, <2>1, <2>2, <2>3, <2>4, QuietTells
  <2>5. CASE rows[u].rec.to = 0 /\ rows[u].rec.kind \in Kinds /\ Unclassified(u)
    <3>1. EntryMoves(u)
      BY <1>2, <1>3, <2>2, <2>5 DEF EntryMoves
    <3> QED
      BY <2>1, <2>2, <2>3, <3>1, EntryTells
  <2> QED
    BY <2>4, <2>5
<1> QED
  BY <1>5, <1>6

(* prepare, wait and recover beside the table; the compile threads.        *)
LEMMA ReadsTell ==
    ASSUME NEW t \in Admin,
           \/ \E r \in Ref, k \in Key : Ingest(t, r, k) \/ IngestChanged(t, r, k)
           \/ CacheMiss(t) \/ PrepareDone(t)
           \/ (\E u \in Uuid : WaitRead(t, u)) \/ WaitMark(t)
           \/ (\E r \in Ref : RecoverClear(t, r))
    PROVE  Tells
<1>1. UNCHANGED <<jobs, aliases, loop>>
  BY DEF Ingest, IngestChanged, CacheMiss, PrepareDone, WaitRead, WaitMark,
         RecoverClear, table, durable, compile
<1> QED
  BY <1>1, BesideTells

(* The thread of a cache hit and the loop never hold the same row.         *)
LEMMA HitTells ==
    ASSUME TypeInv, TypeInv', RowsKept, SettledInv, NEW t \in Admin,
           CacheHit(t) \/ CacheHitDone(t)
    PROVE  Tells
<1>1. CASE CacheHit(t)
  <2>1. /\ admin[t].ref \in Ref /\ admin[t].key \in Key
        /\ jobs' = Append(jobs, NewRow(admin[t].ref, admin[t].key, 1, "null"))
        /\ UNCHANGED aliases /\ UNCHANGED inhibition /\ UNCHANGED loop
    BY <1>1 DEF CacheHit, AdminAt, TypeInv, TypeOK, AdminType, Idle, Closed
  <2> QED
    BY <2>1, StartTells
<1>2. CASE CacheHitDone(t)
  <2> DEFINE u == admin[t].job
  <2>1. /\ u \in Rows /\ admin[t].at = "hit" /\ "PREPARED" \in Stages
        /\ jobs' = [jobs EXCEPT ![u].stage = "PREPARED"]
        /\ UNCHANGED aliases /\ UNCHANGED inhibition /\ UNCHANGED loop
    BY <1>2 DEF CacheHitDone, AdminAt, TypeInv, JobsNamed, Stages
  <2>2. jobs[u].stage \in {"QUEUED", "PREPARED"} /\ backends[u] = "none"
    BY <2>1 DEF SettledInv, HitHolds
  <2>3. ~Publishing(u)
    BY <2>2 DEF Publishing, SettledInv, LoopHolds
  <2> HIDE DEF u
  <2>4. /\ Len(jobs') = Len(jobs)
        /\ \A v \in Rows : /\ jobs'[v].stage = IF v = u THEN "PREPARED" ELSE jobs[v].stage
                           /\ jobs'[v].rec = jobs[v].rec
    BY <2>1, StageStep DEF TypeInv
  <2>5. \A v \in Rows : Publishing(v)' <=> Publishing(v)
    BY <2>1 DEF Publishing
  <2>6. \A v \in Rows \ {u} : Same(v)
    BY <2>4, <2>5 DEF Same
  <2>7. PICK w \in Rows : w = u
    BY <2>1
  <2>8. CASE jobs[u].stage = "PREPARED"
    <3>1. \A v \in Rows : Same(v)
      BY <2>4, <2>5, <2>8 DEF Same
    <3> QED
      BY <2>1, <2>4, <3>1, QuietTells
  <2>9. CASE jobs[u].stage = "QUEUED"
    <3>1. ToldState(w) = "open" /\ ToldState(w)' = "prepared" /\ ToldKind(w)' = ToldKind(w)
      BY <2>3, <2>4, <2>5, <2>7, <2>9 DEF ToldState, ToldKind, Live, LiveStages
    <3>2. EntryMoves(w)
      BY <2>4, <2>7, <3>1 DEF EntryMoves
    <3> QED
      BY <2>1, <2>4, <2>6, <2>7, <3>2, EntryTells
  <2> QED
    BY <2>2, <2>8, <2>9
<1> QED
  BY <1>1, <1>2

LEMMA SubmitTells ==
    ASSUME TypeInv, TypeInv', RowsKept, NEW t \in Admin, Submit(t)
    PROVE  Tells
<1> DEFINE r == admin[t].ref
           k == admin[t].key
           own == FindJob(r, k)
<1>1. r \in Ref /\ k \in Key /\ own \subseteq Rows /\ LiveFor(k) \subseteq Rows
      /\ UNCHANGED loop /\ UNCHANGED inhibition /\ SubmitOver(t, r, k, own)
  BY DEF Submit, AdminAt, TypeInv, TypeOK, AdminType, Idle, Closed, FindJob, LiveFor
<1>2. \A v \in Rows : Publishing(v)' <=> Publishing(v)
  BY <1>1 DEF Publishing
<1>3. ASSUME UNCHANGED table PROVE Tells
  BY <1>1, <1>3, BesideTells DEF table
<1>4. ASSUME NEW u \in Rows, Live(u), Join(t, u) PROVE Tells
  BY <1>1, <1>4, JoinTells DEF Join
<1>5. ASSUME NEW u \in Rows, jobs[u].stage \in TerminalErrors, SubmitTerminal(t, u)
      PROVE  Tells
  <2>1. CASE MayResume(u, jobs[u].rec)
    <3>1. inhibition = None /\ jobs[u].rec.kind \notin {"safety", "permanent"}
      BY <2>1, AutoMay
    <3>2. jobs \in Seq(Row) /\ SameJobs(jobs, jobs)
      BY DEF TypeInv, TypeOK, SameJobs
    <3>3. OpenAttempt(jobs, u, jobs[u].attempt + 1, TRUE)
      BY <1>5, <2>1 DEF SubmitTerminal
    <3> QED
      BY <1>1, <1>2, <1>5, <3>1, <3>2, <3>3, AttemptTells
  <2>2. CASE ~MayResume(u, jobs[u].rec)
    BY <1>3, <1>5, <2>2 DEF SubmitTerminal, table
  <2> QED
    BY <2>1, <2>2
<1>6. Create(r, k) => Tells
  BY <1>1, StartTells DEF Create
<1>7. SubmitFresh(t, r, k) => Tells
  BY <1>1, <1>4, <1>6 DEF SubmitFresh, Oldest, LiveFor
<1>8. Newest(own) \subseteq Rows
  BY <1>1 DEF Newest
<1> HIDE DEF own
<1> QED
  BY <1>1, <1>3, <1>4, <1>5, <1>7, <1>8 DEF SubmitOver, table

(* An operator's recover and a due retry.                                  *)
LEMMA ReopenTells ==
    ASSUME TypeInv, TypeInv', RowsKept, NEW u \in Rows, NEW attempt \in {1, jobs[u].attempt + 1},
           inhibition = None, UNCHANGED inhibition, UNCHANGED loop,
           jobs[u].stage \in TerminalErrors, jobs[u].rec.kind \notin {"safety", "permanent"},
           OpenAttempt(jobs, u, attempt, FALSE)
    PROVE  Tells
<1>1. jobs \in Seq(Row) /\ SameJobs(jobs, jobs)
  BY DEF TypeInv, TypeOK, SameJobs
<1>2. \A v \in Rows : Publishing(v)' <=> Publishing(v)
  BY DEF Publishing
<1> QED
  BY <1>1, <1>2, AttemptTells

LEMMA RecoverTells ==
    ASSUME TypeInv, TypeInv', RowsKept, NEW t \in Admin, RecoverRequeue(t)
    PROVE  Tells
<1>1. UNCHANGED loop /\ UNCHANGED inhibition
  BY DEF RecoverRequeue
<1>2. ASSUME UNCHANGED <<table, refState, backends>> PROVE Tells
  BY <1>1, <1>2, BesideTells DEF table
<1>3. ASSUME NEW u \in Rows, inhibition = None, jobs[u].stage \in TerminalErrors,
             OperatorEligible(jobs[u].rec, jobs[u].stage), OpenAttempt(jobs, u, 1, FALSE)
      PROVE  Tells
  BY <1>1, <1>3, OperatorMay, ReopenTells
<1>4. ASSUME NEW k, RequeueRow(admin[t].ref, k) PROVE Tells
  BY <1>2, <1>3, <1>4 DEF RequeueRow, Newest, FindJob
<1> QED
  BY <1>2, <1>4 DEF RecoverRequeue

LEMMA RetryDueTells ==
    ASSUME TypeInv, TypeInv', RowsKept, NEW u \in Uuid, RetryDue(u)
    PROVE  Tells
BY AutoMay, ReopenTells DEF RetryDue

(* Polling: the end of a compile is told before it is published.           *)
LEMMA PollTells ==
    ASSUME TypeInv, TypeInv', RowsKept, SettledInv, NEW u \in Uuid, Poll(u)
    PROVE  Tells
<1>1. /\ u \in Rows /\ Live(u) /\ UNCHANGED aliases /\ UNCHANGED inhibition
      /\ loop = Idle
  BY DEF Poll, LoopAt, TypeInv, TypeOK, LoopType
<1>2. PICK stage \in Stages :
         /\ jobs' = [jobs EXCEPT ![u].stage = stage]
         /\ \/ loop' = Idle /\ stage \in LiveStages
            \/ loop' = [at |-> "publish", job |-> u] /\ stage = "PREPARED"
            \/ loop' = [at |-> "record", job |-> u] /\ stage \in TerminalErrors
  BY <1>1, JobManagerAssumption DEF Poll, Stages, LiveStages
<1>3. /\ Len(jobs') = Len(jobs)
      /\ \A v \in Rows : /\ jobs'[v].stage = IF v = u THEN stage ELSE jobs[v].stage
                         /\ jobs'[v].rec = jobs[v].rec
  BY <1>1, <1>2, StageStep DEF TypeInv
<1>4. \A v \in Rows : ~Publishing(v) /\ (Publishing(v)' => v = u)
  BY <1>1, <1>2 DEF Publishing
<1>5. \A v \in Rows \ {u} : Same(v)
  BY <1>3, <1>4 DEF Same
<1>6. ToldState(u) = "open" /\ ToldKind(u)' = ToldKind(u) /\ jobs'[u].rec.to = jobs[u].rec.to
  BY <1>1, <1>3 DEF ToldState, ToldKind
<1>7. CASE stage \in LiveStages
  <2>1. ~Publishing(u)' /\ ToldState(u)' = "open"
    BY <1>1, <1>2, <1>3, <1>7 DEF Publishing, ToldState, Live, LiveStages, TerminalErrors
  <2>2. Same(u)
    BY <1>1, <1>3, <1>4, <1>6, <2>1 DEF Same
  <2> QED
    BY <1>1, <1>3, <1>5, <2>2, QuietTells
<1>8. CASE stage \notin LiveStages
  <2>1. ToldState(u)' \in {"publishing", "failed"}
    <3>1. CASE stage = "PREPARED"
      <4>1. Publishing(u)'
        BY <1>2, <3>1 DEF Publishing, Idle, LiveStages, TerminalErrors
      <4> QED
        BY <1>1, <1>3, <1>8, <3>1, <4>1 DEF ToldState, Live
    <3>2. CASE stage # "PREPARED"
      BY <1>1, <1>3, <1>8, <3>2 DEF ToldState, Live
    <3> QED
      BY <3>1, <3>2
  <2>2. EntryMoves(u)
    BY <1>6, <2>1 DEF EntryMoves
  <2> QED
    BY <1>1, <1>3, <1>5, <2>2, EntryTells
<1> QED
  BY <1>7, <1>8

(* Classifying a row that has ended.                                       *)
LEMMA RecTells ==
    ASSUME TypeInv, TypeInv', RowsKept, NEW u \in Rows, NEW kind \in Kinds,
           jobs' = [jobs EXCEPT ![u].rec = Record(kind)],
           UNCHANGED aliases, UNCHANGED inhibition,
           jobs[u].stage \in TerminalErrors, Unclassified(u),
           \A v \in Rows : Publishing(v)' <=> Publishing(v)
    PROVE  Tells
<1>1. Record(kind) \in RecordType /\ Record(kind).to = 0 /\ Record(kind).kind = kind
  BY RecordTyped DEF RecordKinds
<1>2. /\ Len(jobs') = Len(jobs)
      /\ \A v \in Rows : /\ jobs'[v].rec = IF v = u THEN Record(kind) ELSE jobs[v].rec
                         /\ jobs'[v].stage = jobs[v].stage
  BY <1>1, RecStep DEF TypeInv
<1>3. \A v \in Rows \ {u} : Same(v)
  BY <1>2 DEF Same
<1>4. ToldState(u) = "failed" /\ ToldState(u)' = "failed"
  BY <1>2 DEF ToldState, Live, LiveStages, TerminalErrors
<1>5. EntryMoves(u)
  BY <1>1, <1>2, <1>4 DEF EntryMoves
<1> QED
  BY <1>2, <1>3, <1>5, EntryTells

LEMMA RecordTells ==
    ASSUME TypeInv, TypeInv', RowsKept, SettledInv, RecordTerminal
    PROVE  Tells
<1> DEFINE u == loop.job
           stage == jobs[u].stage
           kind(evidence) == Classify(stage, stage, evidence, memlock)
           rows(evidence) == [jobs EXCEPT ![u].rec = Record(kind(evidence))]
<1>1. /\ u \in Rows /\ loop # Idle /\ loop.at = "record" /\ loop' = Idle
      /\ UNCHANGED inhibition
  BY DEF RecordTerminal, LoopAt, TypeInv, JobsNamed, Idle
<1>2. stage \in TerminalErrors /\ Unclassified(u)
  BY <1>1 DEF SettledInv, LoopHolds
<1>3. PICK evidence \in SUBSET Evidence :
         \/ /\ MayResume(u, Record(kind(evidence)))
            /\ OpenAttempt(rows(evidence), u, jobs[u].attempt + 1, FALSE)
         \/ jobs' = rows(evidence) /\ UNCHANGED aliases
  BY DEF RecordTerminal
<1>4. kind(evidence) \in Kinds
  BY ClassifyKind
<1>5. /\ Record(kind(evidence)) \in RecordType /\ Record(kind(evidence)).to = 0
      /\ Record(kind(evidence)).kind = kind(evidence)
  BY <1>4, RecordTyped DEF RecordKinds
<1>6. \A v \in Rows : Publishing(v)' <=> Publishing(v)
  BY <1>1 DEF Publishing
<1>7. CASE /\ MayResume(u, Record(kind(evidence)))
           /\ OpenAttempt(rows(evidence), u, jobs[u].attempt + 1, FALSE)
  <2> DEFINE written == rows(evidence)
  <2>1. /\ SameJobs(jobs, written) /\ written \in Seq(Row)
        /\ \A v \in Rows : /\ written[v].stage = jobs[v].stage
                           /\ v # u => written[v].rec = jobs[v].rec
        /\ written[u].rec = Record(kind(evidence))
    <3> HIDE DEF u, kind
    <3> QED
      BY <1>1, <1>5, RecordWritten
  <2>2. OpenAttempt(written, u, jobs[u].attempt + 1, FALSE)
        /\ MayResume(u, Record(kind(evidence)))
    BY <1>7
  <2>3. inhibition = None /\ Record(kind(evidence)).kind \notin {"safety", "permanent"}
    BY <2>2, AutoMay
  <2> HIDE DEF u, stage, kind, rows, written
  <2> QED
    BY <1>1, <1>2, <1>4, <1>5, <1>6, <2>1, <2>2, <2>3, AttemptTells DEF stage
<1>8. CASE jobs' = rows(evidence) /\ UNCHANGED aliases
  <2>1. jobs' = [jobs EXCEPT ![u].rec = Record(kind(evidence))]
    BY <1>8
  <2> HIDE DEF u, kind, rows
  <2> QED
    BY <1>1, <1>2, <1>4, <1>6, <1>8, <2>1, RecTells
<1> QED
  BY <1>3, <1>7, <1>8

(* Publication: until the rename a result may be withdrawn, from then on   *)
(* the row stays prepared, though the artifact's row is still to come.     *)
LEMMA PublishTells ==
    ASSUME TypeInv, TypeInv', RowsKept, SettledInv,
           \/ PublishRename \/ PublishFails \/ RecordUnpublished
           \/ PublishCommit \/ MarkPrepared
    PROVE  Tells
<1> DEFINE u == loop.job
<1>1. u \in Rows /\ loop # Idle /\ UNCHANGED aliases /\ UNCHANGED inhibition
  BY DEF PublishRename, PublishFails, RecordUnpublished, PublishCommit, MarkPrepared,
         LoopAt, TypeInv, JobsNamed, Idle, table
<1>2. PICK w \in Rows : w = u
  BY <1>1
<1>3. \A v \in Rows \ {w} : ~Publishing(v)
  BY <1>2 DEF Publishing
<1>4. CASE PublishRename
  <2>1. Publishing(w) /\ jobs[w].stage = "PREPARED"
    BY <1>1, <1>2, <1>4 DEF PublishRename, LoopAt, Publishing, SettledInv, LoopHolds
  <2>2. UNCHANGED jobs /\ \A v \in Rows : ~Publishing(v)'
    <3>1. loop' \in {[loop EXCEPT !.at = "mark"], [loop EXCEPT !.at = "commit"]}
          /\ UNCHANGED jobs
      BY <1>4 DEF PublishRename, table
    <3>2. loop'.at # "publish"
      BY <1>1, <3>1 DEF TypeInv, TypeOK, LoopType
    <3> QED
      BY <3>1, <3>2 DEF Publishing
  <2>3. ToldState(w) = "publishing" /\ ToldState(w)' = "prepared" /\ ToldKind(w)' = ToldKind(w)
    BY <2>1, <2>2 DEF ToldState, ToldKind, Live, LiveStages
  <2>4. EntryMoves(w)
    BY <2>2, <2>3 DEF EntryMoves
  <2>5. \A v \in Rows \ {w} : Same(v)
    BY <1>3, <2>2 DEF Same
  <2> QED
    BY <1>1, <2>2, <2>4, <2>5, EntryTells
<1>5. CASE PublishFails
  <2>1. /\ Publishing(w) /\ jobs[w].stage = "PREPARED"
        /\ jobs' = [jobs EXCEPT ![w].stage = "COMPILE_FAILED"]
        /\ loop' = [loop EXCEPT !.at = "unpublished"]
        /\ "COMPILE_FAILED" \in Stages
    BY <1>1, <1>2, <1>5 DEF PublishFails, LoopAt, Publishing, SettledInv, LoopHolds,
       Stages, TerminalErrors
  <2>2. /\ Len(jobs') = Len(jobs)
        /\ \A v \in Rows : /\ jobs'[v].stage = IF v = w THEN "COMPILE_FAILED" ELSE jobs[v].stage
                           /\ jobs'[v].rec = jobs[v].rec
    BY <2>1, StageStep DEF TypeInv
  <2>3. \A v \in Rows : ~Publishing(v)'
    <3>1. loop'.at # "publish"
      BY <1>1, <2>1 DEF TypeInv, TypeOK, LoopType
    <3> QED
      BY <3>1 DEF Publishing
  <2>4. ToldState(w) = "publishing" /\ ToldState(w)' = "failed"
    BY <2>1, <2>2, <2>3 DEF ToldState, Live, LiveStages
  <2>5. EntryMoves(w)
    BY <2>2, <2>4 DEF EntryMoves
  <2>6. \A v \in Rows \ {w} : Same(v)
    BY <1>3, <2>2, <2>3 DEF Same
  <2> QED
    BY <1>1, <2>2, <2>5, <2>6, EntryTells
<1>6. CASE RecordUnpublished
  <2>1. PICK kind \in Kinds : jobs' = [jobs EXCEPT ![w].rec = Record(kind)]
    BY <1>2, <1>6, ClassifyKind DEF RecordUnpublished
  <2>2. jobs[w].stage \in TerminalErrors /\ Unclassified(w)
    BY <1>1, <1>2, <1>6 DEF RecordUnpublished, LoopAt, SettledInv, LoopHolds
  <2>3. \A v \in Rows : Publishing(v)' <=> Publishing(v)
    BY <1>6 DEF RecordUnpublished, LoopAt, Publishing
  <2> QED
    BY <1>1, <2>1, <2>2, <2>3, RecTells
<1>7. CASE PublishCommit \/ MarkPrepared
  <2>1. UNCHANGED jobs /\ \A v \in Rows : ~Publishing(v) /\ ~Publishing(v)'
    <3>1. /\ UNCHANGED jobs /\ loop.at # "publish"
          /\ loop' \in {Idle, [loop EXCEPT !.at = "mark"]}
      BY <1>7 DEF PublishCommit, MarkPrepared, LoopAt, table
    <3>2. loop' # Idle => loop'.at # "publish"
      BY <1>1, <3>1 DEF TypeInv, TypeOK, LoopType
    <3> QED
      BY <3>1, <3>2 DEF Publishing
  <2>2. \A v \in Rows : Same(v)
    BY <2>1 DEF Same
  <2> QED
    BY <1>1, <2>1, <2>2, QuietTells
<1> QED
  BY <1>4, <1>5, <1>6, <1>7

(* Compile threads, inhibitions, prunes, time; a death withdraws nothing.  *)
LEMMA WorldTells ==
    ASSUME TypeInv, TypeInv', RowsKept, SettledInv,
           WorldStep \/ \E u \in Uuid : CompileStep(u)
    PROVE  Tells
<1>1. CASE \/ \E u \in Uuid : CompileStep(u)
           \/ \E new \in Inhibitions : Inhibit(new)
           \/ \E k \in Prunable : Prune(k)
  <2>1. UNCHANGED <<jobs, aliases, loop>>
    BY <1>1 DEF CompileStep, Acquire, FindBusy, Finish, Inhibit, Prune, durable, table, process
  <2> QED
    BY <2>1, BesideTells
<1>2. ASSUME NEW u \in Uuid, BackoffElapses(u) PROVE Tells
  <2>1. u \in Rows /\ jobs' = [jobs EXCEPT ![u].rec.due = TRUE]
        /\ UNCHANGED aliases /\ UNCHANGED inhibition /\ UNCHANGED loop
    BY <1>2 DEF BackoffElapses, process
  <2>2. /\ Len(jobs') = Len(jobs)
        /\ \A v \in Rows : /\ jobs'[v].stage = jobs[v].stage
                           /\ jobs'[v].rec.kind = jobs[v].rec.kind
                           /\ jobs'[v].rec.to = jobs[v].rec.to
    BY <2>1, DueStep
  <2>3. \A v \in Rows : Same(v)
    BY <2>1, <2>2 DEF Same, Publishing
  <2> QED
    BY <2>1, <2>2, <2>3, QuietTells
<1>3. CASE Restart
  <2>1. UNCHANGED jobs /\ UNCHANGED aliases /\ UNCHANGED inhibition /\ loop' = Idle
    BY <1>3 DEF Restart, durable, table
  <2>2. \A v \in Rows : ~Publishing(v)'
    BY <2>1 DEF Publishing
  <2>3. CASE \A v \in Rows : ~Publishing(v)
    <3>1. \A v \in Rows : Same(v)
      BY <2>1, <2>2, <2>3 DEF Same
    <3> QED
      BY <2>1, <3>1, QuietTells
  <2>4. CASE \E v \in Rows : Publishing(v)
    <3>1. PICK w \in Rows : Publishing(w)
      BY <2>4
    <3>2. jobs[w].stage = "PREPARED" /\ \A v \in Rows \ {w} : ~Publishing(v)
      BY <3>1 DEF Publishing, SettledInv, LoopHolds
    <3>3. /\ ToldState(w) = "publishing" /\ ToldState(w)' = "prepared"
          /\ ToldKind(w)' = ToldKind(w)
      BY <2>1, <2>2, <3>1, <3>2 DEF ToldState, ToldKind, Live, LiveStages
    <3>4. EntryMoves(w)
      BY <2>1, <3>3 DEF EntryMoves
    <3>5. \A v \in Rows \ {w} : Same(v)
      BY <2>1, <2>2, <3>2 DEF Same
    <3> QED
      BY <2>1, <3>4, <3>5, EntryTells
  <2> QED
    BY <2>3, <2>4
<1> QED
  BY <1>1, <1>2, <1>3 DEF WorldStep

(* Start-up ends what was live, and classifies what is without a record.   *)
LEMMA StartupTells ==
    ASSUME TypeInv, TypeInv', RowsKept, SettledInv, StartupStep
    PROVE  Tells
<1>1. CASE Adopt \/ Serve
  <2>1. UNCHANGED <<jobs, aliases, loop>>
    BY <1>1 DEF Adopt, Serve, durable, table
  <2> QED
    BY <2>1, BesideTells
<1>2. ASSUME NEW u \in Rows, Live(u), UNCHANGED loop, UNCHANGED aliases,
             UNCHANGED inhibition, Len(jobs') = Len(jobs), jobs'[u].stage = "INTERRUPTED",
             jobs'[u].rec.to = jobs[u].rec.to,
             \A v \in Rows \ {u} : jobs'[v].stage = jobs[v].stage /\ jobs'[v].rec = jobs[v].rec
      PROVE  Tells
  <2>1. \A v \in Rows \ {u} : Same(v)
    BY <1>2 DEF Same, Publishing
  <2>2. ToldState(u) = "open" /\ ToldState(u)' = "failed"
    BY <1>2 DEF ToldState, Live, LiveStages
  <2>3. EntryMoves(u)
    BY <1>2, <2>2 DEF EntryMoves
  <2> QED
    BY <1>2, <2>1, <2>3, EntryTells
<1>3. "INTERRUPTED" \in Stages
  BY DEF Stages, TerminalErrors
<1>4. ASSUME NEW u \in Uuid, RecoverScratch(u) PROVE Tells
  <2>1. /\ u \in Rows /\ Live(u) /\ jobs' = [jobs EXCEPT ![u].stage = "INTERRUPTED"]
        /\ UNCHANGED loop /\ UNCHANGED aliases /\ UNCHANGED inhibition
    BY <1>4 DEF RecoverScratch, Interrupted, process
  <2>2. /\ Len(jobs') = Len(jobs)
        /\ \A v \in Rows : /\ jobs'[v].stage = IF v = u THEN "INTERRUPTED" ELSE jobs[v].stage
                           /\ jobs'[v].rec = jobs[v].rec
    BY <1>3, <2>1, StageStep DEF TypeInv
  <2> QED
    BY <1>2, <2>1, <2>2
<1>5. ASSUME NEW u PROVE \E kind \in Kinds : InterruptRecord(u) = Record(kind)
  BY ClassifyKind DEF InterruptRecord, Kinds
<1>6. ASSUME NEW u \in Uuid, ReconcileLive(u) PROVE Tells
  <2>1. PICK kind \in Kinds : InterruptRecord(u) = Record(kind)
    BY <1>5
  <2>2. /\ u \in Rows /\ Live(u) /\ UNCHANGED loop /\ UNCHANGED aliases /\ UNCHANGED inhibition
        /\ jobs' = [[jobs EXCEPT ![u].stage = "INTERRUPTED"] EXCEPT ![u].rec = Record(kind)]
    BY <1>6, <2>1 DEF ReconcileLive, Interrupted, process
  <2>3. jobs[u].rec.to = 0 /\ kind \in RecordKinds
    BY <2>2 DEF RecordKinds, SettledInv, LiveOpen
  <2>4. /\ Len(jobs') = Len(jobs) /\ Record(kind).to = 0
        /\ \A v \in Rows :
              /\ jobs'[v].rec = IF v = u THEN Record(kind) ELSE jobs[v].rec
              /\ jobs'[v].stage = IF v = u THEN "INTERRUPTED" ELSE jobs[v].stage
    BY <2>2, <2>3, BothWritten
  <2> QED
    BY <1>2, <2>2, <2>3, <2>4
<1>7. ASSUME NEW u \in Uuid, ReconcileUnrecorded(u) PROVE Tells
  <2>1. PICK kind \in Kinds : InterruptRecord(u) = Record(kind)
    BY <1>5
  <2>2. /\ u \in Rows /\ jobs' = [jobs EXCEPT ![u].rec = Record(kind)]
        /\ UNCHANGED loop /\ UNCHANGED aliases /\ UNCHANGED inhibition
    BY <1>7, <2>1 DEF ReconcileUnrecorded, process
  <2>3. jobs[u].stage \in TerminalErrors /\ Unclassified(u)
    BY <1>7 DEF ReconcileUnrecorded, Unrecorded, IsNull, Unclassified, TerminalErrors, Kinds
  <2>4. \A v \in Rows : Publishing(v)' <=> Publishing(v)
    BY <2>2 DEF Publishing
  <2> QED
    BY <2>2, <2>3, <2>4, RecTells
<1> QED
  BY <1>1, <1>4, <1>6, <1>7 DEF StartupStep

LEMMA NextTells ==
    ASSUME TypeInv, TypeInv', RowsKept, SettledInv, [Next]_vars
    PROVE  Tells
<1>1. ASSUME NEW t \in Admin, AdminStep(t) PROVE Tells
  BY <1>1, ReadsTell, HitTells, SubmitTells, RecoverTells DEF AdminStep
<1>2. CASE LoopStep
  BY <1>2, RetryDueTells, PollTells, RecordTells, PublishTells DEF LoopStep
<1>3. CASE UNCHANGED vars
  BY <1>3, BesideTells DEF vars, durable, table, process
<1> QED
  BY <1>1, <1>2, <1>3, WorldTells, StartupTells DEF Next

(* The jobs table is the log of attempts that JobHistory specifies, under  *)
(* every interleaving of admin threads, the loop, compiles and deaths: no  *)
(* two writes of one handler make a row do what an attempt may not.        *)
THEOREM HistoryKept == Spec => KeepsHistory
<1>1. Init => History!Init
  <2> SUFFICES ASSUME Init PROVE History!Init
    OBVIOUS
  <2>1. jobs = <<>> /\ aliases = {} /\ inhibition = None
    BY DEF Init
  <2>2. Rows = {}
    BY <2>1 DEF Rows
  <2>3. Log = <<>>
    BY <2>2 DEF Log
  <2> QED
    BY <2>1, <2>3 DEF History!Init
<1>2. TypeInv /\ TypeInv' /\ CompileInv /\ SettledInv /\ [Next]_vars
         => [History!Next]_(History!vars)
  <2> SUFFICES ASSUME TypeInv, TypeInv', SettledInv, [Next]_vars
               PROVE  [History!Next]_(History!vars)
    OBVIOUS
  <2>1. RowsKept
    BY NextTyped
  <2> QED
    BY <2>1, NextTells DEF Tells
<1> QED
  BY <1>1, <1>2, Settled, PTL DEF Spec, KeepsHistory, History!Spec
=============================================================================
