----------------------------- MODULE JobManager -----------------------------
(***************************************************************************)
(* Preparation jobs: the durable jobs table and its satellites, the        *)
(* daemon's serve loop that advances and publishes jobs, the admin threads *)
(* that submit, await and recover them, the compile threads, and a process *)
(* that may die between any two commits and come back, on the same or on   *)
(* another boot of the host (compiler/jobs.py, compiler/real.py, the       *)
(* preparation half of supervisor.py, cache/store.py recover).             *)
(*                                                                         *)
(* One registry transaction, or one autocommitted write that another       *)
(* thread can observe, is one action.  A row's uuid is its position in     *)
(* jobs, so the order of creation is the order of positions.  A compile    *)
(* key stands for the source bytes it is computed from.                    *)
(***************************************************************************)
EXTENDS RetryPolicy, Sequences

CONSTANTS
    Ref,          \* model references
    Configured,   \* the references FXDNA_MODELS names: prepare pins them
    Key,          \* compile keys
    Admin,        \* threads that serve one request each (bounds the requests)
    Evidence,     \* what the vendor text of a failed compile may show
    FailStage,    \* terminal error stages the compile backend ends in
    None,         \* SQL NULL
    Inhibitions,  \* inhibitions the worker half may raise: [ref, safety]
    Prunable,     \* keys whose source bytes an operator may prune
    MaxJobs,      \* bound: rows in the jobs table
    MaxRestarts   \* bound: process deaths

ASSUME JobManagerAssumption ==
    /\ Configured \subseteq Ref
    /\ None \notin Ref \cup Key
    /\ Evidence \subseteq EvidenceTags
    /\ FailStage \subseteq TerminalErrors
    /\ Inhibitions \subseteq [ref: Ref, safety: BOOLEAN]
    /\ None \notin Inhibitions
    /\ Prunable \subseteq Key
    /\ MaxJobs \in Nat
    /\ MaxRestarts \in Nat

VARIABLES
    jobs,        \* the jobs table
    aliases,     \* the job_aliases table: pairs <<row, ref>>
    artifacts,   \* keys with a row in the artifacts table
    dirs,        \* keys with a committed directory under artifacts/
    sources,     \* keys whose source bytes are present, file and row
    refState,    \* model_refs.state
    refSource,   \* model_refs.source_sha256
    inhibition,  \* service_state["inhibition"]
    workdirs,    \* rows with a scratch directory under work/
    backends,    \* JobManager._backends with the state of the compile thread
    lockOwner,   \* the compile thread in run_compile's critical section
    loop,        \* where the serve loop is in Supervisor.pump
    admin,       \* where each admin thread is in its handler
    phase,       \* what the process is doing: serving, or starting up
    memlock,     \* memlock_adequate() of this container
    boot,        \* boot_token() of this host boot
    restarts     \* process deaths so far

table   == <<jobs, aliases>>
cache   == <<artifacts, dirs, sources, workdirs>>
refs    == <<refState, refSource>>
durable == <<table, cache, refs, inhibition>>
compile == <<backends, lockOwner>>
process == <<compile, loop, admin, phase>>
machine == <<memlock, boot, restarts>>
vars    == <<durable, process, machine>>

----------------------------------------------------------------------------
Uuid       == 1..MaxJobs
LiveStages == {"QUEUED", "COMPILING"}
Stages     == LiveStages \cup {"PREPARED"} \cup TerminalErrors
RefStates  == Stages \cup {"NEW", "DOWNLOADED", "SOURCE_CHANGED"}
Idle       == [at |-> "idle"]
Closed     == [at |-> "closed"]

RecordType == [kind: RecordKinds, due: BOOLEAN, to: 0..MaxJobs, refused: BOOLEAN]
Row        == [ref: Ref, key: Key, stage: Stages, attempt: Nat, boot: Nat,
               rec: RecordType]

(* "none" no backend; "new" constructed; "started" the thread runs but has *)
(* not tried the lock; "running" it compiles; "busy", "ok" and "failed" it *)
(* has left a result that poll has not yet read; "over" poll returned it.  *)
BackendStates == {"none", "new", "started", "running", "busy", "ok", "failed",
                  "over"}

LoopType  == {Idle} \cup
             [at: {"record", "publish", "commit", "unpublished", "mark"}, job: Uuid]
AdminType == {Idle, Closed} \cup
             [at: {"ingested", "submit"}, ref: Ref, key: Key] \cup
             [at: {"hit"}, ref: Ref, job: Uuid] \cup
             [at: {"answered"}, ref: Ref, stage: Stages] \cup
             [at: {"waited"}, job: Uuid, stage: Stages] \cup
             [at: {"recover"}, ref: Ref]
Phases    == {"serving", "scratch", "reconcile"}

Newest(S) == {u \in S : \A v \in S : v <= u}
Oldest(S) == {u \in S : \A v \in S : u <= v}

Rows         == DOMAIN jobs
Live(u)      == jobs[u].stage \in LiveStages
LiveFor(k)   == {u \in Rows : jobs[u].key = k /\ Live(u)}
FindJob(r, k) == {u \in Rows : jobs[u].ref = r /\ jobs[u].key = k}
RefsOf(u)    == {jobs[u].ref} \cup {r \in Ref : <<u, r>> \in aliases}
KeyRefs(k)   == UNION {RefsOf(u) : u \in {v \in Rows : jobs[v].key = k}}
MarkRefs(S, state) == [r \in Ref |-> IF r \in S THEN state ELSE refState[r]]

Init ==
    /\ jobs = <<>> /\ aliases = {} /\ artifacts = {} /\ dirs = {}
    /\ sources = {} /\ workdirs = {} /\ inhibition = None
    /\ refState = [r \in Ref |-> "NEW"]
    /\ refSource = [r \in Ref |-> None]
    /\ backends = [u \in Uuid |-> "none"] /\ lockOwner = 0
    /\ loop = Idle /\ admin = [t \in Admin |-> Idle] /\ phase = "serving"
    /\ memlock \in BOOLEAN /\ boot = 0 /\ restarts = 0

----------------------------------------------------------------------------
(* Opening rows.                                                           *)

NewRow(r, k, attempt, kind) ==
    [ref |-> r, key |-> k, stage |-> "QUEUED", attempt |-> attempt,
     boot |-> boot, rec |-> Record(kind)]

HasRoom == Len(jobs) < MaxJobs

(* _create: a first attempt with its backend.                              *)
Create(r, k) ==
    /\ HasRoom
    /\ jobs' = Append(jobs, NewRow(r, k, 1, "null"))
    /\ backends' = [backends EXCEPT ![Len(jobs) + 1] = "new"]
    /\ UNCHANGED <<aliases, refState>>

(* Mutant of _carry_aliases: the refs that joined are left behind.         *)
CarriedNone(rows, u, new) == {}

CarriedAliases(rows, u, new) == {<<new, r>> : r \in RefsOf(u) \ {rows[u].ref}}

(* _new_attempt after the terminal row u, which it consumes.  The aliases  *)
(* of u follow.  A backend that cannot be built, because the source bytes  *)
(* are gone, rolls the new row back and stamps u.                          *)
OpenAttempt(rows, u, attempt, sourced) ==
    LET new == Len(rows) + 1 IN
    IF sourced \/ rows[u].key \in sources
    THEN /\ HasRoom
         /\ jobs' = Append([rows EXCEPT ![u].rec.to = new],
                           NewRow(rows[u].ref, rows[u].key, attempt, "carried"))
         /\ backends' = [backends EXCEPT ![new] = "new"]
         /\ aliases' = aliases \cup CarriedAliases(rows, u, new)
         /\ refState' = [refState EXCEPT ![rows[u].ref] = "QUEUED"]
    ELSE /\ jobs' = [rows EXCEPT ![u].rec.refused = TRUE]
         /\ UNCHANGED <<aliases, refState, backends>>

(* Mutant: the inhibition is not read.                                     *)
MayResumeInhibited(u, rec) ==
    LiveFor(jobs[u].key) = {} /\ AutoEligible(rec, jobs[u].attempt, memlock)

(* The guards of _maybe_resume, over the row's record.                     *)
MayResume(u, rec) ==
    /\ LiveFor(jobs[u].key) = {}
    /\ inhibition = None
    /\ AutoEligible(rec, jobs[u].attempt, memlock)

----------------------------------------------------------------------------
(* Admin threads: prepare.                                                 *)

AdminAt(t, at) == phase = "serving" /\ admin[t].at = at

(* prepare up to _ingest_source's set_ref_source: the bytes under a ref    *)
(* are a new revision when the caller accepts one.                         *)
Ingest(t, r, k) ==
    /\ AdminAt(t, "idle")
    /\ sources' = sources \cup {k}
    /\ refSource' = [refSource EXCEPT ![r] = k]
    /\ refState' = [refState EXCEPT ![r] = "DOWNLOADED"]
    /\ admin' = [admin EXCEPT ![t] = [at |-> "ingested", ref |-> r, key |-> k]]
    /\ UNCHANGED <<table, artifacts, dirs, workdirs, inhibition, compile, loop, phase, machine>>

(* ... and without refresh, other bytes under the ref are refused.         *)
IngestChanged(t, r, k) ==
    /\ AdminAt(t, "idle")
    /\ refSource[r] \notin {None, k}
    /\ refState' = [refState EXCEPT ![r] = "SOURCE_CHANGED"]
    /\ admin' = [admin EXCEPT ![t] = Closed]
    /\ UNCHANGED <<table, cache, refSource, inhibition, compile, loop, phase, machine>>

(* The key already has an artifact of this compiler backend: a provenance  *)
(* row is created ...                                                      *)
CacheHit(t) ==
    /\ AdminAt(t, "ingested")
    /\ admin[t].key \in artifacts
    /\ HasRoom
    /\ jobs' = Append(jobs, NewRow(admin[t].ref, admin[t].key, 1, "null"))
    /\ admin' = [admin EXCEPT ![t] = [at |-> "hit", ref |-> admin[t].ref,
                                      job |-> Len(jobs) + 1]]
    /\ UNCHANGED <<aliases, cache, refs, inhibition, compile, loop, phase, machine>>

(* ... and a second write makes it PREPARED.                               *)
CacheHitDone(t) ==
    /\ AdminAt(t, "hit")
    /\ jobs' = [jobs EXCEPT ![admin[t].job].stage = "PREPARED"]
    /\ refState' = [refState EXCEPT ![admin[t].ref] = "PREPARED"]
    /\ admin' = [admin EXCEPT ![t] = Closed]
    /\ UNCHANGED <<aliases, cache, refSource, inhibition, compile, loop, phase, machine>>

(* No artifact: submit if the scratch space suffices, else raise.          *)
CacheMiss(t) ==
    /\ AdminAt(t, "ingested")
    /\ admin[t].key \notin artifacts
    /\ \E next \in {Closed, [at |-> "submit", ref |-> admin[t].ref,
                           key |-> admin[t].key]} :
           admin' = [admin EXCEPT ![t] = next]
    /\ UNCHANGED <<durable, compile, loop, phase, machine>>

(* JobManager.submit, one exclusive transaction.  Answered(t, s): prepare  *)
(* goes on with s, the stage of the row that submit returns.               *)
Answered(t, stage) ==
    admin' = [admin EXCEPT ![t] = [at |-> "answered", ref |-> admin[t].ref,
                                   stage |-> stage]]

Join(t, u) ==
    /\ aliases' = aliases \cup {<<u, admin[t].ref>>}
    /\ Answered(t, jobs[u].stage)
    /\ UNCHANGED <<jobs, refState, backends>>

(* Mutant: the resumed attempt keeps the number of the one before.         *)
SubmitTerminalSame(t, u) ==
    IF MayResume(u, jobs[u].rec)
    THEN OpenAttempt(jobs, u, jobs[u].attempt, TRUE) /\ Answered(t, "QUEUED")
    ELSE Answered(t, jobs[u].stage) /\ UNCHANGED <<table, refState, backends>>

(* The newest row of the ref and key is terminal: resume it when eligible. *)
SubmitTerminal(t, u) ==
    IF MayResume(u, jobs[u].rec)
    THEN OpenAttempt(jobs, u, jobs[u].attempt + 1, TRUE) /\ Answered(t, "QUEUED")
    ELSE Answered(t, jobs[u].stage) /\ UNCHANGED <<table, refState, backends>>

(* Mutant: the live job of another ref is not looked for.                  *)
SubmitAlone(t, r, k) == Create(r, k) /\ Answered(t, "QUEUED")

(* No usable row of its own: share the key's live job, or create one.      *)
SubmitFresh(t, r, k) ==
    \/ \E u \in Oldest(LiveFor(k)) : Join(t, u)
    \/ LiveFor(k) = {} /\ Create(r, k) /\ Answered(t, "QUEUED")

SubmitOver(t, r, k, own) ==
    \/ \E u \in Newest(own) :
          \/ Live(u) /\ Join(t, u)
          \/ jobs[u].stage \in TerminalErrors /\ SubmitTerminal(t, u)
          \/ /\ jobs[u].stage = "PREPARED" /\ k \in artifacts
             /\ Answered(t, "PREPARED")
             /\ UNCHANGED <<table, refState, backends>>
    \/ /\ \A u \in Newest(own) : jobs[u].stage = "PREPARED" /\ k \notin artifacts
       /\ SubmitFresh(t, r, k)

Submit(t) ==
    /\ AdminAt(t, "submit")
    /\ SubmitOver(t, admin[t].ref, admin[t].key, FindJob(admin[t].ref, admin[t].key))
    /\ UNCHANGED <<cache, refSource, inhibition, lockOwner, loop, phase, machine>>

(* The ref's state after submit: a sticky failure shows, all else is QUEUED. *)
PrepareDone(t) ==
    /\ AdminAt(t, "answered")
    /\ LET stage == admin[t].stage
           shown == IF stage \in TerminalErrors THEN stage ELSE "QUEUED"
       IN  refState' = [refState EXCEPT ![admin[t].ref] = shown]
    /\ admin' = [admin EXCEPT ![t] = Closed]
    /\ UNCHANGED <<table, cache, refSource, inhibition, compile, loop, phase, machine>>

----------------------------------------------------------------------------
(* Admin threads: wait and recover.                                        *)

(* wait_job(pump=False) reads a row that is no longer live ...             *)
WaitRead(t, u) ==
    /\ AdminAt(t, "idle") /\ u \in Rows /\ ~Live(u)
    /\ admin' = [admin EXCEPT ![t] = [at |-> "waited", job |-> u,
                                      stage |-> jobs[u].stage]]
    /\ UNCHANGED <<durable, compile, loop, phase, machine>>

(* ... and marks the refs with what it read.                               *)
WaitMark(t) ==
    /\ AdminAt(t, "waited")
    /\ LET u == admin[t].job IN
       refState' = MarkRefs(IF admin[t].stage = "PREPARED"
                            THEN KeyRefs(jobs[u].key) ELSE RefsOf(u),
                            admin[t].stage)
    /\ admin' = [admin EXCEPT ![t] = Closed]
    /\ UNCHANGED <<table, cache, refSource, inhibition, compile, loop, phase, machine>>

(* recover_ref's transaction: only the ref's own non-safety inhibition is  *)
(* cleared, any other one ends the request.                                *)
RecoverClear(t, r) ==
    /\ AdminAt(t, "idle")
    /\ inhibition # None => inhibition.ref = r /\ ~inhibition.safety
    /\ inhibition' = None
    /\ admin' = [admin EXCEPT ![t] = [at |-> "recover", ref |-> r]]
    /\ UNCHANGED <<table, cache, refs, compile, loop, phase, machine>>

(* _terminal_row_for_ref picks a terminal row reachable from the ref; its  *)
(* key, and the ref itself, name the row requeue acts on.                  *)
RequeueRow(r, k) ==
    LET eligible == {u \in Newest(FindJob(r, k)) :
                        /\ jobs[u].stage \in TerminalErrors
                        /\ OperatorEligible(jobs[u].rec, jobs[u].stage)}
    IN  IF eligible # {} /\ inhibition = None /\ LiveFor(k) = {}
        THEN \E u \in eligible : OpenAttempt(jobs, u, 1, FALSE)
        ELSE UNCHANGED <<table, refState, backends>>

RecoverRequeue(t) ==
    /\ AdminAt(t, "recover")
    /\ LET r        == admin[t].ref
           terminal == {u \in Rows : jobs[u].stage \in TerminalErrors /\ r \in RefsOf(u)}
       IN  IF terminal = {}
           THEN UNCHANGED <<table, refState, backends>>
           ELSE \E u \in terminal : RequeueRow(r, jobs[u].key)
    /\ admin' = [admin EXCEPT ![t] = Closed]
    /\ UNCHANGED <<cache, refSource, inhibition, lockOwner, loop, phase, machine>>

----------------------------------------------------------------------------
(* The serve loop: Supervisor.pump.                                        *)

LoopAt(at) == phase = "serving" /\ loop.at = at

(* retry_due, one transaction per terminal row with a record.              *)
RetryDue(u) ==
    /\ LoopAt("idle") /\ u \in Rows
    /\ jobs[u].stage \in TerminalErrors
    /\ MayResume(u, jobs[u].rec)
    /\ OpenAttempt(jobs, u, jobs[u].attempt + 1, FALSE)
    /\ UNCHANGED <<cache, refSource, inhibition, lockOwner, loop, admin, phase, machine>>

(* JobManager.pump: poll the backend and mirror its state.                 *)
Poll(u) ==
    /\ LoopAt("idle") /\ u \in Rows /\ Live(u)
    /\ \/ /\ backends[u] = "new"
          /\ backends' = [backends EXCEPT ![u] = "started"]
          /\ jobs' = [jobs EXCEPT ![u].stage = "COMPILING"]
          /\ UNCHANGED loop
       \/ /\ backends[u] = "busy"
          /\ backends' = [backends EXCEPT ![u] = "new"]
          /\ jobs' = [jobs EXCEPT ![u].stage = "QUEUED"]
          /\ UNCHANGED loop
       \/ /\ backends[u] = "ok"
          /\ backends' = [backends EXCEPT ![u] = "over"]
          /\ jobs' = [jobs EXCEPT ![u].stage = "PREPARED"]
          /\ loop' = [at |-> "publish", job |-> u]
       \/ /\ backends[u] = "failed"
          /\ backends' = [backends EXCEPT ![u] = "over"]
          /\ \E stage \in FailStage : jobs' = [jobs EXCEPT ![u].stage = stage]
          /\ loop' = [at |-> "record", job |-> u]
    /\ UNCHANGED <<aliases, cache, refs, inhibition, lockOwner, admin, phase, machine>>

(* _finish_terminal: write the record; open the next attempt when it is    *)
(* already due, otherwise show the failure on the job's refs.              *)
RecordTerminal ==
    /\ LoopAt("record")
    /\ LET u == loop.job IN
       \E evidence \in SUBSET Evidence :
          LET stage == jobs[u].stage
              rec   == Record(Classify(stage, stage, evidence, memlock))
              rows  == [jobs EXCEPT ![u].rec = rec]
          IN  IF MayResume(u, rec)
              THEN OpenAttempt(rows, u, jobs[u].attempt + 1, FALSE)
              ELSE /\ jobs' = rows
                   /\ refState' = MarkRefs(RefsOf(u), stage)
                   /\ UNCHANGED <<aliases, backends>>
    /\ loop' = Idle
    /\ UNCHANGED <<cache, refSource, inhibition, lockOwner, admin, phase, machine>>

(* _publish_result up to the rename that commits the directory.  A         *)
(* directory without a row is moved aside first.                           *)
PublishRename ==
    /\ LoopAt("publish")
    /\ LET k == jobs[loop.job].key IN
       IF k \in artifacts
       THEN loop' = [loop EXCEPT !.at = "mark"] /\ UNCHANGED dirs
       ELSE loop' = [loop EXCEPT !.at = "commit"] /\ dirs' = dirs \cup {k}
    /\ UNCHANGED <<table, artifacts, sources, workdirs, refs, inhibition, compile, admin, phase, machine>>

(* Mutant: a directory with a row is moved aside too.                      *)
PublishFailsOver ==
    /\ LoopAt("publish")
    /\ dirs' = dirs \ {jobs[loop.job].key}
    /\ jobs' = [jobs EXCEPT ![loop.job].stage = "COMPILE_FAILED"]
    /\ loop' = [loop EXCEPT !.at = "unpublished"]
    /\ UNCHANGED <<aliases, artifacts, sources, workdirs, refs, inhibition, compile, admin, phase, machine>>

(* Mutant: what is read back is the published copy, once the result has    *)
(* been shown as prepared.                                                 *)
PublishFailsLater ==
    /\ LoopAt("commit")
    /\ dirs' = dirs \ {jobs[loop.job].key}
    /\ jobs' = [jobs EXCEPT ![loop.job].stage = "COMPILE_FAILED"]
    /\ loop' = [loop EXCEPT !.at = "unpublished"]
    /\ UNCHANGED <<aliases, artifacts, sources, workdirs, refs, inhibition, compile, admin, phase, machine>>

(* The compiler's artifact cannot be read back: the job fails after all.   *)
PublishFails ==
    /\ LoopAt("publish")
    /\ jobs[loop.job].key \notin artifacts
    /\ dirs' = dirs \ {jobs[loop.job].key}
    /\ jobs' = [jobs EXCEPT ![loop.job].stage = "COMPILE_FAILED"]
    /\ loop' = [loop EXCEPT !.at = "unpublished"]
    /\ UNCHANGED <<aliases, artifacts, sources, workdirs, refs, inhibition, compile, admin, phase, machine>>

RecordUnpublished ==
    /\ LoopAt("unpublished")
    /\ LET u   == loop.job
           rec == Record(Classify("COMPILE_FAILED", "COMPILE_FAILED", {}, memlock))
       IN  /\ jobs' = [jobs EXCEPT ![u].rec = rec]
           /\ refState' = MarkRefs(RefsOf(u), "COMPILE_FAILED")
    /\ loop' = Idle
    /\ UNCHANGED <<aliases, cache, refSource, inhibition, compile, admin, phase, machine>>

(* add_artifact.                                                           *)
PublishCommit ==
    /\ LoopAt("commit")
    /\ artifacts' = artifacts \cup {jobs[loop.job].key}
    /\ loop' = [loop EXCEPT !.at = "mark"]
    /\ UNCHANGED <<table, dirs, sources, workdirs, refs, inhibition, compile, admin, phase, machine>>

(* _mark_prepared_refs.                                                    *)
MarkPrepared ==
    /\ LoopAt("mark")
    /\ refState' = MarkRefs(KeyRefs(jobs[loop.job].key), "PREPARED")
    /\ loop' = Idle
    /\ UNCHANGED <<table, cache, refSource, inhibition, compile, admin, phase, machine>>

----------------------------------------------------------------------------
(* Compile threads: run_compile, one holder of the launcher lock.          *)

Acquire(u) ==
    /\ phase = "serving" /\ backends[u] = "started" /\ lockOwner = 0
    /\ lockOwner' = u
    /\ workdirs' = workdirs \cup {u}
    /\ backends' = [backends EXCEPT ![u] = "running"]
    /\ UNCHANGED <<table, artifacts, dirs, sources, refs, inhibition, loop, admin, phase, machine>>

(* Mutant: a backend that found the lock busy is not built again.          *)
FindBusyOver(u) ==
    /\ phase = "serving" /\ backends[u] = "started" /\ lockOwner # 0
    /\ backends' = [backends EXCEPT ![u] = "over"]
    /\ UNCHANGED <<durable, lockOwner, loop, admin, phase, machine>>

FindBusy(u) ==
    /\ phase = "serving" /\ backends[u] = "started" /\ lockOwner # 0
    /\ backends' = [backends EXCEPT ![u] = "busy"]
    /\ UNCHANGED <<durable, lockOwner, loop, admin, phase, machine>>

Finish(u, result) ==
    /\ phase = "serving" /\ backends[u] = "running"
    /\ lockOwner' = 0
    /\ backends' = [backends EXCEPT ![u] = result]
    /\ UNCHANGED <<durable, loop, admin, phase, machine>>

----------------------------------------------------------------------------
(* The rest of the daemon and the world.                                   *)

(* _inhibit_quiet, from the worker half of the supervisor: the last        *)
(* inhibition is the one that stands.                                      *)
Inhibit(new) ==
    /\ phase = "serving"
    /\ inhibition' = new
    /\ UNCHANGED <<table, cache, refs, process, machine>>

(* apply_prune removes source bytes no pinned ref points to.               *)
Prune(k) ==
    /\ phase = "serving" /\ k \in sources
    /\ \A r \in Configured : refSource[r] # k
    /\ sources' = sources \ {k}
    /\ refSource' = [r \in Ref |-> IF refSource[r] = k THEN None ELSE refSource[r]]
    /\ UNCHANGED <<table, artifacts, dirs, workdirs, refState, inhibition, process, machine>>

(* Wall-clock time passes a record's not_before.                           *)
BackoffElapses(u) ==
    /\ u \in Rows /\ jobs[u].rec.kind = "transient" /\ ~jobs[u].rec.due
    /\ jobs' = [jobs EXCEPT ![u].rec.due = TRUE]
    /\ UNCHANGED <<aliases, cache, refs, inhibition, process, machine>>

(* The process dies and is started again, perhaps on another boot of the   *)
(* host and in a container with another memlock allowance.                 *)
Restart ==
    /\ restarts < MaxRestarts
    /\ restarts' = restarts + 1
    /\ phase' = "scratch"
    /\ backends' = [u \in Uuid |-> "none"] /\ lockOwner' = 0
    /\ loop' = Idle /\ admin' = [t \in Admin |-> IF admin[t] = Idle THEN Idle ELSE Closed]
    /\ memlock' \in BOOLEAN /\ boot' \in {boot, boot + 1}
    /\ UNCHANGED durable

----------------------------------------------------------------------------
(* Startup: store.recover, then _reconcile_jobs.                           *)

Interrupted(rows, u) == [rows EXCEPT ![u].stage = "INTERRUPTED"]

(* Mutant: any row with a scratch directory is interrupted.                *)
RecoverScratchAny(u) ==
    /\ phase = "scratch" /\ u \in Rows /\ u \in workdirs
    /\ jobs' = Interrupted(jobs, u)
    /\ refState' = [refState EXCEPT ![jobs[u].ref] = "INTERRUPTED"]
    /\ workdirs' = workdirs \ {u}
    /\ UNCHANGED <<aliases, artifacts, dirs, sources, refSource, inhibition, process, machine>>

(* recover, a live row with a scratch directory: the stage changes, the    *)
(* record does not.                                                        *)
RecoverScratch(u) ==
    /\ phase = "scratch" /\ u \in Rows /\ Live(u) /\ u \in workdirs
    /\ jobs' = Interrupted(jobs, u)
    /\ refState' = [refState EXCEPT ![jobs[u].ref] = "INTERRUPTED"]
    /\ workdirs' = workdirs \ {u}
    /\ UNCHANGED <<aliases, artifacts, dirs, sources, refSource, inhibition, process, machine>>

(* recover, a directory without a row: a renamed directory is complete and *)
(* hashes as its manifest says, so it is adopted.                          *)
Adopt ==
    /\ phase = "scratch"
    /\ \A u \in Rows : Live(u) => u \notin workdirs
    /\ artifacts' = artifacts \cup dirs
    /\ phase' = "reconcile"
    /\ UNCHANGED <<table, dirs, sources, workdirs, refs, inhibition, compile, loop, admin, machine>>

(* _interrupt_record: only the same boot and a clean safety state make the *)
(* interruption safe to resume.                                            *)
InterruptRecord(u) ==
    Record(IF inhibition # None \/ jobs[u].boot # boot
           THEN "unknown" ELSE Classify("INTERRUPTED", "INTERRUPTED", {}, memlock))

(* _reconcile_jobs, first loop.                                            *)
ReconcileLive(u) ==
    /\ phase = "reconcile" /\ u \in Rows /\ Live(u)
    /\ jobs' = [Interrupted(jobs, u) EXCEPT ![u].rec = InterruptRecord(u)]
    /\ refState' = [refState EXCEPT ![jobs[u].ref] = "INTERRUPTED"]
    /\ UNCHANGED <<aliases, cache, refSource, inhibition, process, machine>>

(* The rows of the second loop: INTERRUPTED and failure_json IS NULL.      *)
Unrecorded(u) == jobs[u].stage = "INTERRUPTED" /\ IsNull(jobs[u].rec)

ReconcileUnrecorded(u) ==
    /\ phase = "reconcile" /\ u \in Rows /\ Unrecorded(u)
    /\ \A v \in Rows : ~Live(v)
    /\ jobs' = [jobs EXCEPT ![u].rec = InterruptRecord(u)]
    /\ refState' = [refState EXCEPT ![jobs[u].ref] = "INTERRUPTED"]
    /\ UNCHANGED <<aliases, cache, refSource, inhibition, process, machine>>

(* Mutant: live rows are left to the serve loop.                           *)
ServeLive ==
    /\ phase = "reconcile"
    /\ \A u \in Rows : ~Unrecorded(u)
    /\ phase' = "serving"
    /\ UNCHANGED <<durable, compile, loop, admin, machine>>

Serve ==
    /\ phase = "reconcile"
    /\ \A u \in Rows : ~Live(u) /\ ~Unrecorded(u)
    /\ phase' = "serving"
    /\ UNCHANGED <<durable, compile, loop, admin, machine>>

----------------------------------------------------------------------------
AdminStep(t) ==
    \/ \E r \in Ref, k \in Key : Ingest(t, r, k) \/ IngestChanged(t, r, k)
    \/ CacheHit(t) \/ CacheHitDone(t) \/ CacheMiss(t)
    \/ Submit(t) \/ PrepareDone(t)
    \/ (\E u \in Uuid : WaitRead(t, u)) \/ WaitMark(t)
    \/ (\E r \in Ref : RecoverClear(t, r)) \/ RecoverRequeue(t)

LoopStep ==
    \/ \E u \in Uuid : RetryDue(u) \/ Poll(u)
    \/ RecordTerminal
    \/ PublishRename \/ PublishFails \/ RecordUnpublished
    \/ PublishCommit \/ MarkPrepared

CompileStep(u) ==
    Acquire(u) \/ FindBusy(u) \/ \E result \in {"ok", "failed"} : Finish(u, result)

WorldStep ==
    \/ \E new \in Inhibitions : Inhibit(new)
    \/ \E k \in Prunable : Prune(k)
    \/ \E u \in Uuid : BackoffElapses(u)
    \/ Restart

StartupStep ==
    \/ Adopt \/ Serve
    \/ \E u \in Uuid : RecoverScratch(u) \/ ReconcileLive(u) \/ ReconcileUnrecorded(u)

Next ==
    \/ \E t \in Admin : AdminStep(t)
    \/ LoopStep
    \/ \E u \in Uuid : CompileStep(u)
    \/ WorldStep
    \/ StartupStep

Spec == Init /\ [][Next]_vars

----------------------------------------------------------------------------
(* Correctness.                                                            *)

(* Every table, thread and record keeps its shape.                         *)
TypeOK ==
    /\ jobs \in Seq(Row) /\ Len(jobs) <= MaxJobs
    /\ aliases \subseteq Uuid \X Ref
    /\ artifacts \subseteq Key /\ dirs \subseteq Key /\ sources \subseteq Key
    /\ refState \in [Ref -> RefStates]
    /\ refSource \in [Ref -> Key \cup {None}]
    /\ inhibition \in {None} \cup Inhibitions
    /\ workdirs \subseteq Uuid
    /\ backends \in [Uuid -> BackendStates]
    /\ lockOwner \in 0..MaxJobs
    /\ loop \in LoopType
    /\ admin \in [Admin -> AdminType]
    /\ phase \in Phases
    /\ memlock \in BOOLEAN /\ boot \in Nat /\ restarts \in Nat

(* Compiling: the backend exists and poll has not yet returned its result. *)
Compiling(u) == backends[u] \notin {"none", "over"}

(* Submitters on several admin threads, resumes in the serve loop and an   *)
(* operator's recover never start two compiles of one key, and one thread  *)
(* at a time compiles (submit and retry_due check and insert in one        *)
(* transaction; run_compile takes _compile_lock).                          *)
OneCompilePerKey ==
    /\ \A u, v \in Rows : u # v /\ Compiling(u) /\ Compiling(v)
                          => jobs[u].key # jobs[v].key
    /\ \A u \in Uuid : backends[u] = "running" <=> lockOwner = u /\ u # 0

(* pump returns a live row without a backend as it is, so such a row would *)
(* stay QUEUED until the next start, and keep every other job of its key   *)
(* from starting: a live row of a serving process has a backend that poll  *)
(* has not given up, or is a cache hit between its two writes (_create,    *)
(* _new_attempt, run_compile's busy result, _reconcile_jobs).              *)
NoneForgotten ==
    phase = "serving" =>
        \A u \in Rows : Live(u) =>
            Compiling(u) \/ \E t \in Admin : admin[t].at = "hit" /\ admin[t].job = u

(* A retry is the successor of one terminal row, for the same ref and      *)
(* bytes, and is either its next attempt or the first of an operator's     *)
(* cycle; safety and permanent failures have no successor (_new_attempt,   *)
(* the resumed_to stamp, _requeue_prev).                                   *)
ResumeChain ==
    \A u \in Rows :
        LET v == jobs[u].rec.to IN
        v # 0 => /\ v \in Rows /\ u < v
                 /\ jobs[v].ref = jobs[u].ref /\ jobs[v].key = jobs[u].key
                 /\ jobs[v].attempt \in {1, jobs[u].attempt + 1}
                 /\ jobs[u].rec.kind \notin {"safety", "permanent"}
                 /\ \A w \in Rows : jobs[w].rec.to = v => w = u

(* No chain of automatic retries goes past the budget.                     *)
AttemptBudget == \A u \in Rows : jobs[u].attempt <= MAX_ATTEMPTS

(* A ref that joined a job stays reachable from the attempt that resumes   *)
(* it (_carry_aliases).                                                    *)
AliasesFollow ==
    \A u \in Rows : jobs[u].rec.to # 0 => RefsOf(u) \subseteq RefsOf(jobs[u].rec.to)

(* Whatever the order of publication, failure, adoption and death, a row   *)
(* of the artifacts table has its committed directory (_publish_result     *)
(* moves a directory aside only for a key without a row).  It is about a   *)
(* data directory one compiler backend writes, and about publication: the  *)
(* invalidation of artifacts is not part of this module.                   *)
CommittedOnDisk == artifacts \subseteq dirs

(* While any inhibition stands no terminal row gets a successor, by any    *)
(* route (_maybe_resume, requeue).                                         *)
NoResumeUnderInhibition ==
    [][inhibition # None =>
          \A u \in Rows : jobs'[u].rec.to \in {0, jobs[u].rec.to}]_vars

(* A terminal row is history: later polls, waits, retries and restarts     *)
(* keep its stage and its classification.                                  *)
TerminalIsHistory ==
    [][\A u \in Rows : jobs[u].stage \in TerminalErrors =>
          /\ jobs'[u].stage = jobs[u].stage
          /\ jobs[u].rec.kind \in Kinds => jobs'[u].rec.kind = jobs[u].rec.kind]_vars

(* The table as its readers see it: PREPARED is not for good while the     *)
(* loop has the result still to publish; a record without a kind, NULL or  *)
(* that of a running retry, does not classify; and that a retry was        *)
(* refused, or is due, is left out.                                        *)
Publishing(u) == loop # Idle /\ loop.at = "publish" /\ loop.job = u

ToldState(u) ==
    IF Live(u) THEN "open"
    ELSE IF jobs[u].stage # "PREPARED" THEN "failed"
    ELSE IF Publishing(u) THEN "publishing" ELSE "prepared"

ToldKind(u) == IF jobs[u].rec.kind \in Kinds THEN jobs[u].rec.kind ELSE "open"

Told(u) ==
    [ref |-> jobs[u].ref, key |-> jobs[u].key, attempt |-> jobs[u].attempt,
     state |-> ToldState(u), kind |-> ToldKind(u), next |-> jobs[u].rec.to]

Log == [u \in Rows |-> Told(u)]

History == INSTANCE JobHistory
           WITH Kind <- Kinds, Final <- {"safety", "permanent"}, Open <- "open",
                log <- Log, joined <- aliases, inhibited <- inhibition # None

(* Every step of every thread, of a start and of a death is a step of that *)
(* log or leaves it alone: no two writes of one handler, with another      *)
(* thread between them, make a row do what an attempt may not.             *)
KeepsHistory == History!Spec

----------------------------------------------------------------------------
(* Liveness.  The serve loop pumps every live row and every due row on     *)
(* each round, a compile thread ends (its phases run under a deadline), an *)
(* admin thread finishes its request, a startup goes through.              *)
(* Requests, prunes, inhibitions and deaths are not fair.                  *)
Fairness ==
    /\ \A u \in Uuid : /\ WF_vars(Poll(u)) /\ WF_vars(RetryDue(u))
                       /\ WF_vars(Acquire(u) \/ FindBusy(u))
                       /\ WF_vars(\E result \in {"ok", "failed"} : Finish(u, result))
                       /\ WF_vars(BackoffElapses(u))
    /\ WF_vars(RecordTerminal \/ PublishRename \/ RecordUnpublished
               \/ PublishCommit \/ MarkPrepared)
    /\ \A t \in Admin : WF_vars(CacheHitDone(t))
    /\ WF_vars(StartupStep)

FairSpec == Spec /\ Fairness

(* A job that is queued does not stay so: it is prepared or fails, also    *)
(* across a restart.                                                       *)
JobSettles == \A u \in Uuid : (u \in Rows /\ Live(u)) ~> (u \in Rows /\ ~Live(u))

(* A transient failure within its budget gets its retry, unless an         *)
(* inhibition, a live job for the key, the loss of its source or a full    *)
(* table stands in the way.                                                *)
Waiting(u) ==
    /\ u \in Rows /\ jobs[u].rec.kind = "transient"
    /\ jobs[u].stage \in TerminalErrors
    /\ jobs[u].attempt < MAX_ATTEMPTS
    /\ jobs[u].rec.to = 0 /\ ~jobs[u].rec.refused
    /\ inhibition = None /\ LiveFor(jobs[u].key) = {} /\ HasRoom

RetryHappens == \A u \in Uuid : Waiting(u) ~> ~Waiting(u)

----------------------------------------------------------------------------
(* What the documents and comments say and the code does not keep.         *)

(* _reconcile_jobs: "Both shapes get structured records via                *)
(* _interrupt_record - including INTERRUPTED rows that lack one".          *)
InterruptedRecorded ==
    phase = "serving" =>
        \A u \in Rows : jobs[u].stage = "INTERRUPTED" => jobs[u].rec.kind \in Kinds

(* SPEC 7: "publish registry success only after the artifact is durably    *)
(* committed".  A ref shown PREPARED has an artifact for its bytes.        *)
PreparedIsDurable ==
    \A r \in Ref : refState[r] = "PREPARED" /\ refSource[r] # None
                       /\ FindJob(r, refSource[r]) # {}
                   => refSource[r] \in artifacts

(* requeue: "the old row must not open a second chain around the attempt   *)
(* bound": a consumed row stays consumed.                                  *)
ConsumedForGood ==
    [][\A u \in Rows : jobs[u].rec.to # 0 => jobs'[u].rec.to = jobs[u].rec.to]_vars

Opened(v) == backends[v] = "none" /\ backends'[v] = "new"

(* CACHE 5: "Different refs sharing the same compile key do not start      *)
(* duplicate jobs": no job is opened for a key whose compiled result the   *)
(* serve loop is publishing.                                               *)
NoDuplicateJob ==
    [][\A v \in Uuid : Opened(v) /\ loop.at \in {"publish", "commit"}
                         => jobs'[v].key # jobs[loop.job].key]_vars

(* SPEC 7: "No compiler execution on a valid cache hit".                   *)
NoCompileOnHit == [][\A v \in Uuid : Opened(v) => jobs'[v].key \notin artifacts]_vars

(* submit: "record this ref as an alias so status advances for every alias *)
(* sharing the compile key": nobody is left QUEUED when nothing is queued  *)
(* and no thread is at work.                                               *)
Quiet == /\ phase = "serving" /\ loop = Idle /\ \A t \in Admin : admin[t] \in {Idle, Closed}
         /\ \A u \in Rows : ~Live(u)

NoneLeftQueued == Quiet => \A r \in Ref : refState[r] # "QUEUED"
=============================================================================
