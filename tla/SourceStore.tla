---------------------------- MODULE SourceStore ----------------------------
(***************************************************************************)
(* The content-addressed store of model sources: what prepare writes under *)
(* sources/<sha256>/ and in the registry (cache/store.py, supervisor.py),  *)
(* what a compile reads from there, and what an operator's prune deletes   *)
(* (cache/gc.py), all by threads of one daemon that share no lock but the  *)
(* one that excludes two prunes from each other.  The daemon may die       *)
(* between any two steps.                                                  *)
(*                                                                         *)
(* Recipe and target are fixed, so a digest stands for its compile key.    *)
(* What the bytes of a ref are is its owner's choice at every prepare.     *)
(* Jobs are those of JobManager reduced to what reads and yields bytes.    *)
(***************************************************************************)
EXTENDS Naturals

CONSTANTS
    Ref,         \* model references
    Configured,  \* those of FXDNA_MODELS
    Digest,      \* SHA-256 of sources
    Thread,      \* admin connections
    None,        \* Python None; an absent file, row or thread
    MaxOps       \* bound: prepares and prunes begun

\* A file under its digest's path that does not have all of its bytes.
Partial == "partial"

ASSUME SourceStoreAssumption ==
    /\ Configured \subseteq Ref
    /\ None \notin Ref \cup Digest \cup Thread
    /\ None # Partial /\ Partial \notin Digest
    /\ MaxOps \in Nat

VARIABLES
    dirs,      \* directories sources/<digest>
    disk,      \* the file in each: its content, or None
    tmp,       \* each thread's temporary file in the directory it writes to
    rows,      \* the sources table
    src,       \* model_refs.source_sha256
    pins,      \* the pins table: refs
    job,       \* the compile of each digest
    artifact,  \* the artifacts table: the bytes each was compiled from
    active,    \* digest of the artifact the resident worker serves
    lock,      \* holder of locks/prune.lock
    op,        \* what each thread is doing
    begun      \* how many operations have begun

stored == <<dirs, disk, tmp>>
tables == <<rows, src, pins>>
built  == <<job, artifact, active>>
threads == <<lock, op, begun>>
vars   == <<stored, tables, built, threads>>

Content  == Digest \cup {None, Partial}
Stages   == {"none", "queued", "running", "prepared", "failed"}
JobType  == [stage: Stages, ref: Ref \cup {None}, bytes: Content]
Preparing == {"prev", "mkdir", "look", "verify", "open", "flush", "rename",
              "settle", "row", "bind", "key", "submit"}
Pruning  == {"protect", "lock", "next", "recheck", "remove", "rmdir",
             "delete", "dangling", "clear"}
OpType   == [at: {"idle"} \cup Preparing \cup Pruning,
             ref: Ref \cup {None}, digest: Digest \cup {None},
             flag: BOOLEAN,         \* prepare --refresh, prune --apply
             plan: SUBSET Digest,   \* protected digests, then candidates
             todo: SUBSET Ref]      \* refs a loop has still to look at

Idle == [at |-> "idle", ref |-> None, digest |-> None, flag |-> FALSE,
         plan |-> {}, todo |-> {}]

TypeOK ==
    /\ dirs \subseteq Digest
    /\ disk \in [Digest -> Content]
    /\ tmp \in [Thread -> {None, "part", "whole"}]
    /\ rows \subseteq Digest
    /\ src \in [Ref -> Digest \cup {None}]
    /\ pins \subseteq Ref
    /\ job \in [Digest -> JobType]
    /\ artifact \in [Digest -> Content]
    /\ active \in Digest \cup {None}
    /\ lock \in Thread \cup {None}
    /\ op \in [Thread -> OpType]
    /\ begun \in 0..MaxOps

NoJob == [stage |-> "none", ref |-> None, bytes |-> None]

Init ==
    /\ dirs = {} /\ disk = [d \in Digest |-> None]
    /\ tmp = [t \in Thread |-> None]
    /\ rows = {} /\ src = [r \in Ref |-> None] /\ pins = {}
    /\ job = [d \in Digest |-> NoJob]
    /\ artifact = [d \in Digest |-> None]
    /\ active = None
    /\ lock = None
    /\ op = [t \in Thread |-> Idle]
    /\ begun = 0

----------------------------------------------------------------------------
(* Steps of one thread.                                                    *)

At(t, at) == op[t].at = at
Goto(t, at) == op' = [op EXCEPT ![t].at = at]
Done(t) == op' = [op EXCEPT ![t] = Idle]

Begin(t) == /\ At(t, "idle") /\ begun < MaxOps
            /\ begun' = begun + 1

(* prepare: the ref is registered, and pinned when it is configured; its   *)
(* owner's bytes are read.                                                 *)
Prepare(t) ==
    /\ Begin(t)
    /\ \E r \in Ref, d \in Digest, refresh \in BOOLEAN :
         /\ pins' = pins \cup ({r} \cap Configured)
         /\ op' = [op EXCEPT ![t] = [Idle EXCEPT !.at = "prev", !.ref = r,
                                        !.digest = d, !.flag = refresh]]
    /\ UNCHANGED <<stored, rows, src, built, lock>>

(* Fetching or inspection refuses, or the bytes have changed and nobody    *)
(* asked for a refresh (SOURCE_CHANGED).                                   *)
ReadPrev(t) ==
    /\ At(t, "prev")
    /\ \/ Done(t)
       \/ /\ src[op[t].ref] \in {None, op[t].digest} \/ op[t].flag
          /\ Goto(t, "mkdir")
    /\ UNCHANGED <<stored, tables, built, lock, begun>>

MakeDir(t) ==
    /\ At(t, "mkdir")
    /\ dirs' = dirs \cup {op[t].digest}
    /\ Goto(t, "look")
    /\ UNCHANGED <<disk, tmp, tables, built, lock, begun>>

Look(t) ==
    /\ At(t, "look")
    /\ Goto(t, IF disk[op[t].digest] = None THEN "open" ELSE "verify")
    /\ UNCHANGED <<stored, tables, built, lock, begun>>

(* The file that was there has other content, or is no longer there.       *)
Verify(t) ==
    /\ At(t, "verify")
    /\ IF disk[op[t].digest] = op[t].digest THEN Goto(t, "row") ELSE Done(t)
    /\ UNCHANGED <<stored, tables, built, lock, begun>>

\* Mutant: the temporary file is renamed as it is opened, then written.
OpenRenamed(t) ==
    /\ At(t, "open")
    /\ IF op[t].digest \in dirs
       THEN tmp' = [tmp EXCEPT ![t] = "part"] /\ Goto(t, "rename")
       ELSE tmp' = tmp /\ Done(t)
    /\ UNCHANGED <<dirs, disk, tables, built, lock, begun>>

(* atomic_write, one system call at a time; each raises when a prune has   *)
(* removed the directory under it.                                         *)
OpenTmp(t) ==
    /\ At(t, "open")
    /\ IF op[t].digest \in dirs
       THEN tmp' = [tmp EXCEPT ![t] = "part"] /\ Goto(t, "flush")
       ELSE tmp' = tmp /\ Done(t)
    /\ UNCHANGED <<dirs, disk, tables, built, lock, begun>>

Flush(t) ==
    /\ At(t, "flush")
    /\ tmp' = [tmp EXCEPT ![t] = IF @ = None THEN None ELSE "whole"]
    /\ Goto(t, "rename")
    /\ UNCHANGED <<dirs, disk, tables, built, lock, begun>>

Rename(t) ==
    /\ At(t, "rename")
    /\ IF tmp[t] = None
       THEN disk' = disk /\ Done(t)
       ELSE /\ disk' = [disk EXCEPT ![op[t].digest] =
                           IF tmp[t] = "whole" THEN op[t].digest ELSE Partial]
            /\ Goto(t, "settle")
    /\ tmp' = [tmp EXCEPT ![t] = None]
    /\ UNCHANGED <<dirs, tables, built, lock, begun>>

SyncDir(t) ==
    /\ At(t, "settle")
    /\ IF op[t].digest \in dirs THEN Goto(t, "row") ELSE Done(t)
    /\ UNCHANGED <<stored, tables, built, lock, begun>>

AddSource(t) ==
    /\ At(t, "row")
    /\ rows' = rows \cup {op[t].digest}
    /\ Goto(t, "bind")
    /\ UNCHANGED <<stored, src, pins, built, lock, begun>>

(* An imported artifact ends here; it is not compiled.                     *)
BindRef(t) ==
    /\ At(t, "bind")
    /\ src' = [src EXCEPT ![op[t].ref] = op[t].digest]
    /\ Done(t) \/ Goto(t, "key")
    /\ UNCHANGED <<stored, rows, pins, built, lock, begun>>

(* The cache answers, the scratch preflight refuses, or a job is submitted.*)
LookUp(t) ==
    /\ At(t, "key")
    /\ Done(t) \/ (artifact[op[t].digest] = None /\ Goto(t, "submit"))
    /\ UNCHANGED <<stored, tables, built, lock, begun>>

(* submit joins a live job and answers with a prepared one or a failure    *)
(* that sticks; otherwise it opens a job for this ref and these bytes.     *)
Submit(t) ==
    LET d == op[t].digest IN
    /\ At(t, "submit")
    /\ \/ /\ \/ job[d].stage \in {"queued", "running", "failed"}
             \/ artifact[d] # None
          /\ job' = job
       \/ /\ \/ job[d].stage \in {"none", "failed"}
             \/ job[d].stage = "prepared" /\ artifact[d] = None
          /\ job' = [job EXCEPT ![d] = [stage |-> "queued", ref |-> op[t].ref,
                                        bytes |-> None]]
    /\ Done(t)
    /\ UNCHANGED <<stored, tables, artifact, active, lock, begun>>

PrepareStep(t) ==
    \/ Prepare(t) \/ ReadPrev(t) \/ MakeDir(t) \/ Look(t) \/ Verify(t)
    \/ OpenTmp(t) \/ Flush(t) \/ Rename(t) \/ SyncDir(t) \/ AddSource(t)
    \/ BindRef(t) \/ LookUp(t) \/ Submit(t)

----------------------------------------------------------------------------
(* Compiles and activations.                                               *)

\* Mutant: what the job's ref points at when the compile starts.
SourceOfRef(d) == src[job[d].ref]

(* Whose bytes the compile of a digest reads: those bound to its job.      *)
SourceOf(d) == d

(* The compile thread copies its source before anything else; without it   *)
(* the thread dies and the next poll fails the job.                        *)
CompileStarts(d) ==
    /\ job[d].stage = "queued"
    /\ job' = [job EXCEPT ![d] =
                  IF SourceOf(d) # None /\ disk[SourceOf(d)] # None
                  THEN [@ EXCEPT !.stage = "running",
                                 !.bytes = disk[SourceOf(d)]]
                  ELSE [@ EXCEPT !.stage = "failed"]]
    /\ UNCHANGED <<stored, tables, artifact, active, threads>>

CompileEnds(d) ==
    /\ job[d].stage = "running"
    /\ \/ /\ job' = [job EXCEPT ![d].stage = "failed", ![d].bytes = None]
          /\ artifact' = artifact
       \/ /\ job' = [job EXCEPT ![d] = [NoJob EXCEPT !.stage = "prepared"]]
          /\ artifact' = [artifact EXCEPT ![d] =
                             IF @ = None THEN job[d].bytes ELSE @]
    /\ UNCHANGED <<stored, tables, active, threads>>

(* A retry is refused for good when the row or the bytes are gone.         *)
Retry(d) ==
    /\ job[d].stage = "failed"
    /\ d \in rows /\ disk[d] # None
    /\ job' = [job EXCEPT ![d].stage = "queued"]
    /\ UNCHANGED <<stored, tables, artifact, active, threads>>

(* An activation inspects the source again: without it, or when the worker *)
(* refuses the artifact, it inhibits and the worker before stays.          *)
Activate(d) ==
    /\ artifact[d] # None /\ disk[d] = d
    /\ active' = d
    /\ UNCHANGED <<stored, tables, job, artifact, threads>>

WorkerLost ==
    /\ active # None
    /\ active' = None
    /\ UNCHANGED <<stored, tables, job, artifact, threads>>

----------------------------------------------------------------------------
(* prune.  The plan: digests of pinned refs are protected; the row of the  *)
(* active model names no ref, so its lookup adds nothing.                  *)

Plan(t) ==
    /\ Begin(t)
    /\ \E apply \in BOOLEAN :
         op' = [op EXCEPT ![t] = [Idle EXCEPT !.at = "protect", !.flag = apply,
                                              !.todo = pins]]
    /\ UNCHANGED <<stored, tables, built, lock>>

Protect(t) ==
    /\ At(t, "protect")
    /\ \E r \in op[t].todo :
         op' = [op EXCEPT ![t].todo = @ \ {r},
                          ![t].plan = @ \cup ({src[r]} \cap Digest)]
    /\ UNCHANGED <<stored, tables, built, lock, begun>>

(* A dry run ends with the list of candidates.                             *)
Candidates(t) ==
    /\ At(t, "protect") /\ op[t].todo = {}
    /\ IF op[t].flag
       THEN op' = [op EXCEPT ![t].at = "lock", ![t].plan = dirs \ @]
       ELSE Done(t)
    /\ UNCHANGED <<stored, tables, built, lock, begun>>

TakeLock(t) ==
    /\ At(t, "lock") /\ lock = None
    /\ lock' = t
    /\ Goto(t, "next")
    /\ UNCHANGED <<stored, tables, built, begun>>

\* Mutant: the pins are those the plan was made with.
Next1Planned(t) ==
    /\ At(t, "next")
    /\ \E d \in op[t].plan :
         IF d \in rows
         THEN op' = [op EXCEPT ![t].at = "recheck", ![t].digest = d,
                               ![t].plan = @ \ {d}, ![t].todo = {}]
         ELSE op' = [op EXCEPT ![t].plan = @ \ {d}]
    /\ UNCHANGED <<stored, tables, built, lock, begun>>

(* The next candidate that has a row, with the pins as they are now.       *)
Next1(t) ==
    /\ At(t, "next")
    /\ \E d \in op[t].plan :
         IF d \in rows
         THEN op' = [op EXCEPT ![t].at = "recheck", ![t].digest = d,
                               ![t].plan = @ \ {d}, ![t].todo = pins]
         ELSE op' = [op EXCEPT ![t].plan = @ \ {d}]
    /\ UNCHANGED <<stored, tables, built, lock, begun>>

Recheck(t) ==
    /\ At(t, "recheck")
    /\ \E r \in op[t].todo :
         op' = [op EXCEPT ![t].todo = IF src[r] = op[t].digest THEN {}
                                                                ELSE @ \ {r},
                          ![t].at = IF src[r] = op[t].digest THEN "next" ELSE @]
    /\ UNCHANGED <<stored, tables, built, lock, begun>>

Unpinned(t) ==
    /\ At(t, "recheck") /\ op[t].todo = {}
    /\ Goto(t, "remove")
    /\ UNCHANGED <<stored, tables, built, lock, begun>>

(* rmtree: the files it finds, temporary ones of writers among them ...    *)
(* One that a writer renamed after the listing ends it with an error that  *)
(* apply_prune takes for a directory already gone.                         *)
Remove(t) ==
    LET d == op[t].digest IN
    /\ At(t, "remove")
    /\ \/ /\ disk' = [disk EXCEPT ![d] = None]
          /\ tmp' = [u \in Thread |-> IF op[u].digest = d THEN None ELSE tmp[u]]
          /\ Goto(t, "rmdir")
       \/ /\ \E u \in Thread : At(u, "settle") /\ op[u].digest = d
          /\ UNCHANGED <<disk, tmp>>
          /\ Goto(t, "delete")
    /\ UNCHANGED <<dirs, tables, built, lock, begun>>

(* ... then the directory; one that a writer has filled again ends the     *)
(* prune with an error.                                                    *)
RemoveDir(t) ==
    LET d == op[t].digest IN
    /\ At(t, "rmdir")
    /\ IF disk[d] = None /\ \A u \in Thread : tmp[u] = None \/ op[u].digest # d
       THEN dirs' = dirs \ {d} /\ lock' = lock /\ Goto(t, "delete")
       ELSE dirs' = dirs /\ lock' = None /\ Done(t)
    /\ UNCHANGED <<disk, tmp, tables, built, begun>>

DeleteRow(t) ==
    /\ At(t, "delete")
    /\ rows' = rows \ {op[t].digest}
    /\ Goto(t, "dangling")
    /\ UNCHANGED <<stored, src, pins, built, lock, begun>>

Dangling(t) ==
    /\ At(t, "dangling")
    /\ op' = [op EXCEPT ![t].at = "clear",
                        ![t].todo = {r \in Ref : src[r] = op[t].digest}]
    /\ UNCHANGED <<stored, tables, built, lock, begun>>

Clear(t) ==
    /\ At(t, "clear")
    /\ \E r \in op[t].todo :
         /\ src' = [src EXCEPT ![r] = None]
         /\ op' = [op EXCEPT ![t].todo = @ \ {r}]
    /\ UNCHANGED <<stored, rows, pins, built, lock, begun>>

(* On to the next candidate, unless max_bytes have been freed.             *)
Cleared(t) ==
    /\ At(t, "clear") /\ op[t].todo = {}
    /\ \E plan \in {op[t].plan, {}} :
         op' = [op EXCEPT ![t].at = "next", ![t].plan = plan]
    /\ UNCHANGED <<stored, tables, built, lock, begun>>

Pruned(t) ==
    /\ At(t, "next") /\ op[t].plan = {}
    /\ lock' = None
    /\ Done(t)
    /\ UNCHANGED <<stored, tables, built, begun>>

PruneStep(t) ==
    \/ Plan(t) \/ Protect(t) \/ Candidates(t) \/ TakeLock(t) \/ Next1(t)
    \/ Recheck(t) \/ Unpinned(t) \/ Remove(t) \/ RemoveDir(t) \/ DeleteRow(t)
    \/ Dangling(t) \/ Clear(t) \/ Cleared(t) \/ Pruned(t)

----------------------------------------------------------------------------
(* The daemon dies and comes back: its threads, locks and worker are gone, *)
(* its jobs are interrupted, and nothing looks at sources/.                *)
Restart ==
    /\ op' = [t \in Thread |-> Idle] /\ lock' = None
    /\ tmp' = [t \in Thread |-> None]
    /\ job' = [d \in Digest |->
                 IF job[d].stage \in {"queued", "running"}
                 THEN [job[d] EXCEPT !.stage = "failed", !.bytes = None]
                 ELSE job[d]]
    /\ active' = None
    /\ UNCHANGED <<dirs, disk, tables, artifact, begun>>

Next ==
    \/ \E t \in Thread : PrepareStep(t) \/ PruneStep(t)
    \/ \E d \in Digest : \/ CompileStarts(d) \/ CompileEnds(d) \/ Retry(d)
                         \/ Activate(d)
    \/ WorkerLost
    \/ Restart

Spec == Init /\ [][Next]_vars

----------------------------------------------------------------------------
(* Properties.                                                             *)

(* A file is under a digest's path only with that digest's content,        *)
(* wherever the process died and however many threads write the same       *)
(* bytes: "identical bytes map to the same path" (store.py:88), and the    *)
(* next ingestion trusts what it finds.                                    *)
WholeBytes == \A d \in Digest : disk[d] \in {None, d}

(* An artifact is compiled from the bytes its key names, also when its ref *)
(* has moved on to newer ones before the compile or a retry of it starts   *)
(* (supervisor.py:297-301).                                                *)
OwnBytes == \A d \in Digest : artifact[d] \in {None, d}

(* A prune is past its check of the pins for these bytes without having    *)
(* seen that this ref pins them.                                           *)
Doomed(t, r, d) ==
    /\ op[t].digest = d
    /\ \/ At(t, "remove")
       \/ At(t, "recheck") /\ r \notin op[t].todo

Secure(r, d) ==
    /\ r \in pins /\ src[r] = d /\ disk[d] = d
    /\ \A t \in Thread : ~Doomed(t, r, d)

(* Bytes of a pinned ref stay on disk for as long as the ref points at     *)
(* them, whatever prunes were planned before the ref was pinned or bound;  *)
(* only a prune already past its check when the ref was bound still        *)
(* removes them (gc.py:78-86).                                             *)
PinnedStay ==
    [][\A r \in Ref, d \in Digest :
          Secure(r, d) /\ src'[r] = d => Secure(r, d)']_vars

(* gc.py:25-26: "Protected: anything reachable from pins, the active ref,  *)
(* running jobs".  No plan has the source of the model that serves among   *)
(* its candidates.                                                         *)
ActiveProtected ==
    [][\A t \in Thread :
          At(t, "protect") /\ op'[t].at = "lock" => active \notin op'[t].plan]_vars

(* gc.py:96-97: "so status can never report a missing source as present".  *)
(* Outside a prune, a row of the sources table has its file.               *)
NoneMissing ==
    (\A t \in Thread : op[t].at \notin Pruning) => \A d \in rows : disk[d] # None

(* models/refs.py:6-8: changed bytes under a ref are "never a silent       *)
(* in-place mutation": only a refresh moves a ref to other bytes.          *)
NoSilentChange ==
    [][\A r \in Ref : src[r] # None /\ src'[r] \notin {None, src[r]} =>
          \E t \in Thread : At(t, "bind") /\ op[t].flag]_vars

(* gc.py:96: "clear dangling ref pointers".  A prune clears no pointer to  *)
(* bytes that are there.                                                   *)
OnlyDanglingCleared ==
    [][\A r \in Ref : src[r] # None /\ src'[r] = None => disk[src[r]] = None]_vars
=============================================================================
