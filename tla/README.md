# frigate-xdna in TLA+

`fxdna` is a daemon that prepares object-detection models for an AMD XDNA NPU and serves
them to stock Frigate clients. It fetches or is sent a model, compiles it in a child process
(minutes, under a deadline), keeps sources and compiled artifacts in a content-addressed
cache with an SQLite registry, and keeps one resident native worker process that owns the
NPU and answers inference requests. This directory specifies and checks the parts of it in
which threads, processes, deadlines and deaths meet. Paths below are those of the repository
(`src/src/frigate_xdna/` is written `F/`).

Files: `*.tla` without suffix are specifications; `*MC.tla` instantiate them for TLC
(symmetry sets, larger constants); `*_proof.tla` hold the theorems; `<part>_<question>.cfg`
are the runs, `<part>_documents.cfg` the claims of the documents that the code does not keep
(section 5). `PROJECT.json` lists the components, the twelve regular runs, the line-by-line
map from definitions to source, the mutants that show each property can fail, the findings,
the hazards and the theorems.

```
tlc -workers 4 -config jobs_core.cfg JobManagerMC.tla
tlapm JobManager_proof.tla
```

`jobs_*` belongs to JobManagerMC, `worker_*` to ResidentWorkerMC, `front_*` to FrontendMC,
`store_*` to SourceStoreMC, `artifact_*` to ArtifactStoreMC, `stability_*` to StabilityMC and
`console_*` to ConsoleMC.

## 1. The system

| Component | Source | State it keeps | Operations | Talks to |
|---|---|---|---|---|
| Job manager | `F/compiler/jobs.py`, `F/compiler/real.py` | `jobs`, `job_aliases` rows; `_backends` in memory | submit, join, resume, requeue, pump, finish | registry, launcher, retry policy |
| Retry policy | `F/retry_policy.py` | none (`failure_json` of a row) | classify, auto_eligible | job manager, reconciliation |
| Registry | `F/cache/registry.py` | SQLite tables: refs, sources, pins, artifacts, jobs, aliases, service_state | each statement autocommits; `exclusive` transactions | everybody |
| Artifact and source store | `F/cache/store.py`, `F/cache/keys.py` | `sources/`, `artifacts/`, `work/`, `quarantine/` | ingest, publish, quarantine, recover | supervisor, launcher |
| Prune | `F/cache/gc.py` | `locks/prune.lock` | plan, apply | store, registry |
| Supervisor, preparation | `F/supervisor.py` | none of its own beyond the above | prepare, pump, publish, wait, recover, reconcile at start | all of the above |
| Supervisor, resident worker | `F/supervisor.py` | `_worker`, `_worker_compile_key`, `_worker_generation`, `_orphans`, `_worker_lock` | activate_worker, worker_infer, drop, retire, stop | native worker, registry, safety |
| Native worker IPC | `F/runtime/native.py`, `ipc.py` | a socketpair and its timeouts | spawn, LOAD, INFER, SHUTDOWN, retire | the child process |
| Native worker process | `src/native/src/main.cpp`, `protocol.cpp` | the loaded model and its generation | message loop | the NPU |
| ZMQ frontend | `F/transport/frigate_zmq.py` | queue, `_generation`, `_active_artifact`, counters | receive, model request, transfer, activate, infer | sessions, supervisor, device lease |
| Session table | `F/transport/sessions.py` | bindings, superseded artifacts | bind, touch, invalidate, is_quiescent | frontend |
| Compiler launcher | `F/compiler/launcher.py`, `fake.py` | the launcher lock, scratch directories, child processes | run_compile, probe_artifact | device lease, vendor compiler |
| Device lease | `F/runtime/device_lease.py` | `device.lock` (flock) | try, acquire, release | frontend, probe |
| Safety | `F/runtime/safety.py` | `service_state["inhibition"]`, an operation journal | inhibit, clear | supervisor, job manager |
| Admin server | `F/admin.py` | `control.sock`; one thread per request | bind, accept, answer, shut | supervisor, the CLI of other processes |
| Command line, serve loop | `F/cli.py` | `locks/manager.lock`; one process per invocation | serve; prepare, activate, recover, prune, wait, over the socket or standalone | admin server, supervisor |
| Status projection | `F/model_view.py` | none | the ranked state of a ref, the wait predicate | registry, CLI |
| Stability runner and journal | `F/stability_runner.py`, `F/observability/stability.py` | `stability/<run>/`: metadata, timeline, checkpoint, result, acknowledgement | run, report, acknowledge | supervisor, host |
| Plus client, model inspection, host checks, tools | `F/plus/`, `F/models/`, `F/observability/`, … | none | — | supervisor |

How they run: one process with (a) the serve loop, which every round calls
`Supervisor.pump` (resume what is due, poll every live job, publish what is compiled); (b) an
admin server with one thread per request; (c) one compile thread per job, serialised by the
launcher's lock, each starting child processes; (d) an asyncio frontend with a receiving task
and one worker task, which sends activations and inferences to threads; (e) the resident
worker, another process at the end of a socketpair. Other invocations of `fxdna` are processes of
their own: they call (b) when a daemon answers, and otherwise take `manager.lock` and are, for one
command, the supervisor themselves; a stability run always is. SQLite statements are atomic,
handlers are not; `_worker_lock` serialises everything about the resident worker; there is no lock around
`prepare` or the prune but its own. The process may be killed at any point and comes back by
`store.recover` and `_reconcile_jobs`.

What makes each part correct, in a line:

* jobs: one compile per key and one at a time; a bounded chain of attempts, each the successor
  of one row; nothing resumes under an inhibition; every job ends and none is forgotten; every ref
  that joined follows; the table is a log of attempts that is not rewritten;
* publication: a registry row is never ahead of its directory;
* artifact cache: a row describes the bytes under its key; no remnant wedges a key; recovery
  converges; a usable artifact is lost only where two prepares overlap;
* source store: bytes under a digest are that digest's bytes; compiles read the bytes their
  key names; what is pinned stays;
* resident worker: no child is lost; the fields, the process and the published row agree; a
  switch leaves no gap; answers come from the model that serves; the lock is given back;
* frontend: one reply per request; bindings belong to the active artifact; no result of another
  model; a switch only while the old model is quiescent;
* processes: one writer of the registry at a time; a daemon that serves can be reached; a stopped
  one frees the directory; success is reported only of what was done;
* stability journal: a reset during a device operation can be located; a run that ended badly is
  shown so until somebody has looked; PASS is earned; nothing escalates after a stop or a failure.

Hard to test, in general: the interleavings of (a)–(e) above, state read before an `await` or
between two statements and used after it, deadlines that cut an exchange, and deaths between
two writes. `PROJECT.json` "hazards" lists them line by line with the properties they led to.

## 2. The modules

### RetryPolicy — `F/retry_policy.py`, `jobs.py:264-286`
Operators only: `Classify`, `AutoEligible`, `OperatorEligible` over a record
`[kind, due, to, refused]` that stands for `failure_json`. Vendor text is reduced to the
evidence it matches, backoff to one bit (`due`). The NULL/non-NULL distinction is kept, as two
SQL conditions depend on it.

### JobManager — jobs, serve loop, admin threads, compile threads, restarts
One action is one registry transaction, or one autocommitted write another thread can see.

| State | Code |
|---|---|
| `jobs`, `aliases`, `artifacts`, `refState`, `refSource`, `inhibition` | registry tables and rows |
| `dirs`, `sources`, `workdirs` | directories under `artifacts/`, `sources/`, `work/` |
| `backends`, `lockOwner` | `JobManager._backends`, the launcher's `_compile_lock` |
| `loop`, `admin`, `phase` | program counters: serve loop, admin threads, start-up |
| `memlock`, `boot`, `restarts` | what a new container or boot of the host may change |

Actions: `Ingest` … `PrepareDone` are `prepare`, split where another thread may come in;
`Submit` is `JobManager.submit`'s one transaction with all of its branches; `WaitRead`/`WaitMark`
`wait_job`; `RecoverClear`/`RecoverRequeue` `recover_ref`; `RetryDue`, `Poll`, `RecordTerminal`,
`PublishRename`, `PublishFails`, `RecordUnpublished`, `PublishCommit`, `MarkPrepared` one round of
`pump`; `Acquire`, `FindBusy`, `Finish` a compile thread; `Restart` a death, then
`RecoverScratch`, `Adopt`, `ReconcileLive`, `ReconcileUnrecorded`, `Serve` the start-up. A row's
uuid is its position, so `created` order is the order of positions. A compile key stands for the
source bytes it is computed from.

### JobHistory — what the jobs table tells whoever reads it
The abstract specification of the jobs table: a log of attempts. An attempt is started, may be joined
by refs while it is open, fails once or is prepared, is classified once, and may be followed by one for
the same ref and bytes, unless it failed for good or an inhibition stands. `JobManager` implements it
(`KeepsHistory`) with `log = Log`: a live row is open; a PREPARED one is "publishing" while the serve loop
stands between its test and its commit (`Publishing`), since only there it may still be withdrawn; every
other stage is failed. A row without a record and one whose record has no kind both count as not
classified, and whether a record is due or was refused is not told. The mapping uses no history variable.

### SourceStore — ingestion, binding, pruning
One action is one system call or one registry statement. It unfolds what JobManager's `Ingest`
and `Prune` do in one step: the directory, the temporary file, its fsync and rename, the row, the
ref; and the plan of a prune, its lock, its second look at the pins, the removal of the files and
then of the directory, the row, the refs. Jobs are reduced to what reads bytes
(`CompileStarts`) and what yields an artifact. Recipe and target are fixed, so a digest stands for
its compile key. Temporary files that a death leaves behind are not tracked: nothing reads them, and
the next removal of their directory takes them with it.

### ArtifactStore and ArtifactCache — the cache of compiled artifacts
ArtifactStore unfolds what JobManager's `Publish…` actions do to a directory: each test of a
directory and each rename is a step. The serve loop's `_publish_result` is the program counter `pub`
(`PubLook` … `PubProbe`); a prepare on an admin thread is `Look`, `BackendOk`, `IsDir`, `Aside`,
`ForgetRow`, `Submit`, where the four in the middle are `_ingest_source`'s check of the backend and
`_invalidate_artifact`; an activation is `Inspect`, `Load`, `RecordCheck`. `Die`, `Start`,
`RecoverKey` and `Serve` are a death and `store.recover`, by a process whose backend may be another
one. A directory holds its bytes and what its manifest says of them, a digest and a backend; publication
writes them equal, and `Damage`, the environment, changes the bytes afterwards, so that `Whole` is what
recovery's hash tells. A job is reduced to how many failed rows a key has and whether one is live.
ArtifactCache is what the cache promises whoever works on it: directories appear whole under keys
that have neither directory nor row, are never changed in place, and are described once. The
refinement mapping is `entry = dirs` by manifest (`Content`: what rots is outside the promise), `described =
rows` (`NeverInPlace`).

### Stability — the diagnostic run and its journal
One run is a process `Invoke` … `Stop`: the latch (`_check_latch`, before the lock), the lock, the name of
the run, its metadata, the phases E0 to H3 with their `STARTED`/terminal records, the checkpoint, the
result, the last record, the retirement, the release. Each durable write is one action, so `Kill` and
`HostReset` fall between any two. The journal is a function of the run; `OpenOps`, `Interrupted`,
`Position` and `Latest` are the functions of `observability/stability.py` that report and the latch
compute from it. Device operations are reduced to how they end (`Activated`, `Answered`): well, too late,
or with an error, and possibly with a safety inhibition. `Raise` is a durable write, or an unguarded call of the
supervisor, that raises, the checkpoint after the load included; the run then goes to its last checkpoint.
`Acknowledge` writes for any run that reads interrupted, also one that goes on.

### Console and StatusView — the processes around a data directory
Daemons start (`TakeLock`, `Recover`, `Unlink`, `Bind`, `Listen`), serve, stop (`Signal`, `Retire` … `Exit`, the
order of `Supervisor.stop`) and are killed; handler threads (`Accept`, `Handle`) outlive the accept loop
and end with the process. A daemon whose accept loop ends by an exception removes its socket and goes on
without it (`AcceptFails`, state "deaf"). An invocation looks for a daemon (`Invoke`; a prepare may be told to
go `--standalone`), calls it (`Call`, `Reply`,
`CallTimeout`, `Poll`), reads the registry (`Read`) or owns the directory (`Own`, `PerformAlone`, `SelfWait`,
`CloseAlone`, `Release`), and ends with an exit code. `lock`, `sock` and the span in which the registry is
open are the shared state; `done` records whether the command was carried out. Preparation is one reference
with a few revisions, whose jobs and worker are JobManager's and ResidentWorker's; StatusView gives the
ranked state and the wait predicate that `Poll` and `Read` apply to it. A run begins with whatever earlier
processes may have left in the registry (`Left`).

### ResidentWorker and WorkerService — the worker and what it promises
`_worker_lock` makes the daemon side sequential, so one record `op` is its program counter;
children (`Take`, `ChildFails`) run beside it, over two streams of messages each. Deadlines are
faults: `Timeouts` says which kinds may happen — a late reply (`recv`), a deadline inside a reply
(`mid`), no budget left (`zero`), a deadline inside a request (`send`). A cut stream holds a
"partial" element; `TakePartial` is what the child makes of it. A process that ends, or a socket that is
closed, takes with it what nobody read (`Ends`, `RetireSend`). `WorkerService` is the abstract
service the frontend relies on: an atomic switch, and one answer per request by the model that
serves. `ResidentWorker` refines it (`ServesAsPromised`) under the mapping
`serving = IF a switch is not yet published THEN old key ELSE _worker_compile_key`.

### Frontend — the ZMQ frontend over the worker's service
It composes with `WorkerService` (INSTANCE), which the worker is proved to implement
(`Implements` in ResidentWorker_proof). Clients are routing identities with one request
under way (REQ sockets). The worker task's `await` points are the states of `loop`
(`activating`, `refused`, `activated`, `infer`); administrative activations, probes by compiles
and the passing of the quiescence interval happen in between. Malformed envelopes are one reply of
the receiving task and are left out.

## 3. The runs

| Run | Question | Bounds |
|---|---|---|
| `jobs_core` | do rows, successors, attempts and aliases stay consistent, and does no live row lack somebody to move it, under every interleaving of two admin threads, the loop, compiles and one death | 2 refs, 2 keys, 4 rows, 1 restart |
| `jobs_faults` | the same with inhibitions, prunes, memlock failures: publication, inhibition, history, refinement of JobHistory | 2 refs (one configured), an ordinary inhibition by the one and a safety one by the other, 1 key, 3 rows, 1 restart |
| `jobs_live` | does every queued job end and every due retry open | 1 ref, 2 keys, 2 rows, 1 restart |
| `worker_core` | swap, roll back, lose, recover without deadlines, with hanging children and a failing registry: references, identity, no gap, refinement of WorkerService | 2 keys, 3 children, 2 frames |
| `worker_timeouts` | the same with all four kinds of deadline, an exchange after each, a failing registry, a stop or death: refinement of WorkerService, and every holder of `_worker_lock` gives it back | 2 keys, 2 children, 2 frames, 1 death |
| `front_core` | one reply, bindings, right model, quiet switch, with a raising ingestion | 3 clients, 2 models, queue of 2, 2 switches, 2 inferences |
| `front_live` | is every request answered, with administrative activations and a raise after the swap | 2 clients, 2 models |
| `store_core` | whole bytes, own bytes, pins, beside prunes and deaths | 2 refs, 2 digests, 2 threads, 4 operations |
| `artifact_core` | rows, remnants, recovery of what is whole and of what has rotted, losses, refinement of ArtifactCache | 1 key, 2 contents, 2 backends, 3 threads, 5 operations, 3 compiles, 2 deaths |
| `stability_core` | breadcrumbs, results, PASS, escalation and the latch under kills and host resets | 2 runs in full and a third beside them (`Bounded`), 2 inferences, 3 names |
| `console_core` | one writer, reachable daemons, also beside failing servers, honest success; does a stopped daemon free the directory | 2 daemons, 1 command, 2 revisions, 1 kill |
| `worker_late` | a finding, see section 5 | 2 keys, 2 children, 2 frames |

Why these bounds suffice for what they are meant to show. *Jobs*: duplicates, a resume beside a
submit and a late alias need two refs, two threads and one key; a second key shows that keys do
not disturb each other and that the launcher lock is shared; four rows hold a chain of three
attempts (`MAX_ATTEMPTS`) and a fresh one. *Worker*: a switch needs an old and a new child, the
third is the one launched after an orphan; two frames let an answer be taken for the other's; with deadlines the second follows every cut or late
first one, by the same model or, after a swap, by the other. *Frontend*: an
in-use refusal, a bind and a switch need two clients of different models, a third fills the
queue of two. *Store*: two threads make two writers, a writer beside a prune, and two prunes; the
proofs below cover any number. *Artifacts*: keys do not interact, so one is enough; two contents let one of them rot into the other; three threads are two
prepares that overlap beside an activation; three compiles and two deaths let a foreign artifact be
replaced and its replacement be met by the recovery of either backend. *Stability*: the latch looks at the latest of
the runs before, and it takes three to hide an interrupted one behind another; the third joins (`Bounded` in
StabilityMC, a state constraint) runs that like it get no further than their first activation, without a signal
and with the smoke profile, which is where the latch has done its part; as long as one of the three is not
invoked nothing is constrained, so two runs go through all phases. Three names put three runs in order, two
of them in one second if they like; two inferences let the first be late and the second be good. *Console*: two daemons make the one that stops and the one that starts, one
command meets both; two revisions tell the prepared one from the current one. Two commands at a time were
checked for the three invariants, and the proof covers any number. The type invariants of all
modules but Frontend are proved (section 4) and not run again. Constants of one element (`jobs_live`'s ref) are where
temporal checking forbids symmetry and the property is about a single row.
`CHECK_DEADLOCK FALSE` is in every configuration because the bounds on rows, frames, requests and
deaths make the bounded system stop; a program that waits for ever where it should go on is what
`jobs_live`, `worker_timeouts`, `front_live` and `console_core` are for.

### Fairness
* `jobs_live`: `cmd_serve` calls `pump` for ever and every round scans every live row and every
  due row (`Poll`, `RetryDue`, and the publication that follows); compile threads run their
  phases under deadlines (`Finish`); wall-clock time passes (`BackoffElapses`); a thread between the
  two writes of a cache hit goes on; a start-up goes through. Weak fairness on each. Requests,
  prunes, inhibitions and deaths are not fair.
* `worker_timeouts`: the thread that holds `_worker_lock` runs (`HolderStep`) and a live child reads its
  stream (`Take`). A child that hangs never does; then deadlines bound the exchange.
* `front_live`: the event loop runs the worker task when it can run (`LoopStep`). Whatever it
  awaits has a deadline, so the steps that end an activation or an inference belong to it.
* `console_core`: the steps of a daemon that starts or stops, and those of an invocation, are a running
  program's. `Retire` waits for `_worker_lock`, which `LockReleased` shows is given back. Nobody has to
  invoke, stop or kill, and no handler has to answer: `StopFrees` holds beside requests that never end.

## 4. The proofs

All hold for every value of the constants under the modules' named assumptions
(`JobManagerAssumption`, `ResidentWorkerAssumption`, `FrontendAssumption`, `SourceStoreAssumption`, `ArtifactStoreAssumption`,
`StabilityAssumption`, `ConsoleAssumption`: typing of the constants, that `None` is none of the others, and
that daemons and invocations are different processes). Nothing is assumed about finiteness, so no bound of a run enters.

**JobManager_proof** — `TypeCorrect`, `OneCompile`, `Committed`, `Budget`.
`TypeInv` adds to the types that every program counter names an existing row (`JobsNamed`).
`OneCompilePerKey` is not inductive: the guards of submit, retry_due and requeue look at the stages
of rows, the property at backends. `CompileInv` ties them: a compiling row is live (`LiveCompile`), so
the test `LiveFor(k) = {}` excludes every compile of the key; the writes that end a row without asking
for its stage (the loop's, the second half of a cache hit) name rows whose backend is over
(`EndedNamed`); `lockOwner` names the one running backend (`OneOwner`); and a process that starts
has no threads yet (`StartsEmpty`), so that interrupting live rows interrupts no compile. *Committed*
(`DiskInv`) needs what the loop holds between rename and row: at "commit" the directory of the
job's key is there. *Budget* rests on every opened row having either the number 1 or one more than
that of a row `AutoEligible` has accepted.

**JobHistory_proof** — `Chains`, `Aliases`, `NoneLost`, `NoneResumed`, `EndsStand`, `HistoryKept`; over the
invariants of JobManager_proof. Two things carry it. `SettledInv` is the inductive part: a live row is not
classified and has no successor (`LiveOpen`); what the serve loop has in hand is over and may still end the
way it is about to write (`LoopHolds`), and so is the row of the second half of a cache hit (`HitHolds`); an
unused uuid has no backend (`Unused`). `TableStep` is the step part: every step either leaves the old rows
to themselves but for an end, a classification or a join (`Plain`), or gives one row its successor
(`Resumes`). *Chains* and *Aliases* follow from the two by cases on `TableStep`: a row with a successor is
not live, so nobody joins it after its refs were carried over; *EndsStand* and *NoneResumed* are read off
the step. *NoneLost* shows of each step that it takes no live row out of the hands it is in (`InHand`): a
backend that `pump` will poll, or an admin thread that has the second write of a cache hit before it; `pump`
returns a live row without a backend as it is, so nothing else would move it. *HistoryKept* maps the steps:
a submission, with an artifact or without, is `Start`; one that finds a live row `Join`; the second write of
a hit, a compile that polls as done, the rename of its directory and a death before that `Progress`; a
compile that polls as failed, a publication withdrawn and an interruption `Fail`; the record of a failure
`Classify`; a due retry and an operator's recover `Resume`; everything else leaves what is told alone.

**ResidentWorker_proof** — `TypeCorrect`, `NoChildLost`, `IdentityAgrees`, `NoGap`, `Implements`.
None of the properties is inductive: they speak of moments at which nobody holds `_worker_lock`, and
must survive every place at which its holder can fail. `WorkerInv` says what holds in between: what
the holder has in its locals at each of its places (`Shaped`); which processes it may name (`Known`); that no
frame is answered before it is sent (`Sent`); that the worker, the old one during a switch and the new one
during its LOAD have a stream whose messages, read or unread, agree with the fields (`Residents`); that the row
is that of the worker, or of the old one until the switch is published (`Published`); and in whose hands
every live child is (`Tracked`). *Implements* maps the steps: `Publish` is WorkerService's Activate;
a drop, the next step of a stop and the death of the daemon lose the worker; an inference
without a worker, cut short or answered with an error is refused; a good RESULT is the answer; every other step
stutters. That an answer is of the frame asked for is proved of instances without deadlines
(`Orderly`: the stream then holds at most the exchange under way), and WorkerService promises it only for
those; with them it is false, which is what `worker_late` shows.

**Frontend_proof** — `TypeCorrect`, `Bindings`, `RightResults`, `QuietSwitch`, `RepliesOnce`.
*Bindings* (`BindInv`): `BindingsMatch`, and that an activation under way is for the model its
client transferred. It holds with administrative activations and with calls that raise.
*RightResults* is proved from two further assumptions, stated in the theorem: no operator
activates (`~AdminActivates`) and nothing raises after the swap (`"record" \notin Faults`); without
them it is false, which the runs `front_cross` and `front_live` are about. `RightInv` adds that
the model that serves is the active artifact or none until an activation has swapped it, and then the
one that was asked for (`ServingKnown`), and that a client whose inference is under way has a current
binding (`InferBound`). *QuietSwitch*
(`QuietInv`): while an activation awaits, nothing makes the old generation recent again, as only the
awaiting task binds and touches. *RepliesOnce*: `OneReply` counts the requests of a client in the queue and in
hand, and a count does not survive the steps by itself. `ReplyInv` says instead that a client has at most one
place in the queue (`OnceQueued`), never waits while it is served, and is owed one reply exactly when it waits
or is served (`OwedOnce`); the count follows by the theorems on finite cardinalities.

**SourceStore_proof** — `TypeCorrect`, `Whole`, `Own`, `PinnedStays`.
*Whole*: a thread about to rename holds a temporary file that is complete or gone (`Ready`). *Own*: a
running compile holds what it copied, which by *Whole* is its digest's content (`Held`). `StoreInv`
collects these. *PinnedStays* is an action property: from `Secure` — the ref is pinned, bound, its bytes
there, and no prune is past its look at it — every step leads to `Secure` unless it moves the ref;
the case that matters is a prune that begins its recheck, which reads the pins again and so still has
the ref to look at.

**ArtifactStore_proof** — `TypeCorrect`, `RowsTrue`, `NeverWedged`, `RecoveryConverges`, `KeptByTheLone`,
`CacheImplemented`. *RowsTrue* needs what the publisher knows between its steps: from its test of the
directory on, its key has neither directory nor row, and between rename and row the directory, unless a
prepare moved it aside, has the manifest of what was staged, whatever rots. That no prepare can describe a key is what makes it inductive:
prepares only take away. *RecoveryConverges* is an action property over `Passed`: what recovery has passed stays
described until it serves, as nothing else runs then but decay. *KeptByTheLone* rests on a prepare that runs alone having looked at a row of another
backend, which only the publication of its own backend could have replaced, and a publication needs a job that
this prepare has not submitted yet. *CacheImplemented* shows that the initial state is one of ArtifactCache and
that every step is one of its steps or a stutter.

**Stability_proof** — `TypeCorrect`, `DevicesRecorded`, `ReportsLast`, `PassesEarned`, `NeverEscalates`,
`LatchSuffices`. The invariant says where a process is and what it has written by then (`Placed`), and what a
journal says whatever became of its process (`Lasting`); the rest is that no step of one run touches another's
journal. *LatchSuffices* adds that an unacknowledged interrupted run is, without overlap and clock steps, the
latest of those recorded, so that looking at the latest one is enough.

**Console_proof** — `TypeCorrect`, `WritersOwn`, `ServersReached`, `ZeroEarned`. Whoever runs with the registry
holds the lock (`DaemonHolds`, `CliHolds`), so at most one process is between its lock and its unlock; the socket's
path changes hands only there, twice on the way out, which is why it is the server's while it serves
(`SocketBound`). `Told` ties an invocation's place and exit code to what was said on its connection.

Only model-checked: liveness (`JobSettles`, `RetryHappens`, `LockReleased`, `EveryRequestAnswered`, `StopFrees`), as
fairness and ENABLED are out of the prover's reach. Every other property of a passing run is a theorem.

## 5. Where the code and its documents part

One of these is a regular run and described under "findings" in `PROJECT.json`:

* `worker_late` / `OwnAnswer`: after a timeout the worker is kept, and the late result of frame 1 is
  read as the answer to frame 2 (`runtime/native.py:92`; `docs/INTERFACES.md:164`).

The others are run by hand; TLC reports each violated. A `*_documents.cfg` names several, of which one is to
be left uncommented.

| Configuration / property | Code | What is said | What the code does |
|---|---|---|---|
| `jobs_interrupted` / InterruptedRecorded | `supervisor.py:262` | docstring 242-244, `OPERATIONS.md:103`: INTERRUPTED rows without a record get one | a retry's row has a record without a kind, so `failure_json IS NULL` misses it |
| `jobs_documents` / NoDuplicateJob | `jobs.py:82` | `CACHE.md:112`: refs sharing a key do not start duplicate jobs | PREPARED is committed (`jobs.py:392`) before the artifact; a submit in between opens a second job |
| … / PreparedIsDurable | `jobs.py:392` | `SPEC.md:294`: publish success only after the artifact is committed | the same window, seen in the ref's state |
| … / ConsumedForGood | `jobs.py:321-334` | comment 328-330: the old row must not open a second chain | an operator's recover of a consumed row overwrites `resumed_to` |
| … / NoCompileOnHit | `supervisor.py:792`, 824 | `SPEC.md:292`: no compiler execution on a valid hit | the lookup and the submit are separate; the artifact may appear in between |
| … / NoneLeftQueued | `supervisor.py:838` | comment `jobs.py:62-63`: status advances for every alias | QUEUED is written after submit returned; the job may be over, and nobody marks the ref again |
| `worker_documents` / HealthyKept | `native.py:100`, `frigate_zmq.py:405` | `INTERFACES.md:166`: client timeouts do not unload a healthy model | a budget of zero makes the receive non-blocking, an I/O error, a drop |
| … / GenerationChanges | `supervisor.py:165`, 1297 | `SPEC.md:325`: generation changes on each process start | it restarts from zero with the daemon |
| … / FaultBlocksActivation | `supervisor.py:1281-1350` | `SPEC.md:331`: a fault blocks activation pending recover | activate_worker does not read the inhibition |
| … / NoLaunchOverStuck | `supervisor.py:1266`, 1299 | `SPEC.md:327`: a stuck child is no permission to launch another | orphans are kept and not consulted |
| … / SafetyStands | `runtime/safety.py:165` | docstring `supervisor.py:1400-1401` | an ordinary inhibition overwrites a safety one |
| … / CleanExit | `supervisor.py:328-343` | `SPEC.md:326`: terminate the child, wait | an activation that waited for the lock spawns after stop |
| `worker_alone` / LoneChildExits | `main.cpp:59-67` | "structured failure via STATUS if possible, else exit" | at the end of the stream the error text contains "header", so the loop continues (SIGPIPE is ignored) |
| `front_cross` / NoCrossModel | `supervisor.py:1179` | `SPEC.md:244` | `fxdna activate` swaps the worker without telling the frontend: a bound client gets results of another model |
| `front_documents` / SupersededStaysOut | `frigate_zmq.py:303-314` | `SPEC.md:242`: superseded A is ineligible for automatic reactivation | the superseded set is written and not asked before a switch |
| … / NotAdvertised | `frigate_zmq.py:202-206` | `SPEC.md:252`: never keep advertising loaded | the binding is asked, not the worker |
| … / SwitchWhenDrained | `frigate_zmq.py:303` | `SPEC.md:238`: no old-generation request in flight | quiescence looks at the bindings, not at the queue |
| … / NoSecondClient | `launcher.py:263-264` | docstring 258-259: no second NPU client | the lease is released after the activation (`frigate_zmq.py:359`), not held while the worker lives |
| `front_reply` / AnsweredDespiteFaults | `frigate_zmq.py:249-252` | `INTERFACES.md:86`: exactly one reply | an exception other than FxdnaError ends the worker task |
| `store_documents` / ActiveProtected | `gc.py:31` | comment `gc.py:25-26` | the prune protects the ref of the active row, which has none |
| … / NoneMissing | `gc.py:90`, 98 | comment `gc.py:95-97` | a death or an error between the bytes and the row |
| … / NoSilentChange | `supervisor.py:754`, 771 | `models/refs.py:6-8` | compare and bind are apart; a prepare in between is overwritten |
| … / OnlyDanglingCleared | `gc.py:99-104` | comment `gc.py:96` | refs are listed, then cleared without another look |
| `artifact_documents` / VerifiedIsChecked | `registry.py:396-401` | `SPEC.md:117`: VERIFIED has passed the recorded checks | checks are found by key and outlive the artifact they were made of |
| … / LoadsIntact | `supervisor.py:1305` | `store.py:125-128`: the hash is verified at activation | nothing compares it |
| … / LoadsOwn | `supervisor.py:1305` | `supervisor.py:597-598`: fake artifacts are refused | activation does not look at the backend |
| … / PublishedIsOwn | `supervisor.py:793` | comment there (SF3): a foreign artifact is not a hit | a resumed job that finds a foreign row is PREPARED with it |
| … / OwnIsKept | `supervisor.py:740` | docstring: a stale artifact is moved aside | of two prepares the slower one moves the faster one's fresh artifact |
| `stability_documents` / ReviewedAfterwards | `stability_runner.py:158` | `INTERFACES.md:26`: acknowledge after reviewing the host | a run that still goes on reads interrupted and can be acknowledged |
| … / LatchHolds | `stability_runner.py:137` | `INTERFACES.md:27`: refuses while the previous run is unacknowledged | the latch is read before the lock, so a run that overlapped is not seen |
| … / RetirementRecorded | `stability_runner.py:598` | `observability/stability.py:24-26`: every device-sensitive transition is recorded | the retirement at the end is not |
| … / StopIsObeyed | `stability_runner.py:581-582` | operator stop: do not escalate | a stop during E0 is seen only after the activation |
| … / RefusalIsTrue | `observability/stability.py:260` | "has a final result" | a run that ended between metadata and first record has none |
| `console_documents` / ZeroMeansDone | `cli.py:487`, `admin.py:149` | `INTERFACES.md` section 1: 0 is success | activate and cache prune take a stream that ends for success |
| … / StartingIsAlive | `cli.py:190-216` | comment there: no standalone path right after a start | the file of a killed daemon is there and refuses, which is final (commands other than prepare, which may be told to go standalone) |
| … / UnreachableIsNotDone | `admin.py:140` | `INTERFACES.md` section 1: 3 is not ready | the command may be carried out after its caller gave up |
| … / PreparedAtZero | `cli.py:659-676` | `INTERFACES.md` section 1 | standalone `prepare --wait` ends with 0 for a failed compile too |

About `worker_alone`: in the documented container (`init: true`) the end of the daemon ends PID 1 and
with it every process of the container; the spinning child is seen where the daemon runs without one.

## 6. Not modelled

* *Partly*: model fetching and inspection within `prepare` (a refusal of either is one outcome),
  health reports, migrations of the registry, imported artifacts beyond "not compiled", the wording of
  errors, counters, ZMQ envelopes, log files, child processes inside the compiler launcher and their
  deadlines (their outcome is `Finish`), listings and argument parsing of the command line.
* In the stability runner: latency statistics, memory sampling and formatting. H2 writes no checkpoint
  although the docs speak of one a second; the model does what the code does.
* The flock of the device lease is the variable `lease` of Frontend, which says who in the process holds it.
  Its descriptor is not inherited by children (Python's default), so with the process it goes as
  `manager.lock` does in Console.
* When Plus is offline `prepare` may return a cached artifact; this path is left out with the Plus
  client.
* Kills in Console are those of daemons. A killed standalone command releases the lock in the same way,
  and has no caller that could be misled.
* *Not at all*: the Plus HTTP client, ONNX inspection and contracts, host and deployment checks (pure
  readers or an external service); the native model and the YOLO postprocessor (vendor calls and floating
  point, out of TLC's reach); build scripts and recipes.

* Left out or merged inside modelled handlers, with no effect on a property above:
  * `pump`'s FxdnaError of a poll: only an unknown job raises it, and no row is ever deleted;
  * `RecordTerminal` is one action for writes that autocommit one by one: the resume it may make at once needs
    a record that is due at once, which the real backend never writes; a death between the record and the states
    of the refs leaves those as they were, of which no property of a passing run speaks;
  * `CacheHit`'s foreign backend: in ArtifactStore (`BackendOk`), not in JobManager;
  * `EvidenceKind`'s stages of a failed download or acquisition: no row of the jobs table has them;
  * `TakePartial` answers the rest of a cut request with at most one STATUS; the code may write several;
  * `Inhibit`: the lookup of the ref may raise; the holder then leaves with the state it would have;
  * in Frontend a JSON header that is not an object, which ends the worker task as the exceptions of
    `front_reply` do, and an infer of a client that was never told "loaded", which is one refusal;
  * in SourceStore the fetch and the inspection (one refusal) and the test `p["target"] == digest` of the
    second look at the pins: `pin_ref` makes refs the targets, never digests;
  * in Console, `stop`'s bounded join and its second removal of the path are one step under the lock.

## 7. Plan

Done, in this order, the most important behaviour first: RetryPolicy and JobManager with its first
theorem; WorkerService and ResidentWorker; Frontend over WorkerService; SourceStore; ArtifactCache and
ArtifactStore; Stability; StatusView and Console; the proofs of all of them,
with the refinements of ArtifactCache, WorkerService and JobHistory.

Next, in this order:

1. *Acquisition*: the Plus client's bounded retries, the offline fallback, the transfer path.
2. Lemmas on `Classify` against the table of documented kinds.

New runs take the place of those that a stronger one contains: the set stays at one run per question.
