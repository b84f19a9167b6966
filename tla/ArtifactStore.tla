---------------------------- MODULE ArtifactStore ----------------------------
(***************************************************************************)
(* The cache of compiled artifacts: directories artifacts/<compile_key>    *)
(* and rows of the artifacts and validations tables (supervisor.py,        *)
(* cache/store.py, cache/registry.py).  The serve loop publishes what a    *)
(* compile yields; prepares on admin threads take a hit, or set a foreign  *)
(* backend's artifact aside and compile afresh; activations load and       *)
(* record native checks; a process that died is recovered by the next one, *)
(* whose compiler backend need not be the same.                            *)
(*                                                                         *)
(* Jobs are those of JobManager reduced to what ends in an artifact.  The  *)
(* tests and the renames of a directory are steps of their own.            *)
(***************************************************************************)
EXTENDS Naturals

CONSTANTS
    Key,          \* compile keys
    Bytes,        \* contents (digests) of model.rai
    Backend,      \* compiler backends a process may be started with
    Thread,       \* admin connections
    None,         \* Python None; no directory, no row
    MaxOps,       \* bound: prepares and activations begun
    MaxCompiles,  \* bound: compiles begun
    MaxDeaths     \* bound: ends of the process

ASSUME ArtifactStoreAssumption ==
    /\ None \notin Bytes \cup Key \cup Backend
    /\ None \notin [bytes: Bytes, backend: Backend]
    /\ None \notin [bytes: Bytes, digest: Bytes, backend: Backend]
    /\ MaxOps \in Nat /\ MaxCompiles \in Nat /\ MaxDeaths \in Nat

VARIABLES
    dirs,      \* artifacts/<key>: model.rai, and the manifest's digest and backend
    rows,      \* the artifacts table: artifact_sha256
    checks,    \* the validations table: <<key, artifact digest>>
    failed,    \* failed and interrupted jobs of each key, not resumed so far
    live,      \* keys with a job that is not terminal
    pub,       \* where the serve loop is in _publish_result
    op,        \* what each admin thread is doing
    phase,     \* of the process: down, recovering or serving
    todo,      \* keys recover has still to look at
    backend,   \* compiler_backend_id of the process
    count      \* operations, compiles and deaths so far

disk  == <<dirs, rows, checks, failed>>
work  == <<live, pub, op>>
proc  == <<phase, todo, backend>>
vars  == <<disk, work, proc, count>>

Artifact == [bytes: Bytes, digest: Bytes, backend: Backend]
Whole(a) == a.bytes = a.digest
Quiet    == [at |-> "idle", key |-> None, bytes |-> None]
PubAt    == {"look", "isdir", "clear", "stage", "refuse", "rename", "row", "probe"}
Invalidating == {"isdir", "aside", "forget"}
Preparing == {"look", "backend", "submit"} \cup Invalidating
Activating == {"inspect", "load", "record"}
Idle     == [at |-> "idle", key |-> None, alone |-> TRUE]

TypeOK ==
    /\ dirs \in [Key -> Artifact \cup {None}]
    /\ rows \in [Key -> Bytes \cup {None}]
    /\ checks \subseteq Key \X Bytes
    /\ failed \in [Key -> Nat] /\ live \subseteq Key
    /\ pub \in {Quiet} \cup [at: PubAt, key: Key, bytes: Bytes]
    /\ op \in [Thread -> {Idle} \cup [at: Preparing \cup Activating, key: Key,
                                      alone: BOOLEAN]]
    /\ phase \in {"down", "recover", "up"}
    /\ todo \subseteq Key
    /\ backend \in Backend
    /\ count \in [ops: 0..MaxOps, compiles: 0..MaxCompiles, deaths: 0..MaxDeaths]

Init ==
    /\ dirs = [k \in Key |-> None] /\ rows = [k \in Key |-> None]
    /\ checks = {} /\ failed = [k \in Key |-> 0] /\ live = {}
    /\ pub = Quiet /\ op = [t \in Thread |-> Idle]
    /\ phase = "up" /\ todo = {} /\ backend \in Backend
    /\ count = [ops |-> 0, compiles |-> 0, deaths |-> 0]

----------------------------------------------------------------------------
(* One step of an admin thread on its key.                                 *)

At(t, at)   == op[t].at = at
Goto(t, at) == op' = [op EXCEPT ![t].at = at]
Done(t)     == op' = [op EXCEPT ![t] = Idle]

Own(k)    == dirs[k] # None /\ dirs[k].backend = backend      \* _backend_ok
Usable(k) == rows[k] # None /\ Own(k)                         \* _usable_cached_key

(* A request arrives.  alone is remembered for the properties: no other    *)
(* prepare has been under way since this one began.                        *)
Begin(t) ==
    /\ At(t, "idle") /\ phase = "up" /\ count.ops < MaxOps
    /\ count' = [count EXCEPT !.ops = @ + 1]
    /\ \E k \in Key :
         \/ LET others == {u \in Thread : op[u].at \in Preparing}
            IN  op' = [u \in Thread |->
                        IF u = t THEN [at |-> "look", key |-> k, alone |-> others = {}]
                        ELSE IF u \in others THEN [op[u] EXCEPT !.alone = FALSE]
                        ELSE op[u]]
         \/ op' = [op EXCEPT ![t] = [at |-> "inspect", key |-> k, alone |-> TRUE]]
    /\ UNCHANGED <<disk, live, pub, proc>>

(* _ingest_source: is there a row?  Is its manifest of this backend?       *)
Look(t) ==
    /\ At(t, "look")
    /\ Goto(t, IF rows[op[t].key] = None THEN "submit" ELSE "backend")
    /\ UNCHANGED <<disk, live, pub, proc, count>>

(* Mutant: the manifest is not read, every artifact of a row is foreign.   *)
BackendNever(t) ==
    /\ At(t, "backend")
    /\ Goto(t, "isdir")
    /\ UNCHANGED <<disk, live, pub, proc, count>>

(* A hit ends the prepare: its provenance row is PREPARED from the start.  *)
BackendOk(t) ==
    /\ At(t, "backend")
    /\ IF Own(op[t].key) THEN Done(t) ELSE Goto(t, "isdir")
    /\ UNCHANGED <<disk, live, pub, proc, count>>

(* _invalidate_artifact.                                                   *)
IsDir(t) ==
    /\ At(t, "isdir")
    /\ Goto(t, IF dirs[op[t].key] = None THEN "forget" ELSE "aside")
    /\ UNCHANGED <<disk, live, pub, proc, count>>

(* The rename raises if the directory has gone since, or if this second's  *)
(* name under failures/ is taken.                                          *)
Aside(t) ==
    /\ At(t, "aside")
    /\ \/ /\ dirs[op[t].key] # None
          /\ dirs' = [dirs EXCEPT ![op[t].key] = None]
          /\ Goto(t, "forget")
       \/ dirs' = dirs /\ Done(t)
    /\ UNCHANGED <<rows, checks, failed, live, pub, proc, count>>

ForgetRow(t) ==
    /\ At(t, "forget")
    /\ rows' = [rows EXCEPT ![op[t].key] = None]
    /\ Goto(t, "submit")
    /\ UNCHANGED <<dirs, checks, failed, live, pub, proc, count>>

(* A compile of the key begins, for a new job or for the next attempt of   *)
(* one that failed.                                                        *)
Spawn(k) ==
    /\ k \notin live /\ count.compiles < MaxCompiles
    /\ live' = live \cup {k}
    /\ count' = [count EXCEPT !.compiles = @ + 1]

Consume(k) == failed[k] > 0 /\ failed' = [failed EXCEPT ![k] = @ - 1]

Fail(S) == failed' = [k \in Key |-> failed[k] + (IF k \in S THEN 1 ELSE 0)]

(* JobManager.submit: the key's live job is shared, or one is created, or  *)
(* a failed one resumed; or a terminal row answers.  Before it, the        *)
(* scratch preflight may refuse.                                           *)
Submit(t) ==
    /\ At(t, "submit")
    /\ \/ UNCHANGED <<live, failed, count>>
       \/ Spawn(op[t].key) /\ failed' = failed
       \/ Spawn(op[t].key) /\ Consume(op[t].key)
    /\ Done(t)
    /\ UNCHANGED <<dirs, rows, checks, pub, proc>>

(* retry_due, requeue.  Nothing looks at the cache.                        *)
Resume(k) ==
    /\ phase = "up"
    /\ Spawn(k) /\ Consume(k)
    /\ UNCHANGED <<dirs, rows, checks, pub, op, proc>>

(* _inspect_activation, then LOAD under the worker lock, then the check    *)
(* with the digest the row has by then.                                    *)
Inspect(t) ==
    /\ At(t, "inspect")
    /\ \A u \in Thread : op[u].at \notin {"load", "record"}
    /\ IF rows[op[t].key] # None /\ dirs[op[t].key] # None
       THEN Goto(t, "load") ELSE Done(t)
    /\ UNCHANGED <<disk, live, pub, proc, count>>

Load(t) ==
    /\ At(t, "load")
    /\ \/ dirs[op[t].key] # None /\ Goto(t, "record")
       \/ Done(t)
    /\ UNCHANGED <<disk, live, pub, proc, count>>

(* A row that has gone in the meantime is not checked.                     *)
RecordCheck(t) ==
    /\ At(t, "record")
    /\ checks' = checks \cup ({<<op[t].key, rows[op[t].key]>>} \cap (Key \X Bytes))
    /\ Done(t)
    /\ UNCHANGED <<dirs, rows, failed, live, pub, proc, count>>

----------------------------------------------------------------------------
(* The serve loop.                                                         *)

PubIs(at)   == phase = "up" /\ pub.at = at
PubGoto(at) == pub' = [pub EXCEPT !.at = at]

(* A compile ends: the row of its job is terminal before anything is       *)
(* published.                                                              *)
Compiled(k) ==
    /\ PubIs("idle") /\ k \in live
    /\ live' = live \ {k}
    /\ \/ Fail({k}) /\ pub' = pub
       \/ failed' = failed /\ \E b \in Bytes : pub' = [at |-> "look", key |-> k, bytes |-> b]
    /\ UNCHANGED <<dirs, rows, checks, op, proc, count>>

(* Mutant: the row is not looked for.                                      *)
PubLookNever ==
    /\ PubIs("look")
    /\ PubGoto("isdir")
    /\ UNCHANGED <<disk, live, op, proc, count>>

(* _publish_result: a key with a row is published already ...              *)
PubLook ==
    /\ PubIs("look")
    /\ IF rows[pub.key] # None THEN pub' = Quiet ELSE PubGoto("isdir")
    /\ UNCHANGED <<disk, live, op, proc, count>>

(* Mutant: a directory without a row is left where it is.                  *)
PubIsDirNever ==
    /\ PubIs("isdir")
    /\ PubGoto("stage")
    /\ UNCHANGED <<disk, live, op, proc, count>>

(* ... and a directory without a row is moved aside.                       *)
PubIsDir ==
    /\ PubIs("isdir")
    /\ PubGoto(IF dirs[pub.key] = None THEN "stage" ELSE "clear")
    /\ UNCHANGED <<disk, live, op, proc, count>>

PubClear ==
    /\ PubIs("clear") /\ dirs[pub.key] # None
    /\ dirs' = [dirs EXCEPT ![pub.key] = None]
    /\ PubGoto("stage")
    /\ UNCHANGED <<rows, checks, failed, live, op, proc, count>>

(* The compiler's file cannot be read, or there is none: COMPILE_FAILED.   *)
PubStage ==
    /\ PubIs("stage")
    /\ \/ PubGoto("refuse") /\ failed' = failed
       \/ pub' = Quiet /\ Fail({pub.key})
    /\ UNCHANGED <<dirs, rows, checks, live, op, proc, count>>

(* publish_artifact refuses to overwrite.                                  *)
PubRefuse ==
    /\ PubIs("refuse")
    /\ IF dirs[pub.key] = None THEN PubGoto("rename") /\ failed' = failed
       ELSE pub' = Quiet /\ Fail({pub.key})
    /\ UNCHANGED <<dirs, rows, checks, live, op, proc, count>>

(* The files are written to the staging directory, which is then renamed.  *)
PubRename ==
    /\ PubIs("rename") /\ dirs[pub.key] = None
    /\ dirs' = [dirs EXCEPT ![pub.key] =
                  [bytes |-> pub.bytes, digest |-> pub.bytes, backend |-> backend]]
    /\ PubGoto("row")
    /\ UNCHANGED <<rows, checks, failed, live, op, proc, count>>

(* add_artifact: INSERT OR IGNORE.                                         *)
PubRow ==
    /\ PubIs("row")
    /\ rows' = [rows EXCEPT ![pub.key] = IF @ = None THEN pub.bytes ELSE @]
    /\ PubGoto("probe")
    /\ UNCHANGED <<dirs, checks, failed, live, op, proc, count>>

(* The in-compile probe, when it ran, is a native check.                   *)
PubProbe ==
    /\ PubIs("probe")
    /\ \E ran \in SUBSET {<<pub.key, pub.bytes>>} : checks' = checks \cup ran
    /\ pub' = Quiet
    /\ UNCHANGED <<dirs, rows, failed, live, op, proc, count>>

----------------------------------------------------------------------------
(* The process ends, by a kill, or because a rename of the loop raised an  *)
(* OSError that pump does not catch: the loop is left, and the daemon.     *)

Die ==
    /\ phase # "down" /\ count.deaths < MaxDeaths
    /\ phase' = "down" /\ todo' = {}
    /\ Fail(live) /\ live' = {}
    /\ pub' = Quiet /\ op' = [t \in Thread |-> Idle]
    /\ count' = [count EXCEPT !.deaths = @ + 1]
    /\ UNCHANGED <<dirs, rows, checks, backend>>

(* Supervisor.__init__, with a backend of its own choice.                  *)
Start ==
    /\ phase = "down"
    /\ phase' = "recover" /\ todo' = Key
    /\ backend' \in Backend
    /\ UNCHANGED <<disk, work, count>>

(* Mutant: the manifest is believed, the file is not hashed.               *)
RecoverKeyTrusting(k) ==
    /\ phase = "recover" /\ k \in todo
    /\ todo' = todo \ {k}
    /\ rows' = [rows EXCEPT ![k] = IF @ = None /\ dirs[k] # None THEN dirs[k].digest ELSE @]
    /\ UNCHANGED <<dirs, checks, failed, work, phase, backend, count>>

(* recover: a directory without a row is adopted when its manifest is that *)
(* of the key and of the bytes, whatever the backend; else quarantined.    *)
RecoverKey(k) ==
    /\ phase = "recover" /\ k \in todo
    /\ todo' = todo \ {k}
    /\ IF rows[k] # None \/ dirs[k] = None THEN UNCHANGED <<dirs, rows>>
       ELSE IF Whole(dirs[k])
       THEN rows' = [rows EXCEPT ![k] = dirs[k].digest] /\ dirs' = dirs
       ELSE dirs' = [dirs EXCEPT ![k] = None] /\ rows' = rows
    /\ UNCHANGED <<checks, failed, work, phase, backend, count>>

Serve ==
    /\ phase = "recover" /\ todo = {}
    /\ phase' = "up"
    /\ UNCHANGED <<disk, work, todo, backend, count>>

(* The environment: a committed model.rai is no longer what was written.   *)
Damage(k) ==
    /\ dirs[k] # None /\ Whole(dirs[k])
    /\ \E b \in Bytes \ {dirs[k].digest} :
         dirs' = [dirs EXCEPT ![k] = [bytes |-> b, digest |-> @.digest, backend |-> @.backend]]
    /\ UNCHANGED <<rows, checks, failed, work, proc, count>>

----------------------------------------------------------------------------
Prepare(t)  == \/ Look(t) \/ BackendOk(t) \/ IsDir(t) \/ Aside(t) \/ ForgetRow(t)
               \/ Submit(t)
Activate(t) == Inspect(t) \/ Load(t) \/ RecordCheck(t)
Publish     == \/ PubLook \/ PubIsDir \/ PubClear \/ PubStage \/ PubRefuse \/ PubRename
               \/ PubRow \/ PubProbe
Restart     == Die \/ Start \/ Serve

Next ==
    \/ \E t \in Thread : Begin(t) \/ Prepare(t) \/ Activate(t)
    \/ \E k \in Key : Resume(k) \/ Compiled(k) \/ RecoverKey(k) \/ Damage(k)
    \/ Publish \/ Restart

Spec == Init /\ [][Next]_vars

----------------------------------------------------------------------------
(* A row says of a directory what its manifest does.  Only the loop and    *)
(* recover commit and describe; a prepare that runs at the same time takes *)
(* away either half, in this order and at any point (supervisor.py         *)
(* _publish_result, _invalidate_artifact).                                 *)
RowDescribes ==
    \A k \in Key : rows[k] # None /\ dirs[k] # None => rows[k] = dirs[k].digest

(* A finished compile never meets a committed directory: whatever earlier  *)
(* deaths and prepares left under its key has been moved aside, so no      *)
(* remnant wedges the key (supervisor.py _publish_result, SF4;             *)
(* cache/store.py publish_artifact).                                       *)
Unobstructed == pub.at \in {"refuse", "rename"} => dirs[pub.key] = None

(* However the process died, and whatever has become of its files, each    *)
(* directory that recover has passed has a row; a row that recover adds is *)
(* the digest of the bytes there are; and only a directory whose bytes are *)
(* not those of its manifest is taken out of the cache (cache/store.py     *)
(* recover: "adopt only after full revalidation", "later recoveries        *)
(* converge").                                                             *)
Converges ==
    [][phase = "recover" /\ phase' = phase =>
         \A k \in Key \ todo' :
           /\ dirs'[k] # None => rows'[k] # None
           /\ rows'[k] # rows[k] => dirs'[k] # None /\ rows'[k] = dirs'[k].bytes
           /\ dirs[k] # None /\ dirs'[k] = None => ~Whole(dirs[k])]_vars

(* While a process serves, a usable artifact stays usable, unless two      *)
(* prepares were under way together: a prepare that ran alone sets aside   *)
(* only what is foreign to the process, even when a compile of the key is  *)
(* published while it runs (supervisor.py _ingest_source, SF3).            *)
LostOnlyByOverlap ==
    [][\A k \in Key : Usable(k) /\ phase' = phase /\ ~Usable(k)' =>
         \E t \in Thread : op[t].key = k /\ op[t].at \in Invalidating /\ ~op[t].alone]_vars

(* ArtifactCache, of which the store is an implementation: a directory     *)
(* there holds what its manifest says, for what rots is outside its        *)
(* promise.                                                                *)
Content(a) == IF a = None THEN None ELSE [bytes |-> a.digest, backend |-> a.backend]
Cache == INSTANCE ArtifactCache
            WITH entry <- [k \in Key |-> Content(dirs[k])], described <- rows

(* Nothing is changed in place: a directory appears whole under a key with *)
(* neither directory nor row, and a row under a key with none              *)
(* (cache/store.py publish_artifact: "Never overwrites a committed         *)
(* artifact"; supervisor.py _invalidate_artifact: "never in place").       *)
NeverInPlace == Cache!Spec

----------------------------------------------------------------------------
(* Stated by the documents, and not so.                                    *)

(* SPEC.md: VERIFIED means that the artifact has passed the recorded       *)
(* checks.  is_verified looks for a check of the key, and checks outlive   *)
(* the artifact they were made of.                                         *)
VerifiedIsChecked ==
    \A k \in Key : rows[k] # None /\ (\E b \in Bytes : <<k, b>> \in checks)
                   => <<k, rows[k]>> \in checks

(* cache/store.py publish_artifact: the hash is verified at activation     *)
(* against the row.                                                        *)
LoadsIntact ==
    [][\A t \in Thread : At(t, "load") /\ At(t, "record")' => Whole(dirs[op[t].key])]_vars

(* supervisor.py _publish_result: activation must refuse artifacts of the  *)
(* fake backend, and no other backend's bytes are trusted (SF3).           *)
LoadsOwn ==
    [][\A t \in Thread : At(t, "load") /\ At(t, "record")' => Own(op[t].key)]_vars

(* supervisor.py _ingest_source (SF3): fresh bytes instead of foreign      *)
(* ones.  A resumed job that finds a foreign row is PREPARED with it.      *)
PublishedIsOwn ==
    [][pub.at \in {"look", "probe"} /\ pub' = Quiet /\ phase' = phase
         => pub.key \in Key /\ Usable(pub.key)]_vars

(* supervisor.py _invalidate_artifact moves a stale artifact aside: also a *)
(* fresh one, when another prepare was faster.                             *)
OwnIsKept ==
    [][\A k \in Key : Usable(k) /\ phase' = phase => Usable(k)']_vars
==============================================================================
