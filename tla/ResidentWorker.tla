--------------------------- MODULE ResidentWorker ---------------------------
(***************************************************************************)
(* The resident NPU worker: the half of supervisor.py that swaps, asks and *)
(* drops it under _worker_lock, the protocol of runtime/native.py and      *)
(* runtime/ipc.py, and the child's loop (native/src/main.cpp), with        *)
(* children that fault, die or hang in the driver, exchanges cut short by  *)
(* a deadline, a registry that fails, and a daemon that stops or dies.     *)
(*                                                                         *)
(* _worker_lock serializes activate_worker, worker_infer and stop, so op,  *)
(* the operation of its holder, is the only program counter of the daemon; *)
(* children run concurrently with it.  A message is one element of a       *)
(* stream; a stream cut inside a message holds a "partial" element.        *)
(***************************************************************************)
EXTENDS Naturals, Sequences, FiniteSets

CONSTANTS
    Key,         \* compile keys of prepared artifacts
    None,        \* Python None, SQL NULL
    Timeouts,    \* deadlines that may cut an exchange short
    MayHang,     \* a child may sleep in the driver, out of reach of SIGKILL
    MayFail,     \* writes to the registry may raise
    MaxChildren, \* bound: worker processes
    MaxFrames,   \* bound: frames sent for inference
    MaxDeaths    \* bound: stops and deaths of the daemon

(* "recv": the reply is late; "mid": the deadline passes inside the reply; *)
(* "zero": no budget is left, so the receive does not block at all;        *)
(* "send": it passes inside the request, which the last receive's timeout  *)
(* still bounds.                                                           *)
ASSUME ResidentWorkerAssumption ==
    /\ None \notin Key
    /\ Timeouts \subseteq {"recv", "mid", "zero", "send"}
    /\ MayHang \in BOOLEAN /\ MayFail \in BOOLEAN
    /\ MaxChildren \in Nat /\ MaxFrames \in Nat /\ MaxDeaths \in Nat

VARIABLES
    child,      \* worker processes and both directions of their socketpair
    worker,     \* Supervisor._worker, 0 for None
    workerKey,  \* Supervisor._worker_compile_key
    workerGen,  \* Supervisor._worker_generation
    orphans,    \* Supervisor._orphans
    mine,       \* the processes this life of the daemon has spawned
    op,         \* where the holder of _worker_lock is
    answer,     \* what worker_infer last returned
    active,     \* service_state["active"]
    inhibition, \* service_state["inhibition"]: none, ordinary or safety class
    daemon,     \* up, closing (stop is over) or down
    deaths      \* stops and deaths of the daemon so far

fields   == <<worker, workerKey, workerGen>>
registry == <<active, inhibition>>
life     == <<daemon, deaths, mine>>
vars     == <<child, fields, orphans, life, op, answer, registry>>

----------------------------------------------------------------------------
Child == 1..MaxChildren

Load(k, g)  == [type |-> "LOAD", key |-> k, gen |-> g, frame |-> 0]
Infer(f, g) == [type |-> "INFER", key |-> None, gen |-> g, frame |-> f]
Shutdown    == [type |-> "SHUTDOWN", key |-> None, gen |-> 0, frame |-> 0]
Partial     == [type |-> "partial", key |-> None, gen |-> 0, frame |-> 0]

(* "OK" stands for the reply without an error_code.                        *)
Status(code)         == [type |-> "STATUS", code |-> code, of |-> 0, by |-> None]
Result(code, of, by) == [type |-> "RESULT", code |-> code, of |-> of, by |-> by]
CutReply             == [type |-> "partial", code |-> "OK", of |-> 0, by |-> None]

Requests == [type: {"LOAD", "INFER", "SHUTDOWN", "partial"}, key: Key \cup {None},
             gen: Nat, frame: 0..MaxFrames]
Replies  == [type: {"STATUS", "RESULT", "partial"},
             code: {"OK", "INVALID_ARGS", "INVALID_MODEL", "DEVICE_FAULT"},
             of: 0..MaxFrames, by: Key \cup {None}]

(* peer: the daemon's end of the socketpair is open.                       *)
Unborn == [state |-> "unborn", model |-> None, gen |-> 0, peer |-> FALSE,
           inbox |-> <<>>, outbox |-> <<>>]
Born(k, g) == [Unborn EXCEPT !.state = "up", !.peer = TRUE, !.inbox = <<Load(k, g)>>]

Alive(c) == child[c].state \in {"up", "stuck"}

(* A process ends, and its unread requests with it; its replies stay.      *)
Ends(c) == child' = [child EXCEPT ![c].state = "dead", ![c].inbox = <<>>]

(* old, oldKey and oldGen are activate_worker's locals, child the process  *)
(* at hand, why the reason it is being retired, safety the class of the    *)
(* inhibition to come, infer whether a frame waits for its answer.         *)
Idle == [at |-> "idle", why |-> "none", key |-> None, child |-> 0, old |-> 0,
         oldKey |-> None, oldGen |-> 0, safety |-> FALSE, infer |-> FALSE]

OpType == [at: {"idle", "spawn", "load", "publish", "retire", "reap", "restore",
                "infer", "inhibit", "stop"},
           why: {"none", "refused", "rollback", "replaced", "lost", "stop"},
           key: Key \cup {None}, child: 0..MaxChildren, old: 0..MaxChildren,
           oldKey: Key \cup {None}, oldGen: Nat, safety: BOOLEAN, infer: BOOLEAN]

NoResult(n) == [frame |-> n, of |-> 0, by |-> None]
Asked       == answer.frame + 1

Init ==
    /\ child = [c \in Child |-> Unborn]
    /\ worker = 0 /\ workerKey = None /\ workerGen = 0
    /\ orphans = {} /\ mine = {} /\ op = Idle /\ answer = NoResult(0)
    /\ active = None /\ inhibition = "none"
    /\ daemon = "up" /\ deaths = 0

At(at) == daemon # "down" /\ op.at = at

(* After stop the registry closes while admin threads may still run.       *)
RegistryFails == MayFail \/ daemon = "closing"

Retire(c, why) == [op EXCEPT !.at = "retire", !.child = c, !.why = why]

----------------------------------------------------------------------------
(* activate_worker.                                                        *)

(* The source is inspected again before anything is spawned; what does not *)
(* pass inhibits.  A key without an artifact changes nothing.              *)
Activate(k) ==
    /\ At("idle")
    /\ \E at \in {"spawn", "inhibit"} : op' = [Idle EXCEPT !.at = at, !.key = k]
    /\ UNCHANGED <<child, fields, orphans, life, answer, registry>>

(* A fresh process (they are numbered as they are born) is sent the LOAD   *)
(* of the next generation ...                                              *)
Spawn(c) ==
    /\ At("spawn")
    /\ child[c].state = "unborn" /\ \A d \in 1..c - 1 : child[d].state # "unborn"
    /\ child' = [child EXCEPT ![c] = Born(op.key, workerGen + 1)]
    /\ mine' = mine \cup {c}
    /\ op' = [op EXCEPT !.at = "load", !.child = c]
    /\ UNCHANGED <<fields, orphans, daemon, deaths, answer, registry>>

SpawnFails ==
    /\ At("spawn")
    /\ op' = [op EXCEPT !.at = "inhibit"]
    /\ UNCHANGED <<child, fields, orphans, life, answer, registry>>

Read(c) == child' = [child EXCEPT ![c].outbox = Tail(@)]

(* ... and only when it has confirmed the LOAD do the fields change hands. *)
Swap ==
    /\ At("load")
    /\ LET c == op.child IN
       /\ child[c].outbox # <<>> /\ Head(child[c].outbox) = Status("OK")
       /\ Read(c)
       /\ worker' = c /\ workerKey' = op.key /\ workerGen' = workerGen + 1
    /\ op' = [op EXCEPT !.at = "publish", !.old = worker, !.oldKey = workerKey,
                        !.oldGen = workerGen]
    /\ UNCHANGED <<orphans, life, answer, registry>>

(* Mutant: only a refusal, no late reply and no lost child, ends the wait. *)
LoadFailsRefused ==
    /\ At("load")
    /\ LET c == op.child IN
       child[c].outbox # <<>> /\ Head(child[c].outbox) # Status("OK") /\ Read(c)
    /\ op' = Retire(op.child, "refused")
    /\ UNCHANGED <<fields, orphans, life, answer, registry>>

(* The LOAD is refused, its reply is late, or the child is gone.           *)
LoadFails ==
    /\ At("load")
    /\ LET c == op.child IN
       \/ child[c].outbox # <<>> /\ Head(child[c].outbox) # Status("OK") /\ Read(c)
       \/ /\ child[c].outbox = <<>>
          /\ child[c].state # "up" \/ "recv" \in Timeouts
          /\ UNCHANGED child
    /\ op' = Retire(op.child, "refused")
    /\ UNCHANGED <<fields, orphans, life, answer, registry>>

Publish ==
    /\ At("publish")
    /\ active' = [key |-> workerKey, gen |-> workerGen]
    /\ op' = IF op.old = 0 THEN Idle ELSE Retire(op.old, "replaced")
    /\ UNCHANGED <<child, fields, orphans, life, answer, inhibition>>

(* Mutants: the new worker is not retired; the old one is.                 *)
PublishFailsLeaves ==
    /\ At("publish") /\ RegistryFails
    /\ op' = [op EXCEPT !.at = "restore", !.child = 0]
    /\ UNCHANGED <<child, fields, orphans, life, answer, registry>>

PublishFailsOld ==
    /\ At("publish") /\ RegistryFails /\ op.old # 0
    /\ op' = Retire(op.old, "rollback")
    /\ UNCHANGED <<child, fields, orphans, life, answer, registry>>

PublishFails ==
    /\ At("publish") /\ RegistryFails
    /\ op' = Retire(worker, "rollback")
    /\ UNCHANGED <<child, fields, orphans, life, answer, registry>>

(* Mutants: one field not put back.                                        *)
RestoreGenKept ==
    /\ At("restore")
    /\ worker' = op.old /\ workerKey' = op.oldKey /\ UNCHANGED workerGen
    /\ op' = [op EXCEPT !.at = "inhibit"]
    /\ UNCHANGED <<child, orphans, life, answer, registry>>

RestoreKeyKept ==
    /\ At("restore")
    /\ worker' = op.old /\ workerGen' = op.oldGen /\ UNCHANGED workerKey
    /\ op' = [op EXCEPT !.at = "inhibit"]
    /\ UNCHANGED <<child, orphans, life, answer, registry>>

Restore ==
    /\ At("restore")
    /\ worker' = op.old /\ workerKey' = op.oldKey /\ workerGen' = op.oldGen
    /\ op' = [op EXCEPT !.at = "inhibit"]
    /\ UNCHANGED <<child, orphans, life, answer, registry>>

----------------------------------------------------------------------------
(* _retire_or_track and what follows it.                                   *)

(* retire: SHUTDOWN, then the socket is closed, with what nobody read ...  *)
RetireSend ==
    /\ At("retire")
    /\ child' = [child EXCEPT ![op.child].peer = FALSE, ![op.child].outbox = <<>>,
                    ![op.child].inbox = IF Alive(op.child) /\ child[op.child].peer
                                        THEN Append(@, Shutdown) ELSE @]
    /\ op' = [op EXCEPT !.at = "reap"]
    /\ UNCHANGED <<fields, orphans, life, answer, registry>>

AfterReap ==
    [refused |-> "inhibit", rollback |-> "restore", replaced |-> "idle",
     lost |-> "inhibit", stop |-> "stop"]

(* ... then the child is given time, terminated, killed.  One that is      *)
(* alive even now is tracked, except by stop.                              *)
Reap ==
    /\ At("reap")
    /\ LET c == op.child IN
       IF child[c].state = "stuck"
       THEN /\ orphans' = IF op.why = "stop" THEN orphans ELSE orphans \cup {c}
            /\ UNCHANGED child
       ELSE Ends(c) /\ UNCHANGED orphans
    /\ op' = IF op.why = "replaced" THEN Idle
             ELSE [op EXCEPT !.at = AfterReap[op.why], !.child = 0]
    /\ UNCHANGED <<fields, life, answer, registry>>

(* _inhibit_quiet: best effort, and the last reason is the one that stands. *)
Inhibit ==
    /\ At("inhibit")
    /\ \/ inhibition' = IF op.safety THEN "safety" ELSE "ordinary"
       \/ RegistryFails /\ UNCHANGED inhibition
    /\ answer' = IF op.infer THEN NoResult(Asked) ELSE answer
    /\ op' = Idle
    /\ UNCHANGED <<child, fields, orphans, life, active>>

(* recover_ref clears an inhibition that is not of the safety class.       *)
Recover ==
    /\ daemon = "up" /\ inhibition = "ordinary"
    /\ inhibition' = "none"
    /\ UNCHANGED <<child, fields, orphans, life, op, answer, active>>

----------------------------------------------------------------------------
(* worker_infer.                                                           *)

(* _drop_worker: forget the worker, then retire it, then inhibit.          *)
Drop(safety) ==
    /\ worker' = 0 /\ workerKey' = None /\ UNCHANGED workerGen
    /\ op' = [Idle EXCEPT !.at = "retire", !.child = worker, !.why = "lost",
                          !.safety = safety, !.infer = TRUE]
    /\ UNCHANGED <<orphans, life, answer, registry>>

Done(result) ==
    /\ answer' = result /\ op' = Idle
    /\ UNCHANGED <<fields, orphans, life, registry>>

CanAsk == daemon = "up" /\ op.at = "idle" /\ Asked <= MaxFrames

NoWorker == CanAsk /\ worker = 0 /\ Done(NoResult(Asked)) /\ UNCHANGED child

FoundDead ==
    /\ CanAsk /\ worker # 0 /\ ~Alive(worker)
    /\ Drop(FALSE) /\ UNCHANGED child

Put(m) == child' = [child EXCEPT ![worker].inbox = Append(@, m)]

Ask ==
    /\ CanAsk /\ worker # 0 /\ Alive(worker)
    /\ Put(Infer(Asked, child[worker].gen))
    /\ op' = [Idle EXCEPT !.at = "infer", !.infer = TRUE]
    /\ UNCHANGED <<fields, orphans, life, answer, registry>>

(* The deadline of the last receive still bounds the send.                 *)
SendCut ==
    /\ CanAsk /\ worker # 0 /\ Alive(worker) /\ "send" \in Timeouts
    /\ Put(Partial) /\ Done(NoResult(Asked))

Replied == child[worker].outbox # <<>>

(* Mutant: a result that was late is filed under the frame it is of.       *)
ReceiveFiled ==
    /\ At("infer") /\ Replied
    /\ Read(worker)
    /\ LET r == Head(child[worker].outbox) IN
       IF r.type = "partial"          THEN Drop(FALSE)
       ELSE IF r.code = "DEVICE_FAULT" THEN Drop(TRUE)
       ELSE IF r.type = "RESULT" /\ r.code = "OK"
            THEN Done([frame |-> r.of, of |-> r.of, by |-> r.by])
            ELSE Done(NoResult(Asked))

(* The next reply on the stream answers, whichever request it was for.     *)
Receive ==
    /\ At("infer") /\ Replied
    /\ Read(worker)
    /\ LET r == Head(child[worker].outbox) IN
       IF r.type = "partial"          THEN Drop(FALSE)
       ELSE IF r.code = "DEVICE_FAULT" THEN Drop(TRUE)
       ELSE IF r.type = "RESULT" /\ r.code = "OK"
            THEN Done([frame |-> Asked, of |-> r.of, by |-> r.by])
            ELSE Done(NoResult(Asked))

(* A receive that expires keeps the worker ...                             *)
ReceiveLate ==
    /\ At("infer") /\ ~Replied
    /\ child[worker].state = "stuck" \/ "recv" \in Timeouts
    /\ Done(NoResult(Asked)) /\ UNCHANGED child

(* ... also when it has read part of the reply ...                         *)
ReceiveCut ==
    /\ At("infer") /\ Replied /\ "mid" \in Timeouts
    /\ child' = [child EXCEPT ![worker].outbox = <<CutReply>> \o Tail(@)]
    /\ Done(NoResult(Asked))

(* ... and one that would block with no budget left, or finds the stream   *)
(* at its end, is an I/O failure.                                          *)
ReceiveFails ==
    /\ At("infer") /\ ~Replied
    /\ child[worker].state = "dead" \/ "zero" \in Timeouts
    /\ Drop(FALSE) /\ UNCHANGED child

----------------------------------------------------------------------------
(* The child's loop.  At the end of the stream, or inside a message that   *)
(* ends early, it reports a framing error to a closed socket and reads     *)
(* again: no step leaves that loop but a signal.                           *)

Taken(c, new, replies) ==
    child' = [child EXCEPT ![c] =
                [new EXCEPT !.inbox = Tail(@),
                            !.outbox = IF child[c].peer THEN @ \o replies ELSE @]]

TakeLoad(c, m) ==
    \/ Taken(c, [child[c] EXCEPT !.model = m.key, !.gen = m.gen], <<Status("OK")>>)
    \/ Taken(c, [child[c] EXCEPT !.model = None], <<Status("INVALID_MODEL")>>)

(* A frame of the right generation that fits the model is run; the device  *)
(* may fault.                                                              *)
TakeInfer(c, m) ==
    \/ Taken(c, child[c], <<Result("INVALID_ARGS", 0, None)>>)
    \/ /\ m.gen = child[c].gen /\ child[c].model # None
       /\ \/ Taken(c, child[c], <<Result("OK", m.frame, child[c].model)>>)
          \/ Taken(c, child[c], <<Result("DEVICE_FAULT", 0, None)>>)

(* The rest of a cut request is taken from the one after it; what is left  *)
(* of that one is no message either.                                       *)
Spliced(c) == {<<>>, <<Status("INVALID_ARGS")>>, <<Result("OK", 0, child[c].model)>>,
               <<Result("OK", 0, child[c].model), Status("INVALID_ARGS")>>}

TakePartial(c) ==
    /\ Len(child[c].inbox) > 1
    /\ \E replies \in Spliced(c) :
           Taken(c, [child[c] EXCEPT !.inbox[2] = Partial], replies)

Take(c) ==
    /\ child[c].state = "up" /\ child[c].inbox # <<>>
    /\ LET m == Head(child[c].inbox) IN
       \/ m.type = "LOAD" /\ TakeLoad(c, m)
       \/ m.type = "INFER" /\ TakeInfer(c, m)
       \/ m.type = "SHUTDOWN" /\ Taken(c, [child[c] EXCEPT !.state = "dead"], <<>>)
       \/ m.type = "partial" /\ TakePartial(c)
    /\ UNCHANGED <<fields, orphans, life, op, answer, registry>>

(* The process crashes, or sleeps in the driver.                           *)
ChildFails(c) ==
    /\ \/ Alive(c) /\ Ends(c)
       \/ MayHang /\ child[c].state = "up"
          /\ child' = [child EXCEPT ![c].state = "stuck"]
    /\ UNCHANGED <<fields, orphans, life, op, answer, registry>>

----------------------------------------------------------------------------
(* The daemon's life.                                                      *)

(* stop: the worker and then every orphan is retired, without tracking.    *)
Stop ==
    /\ daemon = "up" /\ op.at = "idle" /\ deaths < MaxDeaths
    /\ op' = [Idle EXCEPT !.at = "stop"]
    /\ UNCHANGED <<child, fields, orphans, life, answer, registry>>

StopNext ==
    /\ At("stop")
    /\ \/ /\ worker # 0
          /\ worker' = 0 /\ workerKey' = None
          /\ op' = Retire(worker, "stop")
          /\ UNCHANGED <<workerGen, orphans>>
       \/ /\ worker = 0
          /\ \E c \in orphans : orphans' = orphans \ {c} /\ op' = Retire(c, "stop")
          /\ UNCHANGED fields
    /\ UNCHANGED <<child, life, answer, registry>>

(* The process ends, orderly or not: its memory and its sockets go.        *)
Gone ==
    /\ child' = [c \in Child |-> [child[c] EXCEPT !.peer = FALSE, !.outbox = <<>>]]
    /\ worker' = 0 /\ workerKey' = None /\ workerGen' = 0
    /\ orphans' = {} /\ mine' = {} /\ op' = Idle
    /\ daemon' = "down" /\ deaths' = deaths + 1
    /\ UNCHANGED <<answer, registry>>

(* The lock is free again; a request that waited for it still runs.        *)
StopDone ==
    /\ At("stop") /\ worker = 0 /\ orphans = {}
    /\ op' = Idle /\ daemon' = "closing"
    /\ UNCHANGED <<child, fields, orphans, mine, deaths, answer, registry>>

Exit == daemon = "closing" /\ Gone
Die  == daemon = "up" /\ deaths < MaxDeaths /\ Gone

Boot ==
    /\ daemon = "down" /\ daemon' = "up"
    /\ UNCHANGED <<child, fields, orphans, mine, deaths, op, answer, registry>>

----------------------------------------------------------------------------
SwapStep  == (\E c \in Child : Spawn(c)) \/ SpawnFails \/ Swap \/ LoadFails
             \/ Publish \/ PublishFails \/ Restore
InferStep == Receive \/ ReceiveLate \/ ReceiveCut \/ ReceiveFails
LostStep  == RetireSend \/ Reap \/ Inhibit \/ StopNext \/ StopDone

(* What the holder of _worker_lock does next.                              *)
HolderStep == SwapStep \/ InferStep \/ LostStep

Next ==
    \/ \E k \in Key : Activate(k)
    \/ NoWorker \/ FoundDead \/ Ask \/ SendCut
    \/ HolderStep
    \/ Recover \/ Stop \/ Exit \/ Die \/ Boot
    \/ \E c \in Child : Take(c) \/ ChildFails(c)

Spec == Init /\ [][Next]_vars

----------------------------------------------------------------------------
(* Correctness.                                                            *)

(* Every process, stream, field and row keeps its shape.                   *)
TypeOK ==
    /\ child \in [Child -> [state: {"unborn", "up", "stuck", "dead"},
                            model: Key \cup {None}, gen: Nat, peer: BOOLEAN,
                            inbox: Seq(Requests), outbox: Seq(Replies)]]
    /\ worker \in 0..MaxChildren /\ workerKey \in Key \cup {None} /\ workerGen \in Nat
    /\ orphans \subseteq Child /\ mine \subseteq Child
    /\ op \in OpType
    /\ answer \in [frame: Nat, of: 0..MaxFrames, by: Key \cup {None}]
    /\ active \in {None} \cup [key: Key, gen: Nat]
    /\ inhibition \in {"none", "ordinary", "safety"}
    /\ daemon \in {"up", "closing", "down"} /\ deaths \in Nat

(* Whatever fails between spawn and publication, and whatever a retirement *)
(* leaves alive, the daemon keeps a reference to every live child it has   *)
(* spawned: as its worker, among its orphans, or in the hands of the       *)
(* thread that holds the lock (_retire_or_track, "must never be silently   *)
(* dropped").                                                              *)
Held == {op.child, op.old, worker} \cup orphans

NoLostChild ==
    daemon = "up" /\ "stop" \notin {op.at, op.why}
        => \A c \in mine : Alive(c) => c \in Held

(* When nobody holds the lock, the worker, the three fields about it, the  *)
(* model inside the process and the published row agree, after any         *)
(* sequence of swaps, refusals, rollbacks and losses (activate_worker).    *)
PublishedIdentity ==
    op = Idle /\ worker # 0 =>
        /\ active = [key |-> workerKey, gen |-> workerGen]
        /\ child[worker].model = workerKey /\ child[worker].gen = workerGen
        /\ worker \notin orphans

(* A switch leaves no gap: from the LOAD of the new child to the           *)
(* publication of its identity the old one stays connected, and a rollback *)
(* puts back a worker that can still be asked.                             *)
Switching == op.at = "publish" \/ op.why = "rollback"

Resident == IF Switching THEN op.old ELSE worker

NoServiceGap == Resident # 0 => child[Resident].peer

(* The worker implements the service it promises to the transport: the     *)
(* swap is atomic at publication, answers come from the published model.   *)
Serving == IF Switching THEN op.oldKey ELSE workerKey

Service == INSTANCE WorkerService WITH serving <- Serving, Late <- Timeouts # {}

ServesAsPromised == Service!Spec

(* Every operation that takes the lock gives it back: no exchange with a   *)
(* child that is slow, stuck or dead holds it for ever.                    *)
LockReleased == op # Idle ~> op = Idle

Fairness ==
    /\ WF_vars(HolderStep)
    /\ \A c \in Child : WF_vars(Take(c))

FairSpec == Spec /\ Fairness

----------------------------------------------------------------------------
(* What the documents and comments say and the code does not keep.         *)

(* INTERFACES 3: "Never deliver late results as the answer to a subsequent *)
(* request".                                                               *)
OwnAnswer == answer.by # None => answer.of = answer.frame

(* INTERFACES 3: "Individual client timeouts do not unload/reload a        *)
(* healthy native model".                                                  *)
HealthyKept ==
    [][worker # 0 /\ worker' = 0 /\ op'.why = "lost"
         => ~Alive(worker) \/ op'.safety]_vars

(* SPEC 10: "Worker generation changes on each process start": no          *)
(* published identity repeats the generation of the one before.            *)
GenerationChanges ==
    [][active # None /\ active' # active => active'.gen # active.gen]_vars

Spawned(c) == child[c].state = "unborn" /\ child'[c].state # "unborn"

(* SPEC 10: "any driver/device fault blocks further NPU activation pending *)
(* fxdna recover".                                                         *)
FaultBlocksActivation ==
    [][inhibition = "safety" => \A c \in Child : ~Spawned(c)]_vars

(* SPEC 10: "A child stuck in uninterruptible kernel sleep is not          *)
(* permission to launch another child".                                    *)
NoLaunchOverStuck ==
    [][(\E c \in orphans : child[c].state = "stuck") => \A c \in Child : ~Spawned(c)]_vars

(* recover_ref: "Never bypasses quarantine or safety inhibition": a        *)
(* safety inhibition, once recorded, is not replaced by one that recover   *)
(* clears.                                                                 *)
SafetyStands == [][inhibition = "safety" => inhibition' = "safety"]_vars

(* main.cpp: "structured failure via STATUS if possible, else exit": a     *)
(* child whose daemon is gone exits.                                       *)
LoneChildExits ==
    \A c \in Child : (child[c].state = "up" /\ ~child[c].peer) ~> child[c].state # "up"

(* SPEC 10: "Graceful shutdown: ... terminate the child, wait for          *)
(* cleanup": an orderly exit leaves no child that could be killed.         *)
CleanExit ==
    [][daemon = "closing" /\ daemon' = "down" => \A c \in mine : child[c].state # "up"]_vars
=============================================================================
