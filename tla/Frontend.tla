------------------------------ MODULE Frontend ------------------------------
(***************************************************************************)
(* The ZMQ frontend for stock Frigate clients (transport/frigate_zmq.py,   *)
(* transport/sessions.py) over the resident worker's service: a receiving  *)
(* task fills a bounded queue, one worker task empties it, and while that  *)
(* task awaits a thread (an activation, an inference) admin threads        *)
(* activate models behind its back and a compile probes the device.        *)
(*                                                                         *)
(* A client is a REQ socket, one routing identity with at most one request *)
(* under way; one that gives up comes back as another identity.  The model *)
(* whose bytes it transfers is fixed.  Clocks are abstracted: a binding is *)
(* recent until QUIESCENCE_S have passed, a queued request may be past its *)
(* deadline when it is taken.                                              *)
(***************************************************************************)
EXTENDS Integers, Sequences, FiniteSets

CONSTANTS
    Identity,       \* routing identities
    Key,            \* compile keys
    None,           \* Python None
    QUEUE_MAX,      \* capacity of the request queue
    AdminActivates, \* operators run `fxdna activate`
    Faults,         \* exceptions other than FxdnaError that calls may raise
    MaxFrames,      \* bound: inferences
    MaxSwitches     \* bound: automatic switches

(* An identity's binding (sessions.py, Session).                           *)
Binding == [key: Key, gen: Nat, recent: BOOLEAN]

(* "ingest": out of ingest_zmq_bytes; "record": out of activate_worker,    *)
(* when it records the native check of the worker it has just swapped in.  *)
ASSUME FrontendAssumption ==
    /\ None \notin Key /\ None \notin Binding
    /\ QUEUE_MAX \in Nat \ {0}
    /\ AdminActivates \in BOOLEAN
    /\ Faults \subseteq {"ingest", "record"}
    /\ MaxFrames \in Nat /\ MaxSwitches \in Nat

VARIABLES
    wants,       \* the model each client transfers
    owed,        \* requests received from each identity less replies sent to it
    last,        \* the last reply to each: is it loaded, whose result it got
    queue,       \* FrigateZmqFrontend._queue
    loop,        \* where _worker_loop is
    sessions,    \* SessionTable._by_identity
    superseded,  \* SessionTable.superseded
    generation,  \* FrigateZmqFrontend._generation
    activeKey,   \* FrigateZmqFrontend._active_artifact
    prepared,    \* keys with a prepared artifact
    lease,       \* who holds /data/device.lock
    serving,     \* the resident worker: the model that serves
    answer       \* ... and its last answer

clients  == <<wants, owed, last>>
frontend == <<queue, loop, sessions, superseded, generation, activeKey>>
worker   == <<serving, answer>>
vars     == <<clients, frontend, prepared, lease, worker>>

Worker == INSTANCE WorkerService WITH Late <- FALSE

----------------------------------------------------------------------------
Kinds   == {"available", "transfer", "infer"}
Request == [id: Identity, kind: Kinds]
Idle    == [at |-> "idle"]
Reply   == [loaded: BOOLEAN, by: Key \cup {None}]

LoopType == {Idle, [at |-> "dead"]} \cup
            [at: {"activating", "refused", "activated"}, id: Identity, key: Key] \cup
            [at: {"infer"}, id: Identity]

Init ==
    /\ wants \in [Identity -> Key]
    /\ owed = [i \in Identity |-> 0]
    /\ last = [i \in Identity |-> [loaded |-> FALSE, by |-> None]]
    /\ queue = <<>> /\ loop = Idle
    /\ sessions = [i \in Identity |-> None]
    /\ superseded = {} /\ generation = 0 /\ activeKey = None
    /\ prepared = {} /\ lease = None
    /\ Worker!Init

----------------------------------------------------------------------------
(* Replies.  The ROUTER returns each to the identity that asked.           *)

ReplyModel(i, loaded) ==
    /\ owed' = [owed EXCEPT ![i] = @ - 1]
    /\ last' = [last EXCEPT ![i].loaded = loaded]
    /\ UNCHANGED wants

ReplyFrame(i, by) ==
    /\ owed' = [owed EXCEPT ![i] = @ - 1]
    /\ last' = [last EXCEPT ![i].by = by]
    /\ UNCHANGED wants

(* bind: the identity belongs to the generation that is current.           *)
Bind(table, i, k, g) == [table EXCEPT ![i] = [key |-> k, gen |-> g, recent |-> TRUE]]

Touch(i) == sessions' = [sessions EXCEPT ![i] =
                            IF @ = None THEN None ELSE [@ EXCEPT !.recent = TRUE]]

Current(i) == sessions[i] # None /\ sessions[i].gen = generation

(* is_quiescent.                                                           *)
Quiescent == \A i \in Identity : Current(i) => ~sessions[i].recent

----------------------------------------------------------------------------
(* Clients and the receiving task.  A client infers once it has been told  *)
(* that its model is loaded.                                               *)

(* Mutant: the queue has no bound.                                         *)
ReceiveAlways(i, kind) ==
    /\ owed[i] = 0
    /\ kind = "infer" => last[i].loaded
    /\ queue' = Append(queue, [id |-> i, kind |-> kind])
    /\ owed' = [owed EXCEPT ![i] = @ + 1]
    /\ UNCHANGED <<wants, last, loop, sessions, superseded, generation, activeKey, prepared,
                   lease, worker>>

Receive(i, kind) ==
    /\ owed[i] = 0
    /\ kind = "infer" => last[i].loaded
    /\ \/ /\ Len(queue) < QUEUE_MAX
          /\ queue' = Append(queue, [id |-> i, kind |-> kind])
          /\ owed' = [owed EXCEPT ![i] = @ + 1]
          /\ UNCHANGED <<wants, last>>
       \/ /\ Len(queue) = QUEUE_MAX              \* RESOURCE_EXCEEDED
          /\ last' = [last EXCEPT ![i] = [loaded |-> @.loaded /\ kind = "infer", by |-> None]]
          /\ UNCHANGED <<wants, owed, queue>>
    /\ UNCHANGED <<loop, sessions, superseded, generation, activeKey, prepared, lease, worker>>

(* QUIESCENCE_S pass since the binding was last used.                      *)
Quiesce(i) ==
    /\ sessions[i] # None /\ sessions[i].recent
    /\ sessions' = [sessions EXCEPT ![i].recent = FALSE]
    /\ UNCHANGED <<clients, queue, loop, superseded, generation, activeKey, prepared,
                   lease, worker>>

----------------------------------------------------------------------------
(* The worker task.                                                        *)

Head1  == Head(queue)
Takes(kind) == loop = Idle /\ queue # <<>> /\ Head1.kind = kind /\ queue' = Tail(queue)

(* Past its deadline: answered, not started.                               *)
Expired ==
    /\ \E kind \in Kinds :
          /\ Takes(kind)
          /\ IF kind = "infer" THEN ReplyFrame(Head1.id, None) ELSE ReplyModel(Head1.id, FALSE)
    /\ UNCHANGED <<loop, sessions, superseded, generation, activeKey, prepared, lease, worker>>

(* _handle_model_request.                                                  *)
ModelRequest ==
    /\ Takes("available")
    /\ LET i == Head1.id
           bound == Current(i) /\ activeKey # None
       IN  /\ ReplyModel(i, bound)
           /\ IF bound THEN Touch(i) ELSE UNCHANGED sessions
    /\ UNCHANGED <<loop, superseded, generation, activeKey, prepared, lease, worker>>

(* _handle_model_data: the transfer is refused, or nothing is prepared for *)
(* it yet ...                                                              *)
NotPrepared ==
    /\ Takes("transfer")
    /\ ReplyModel(Head1.id, FALSE)
    /\ UNCHANGED <<loop, sessions, superseded, generation, activeKey, prepared, lease, worker>>

(* ... or the ingestion raises what the handler does not catch, and the    *)
(* task is over ...                                                        *)
IngestRaises ==
    /\ Takes("transfer") /\ "ingest" \in Faults
    /\ loop' = [at |-> "dead"]
    /\ UNCHANGED <<clients, sessions, superseded, generation, activeKey, prepared, lease, worker>>

Bound(i, k) ==
    /\ sessions' = Bind(sessions, i, k, generation)
    /\ ReplyModel(i, TRUE)
    /\ UNCHANGED <<loop, lease>>

(* Mutant: the caller is taken to reply.                                   *)
InUseSilent(i) == UNCHANGED <<clients, loop, sessions, lease>>

InUse(i) == ReplyModel(i, FALSE) /\ UNCHANGED <<loop, sessions, lease>>

(* _try_activate takes the device lease first.                             *)
TryActivate(i, k) ==
    IF lease = None
    THEN /\ loop' = [at |-> "activating", id |-> i, key |-> k]
         /\ lease' = "frontend"
         /\ UNCHANGED <<clients, sessions>>
    ELSE ReplyModel(i, FALSE) /\ UNCHANGED <<loop, sessions, lease>>

(* Mutant: nobody asks whether the active model is in use.                 *)
PreparedAtOnce ==
    /\ Takes("transfer")
    /\ LET i == Head1.id
           k == wants[i]
       IN  /\ k \in prepared
           /\ IF activeKey # None /\ k = activeKey THEN Bound(i, k)
              ELSE /\ generation < MaxSwitches \/ activeKey = None
                   /\ TryActivate(i, k)
    /\ UNCHANGED <<superseded, generation, activeKey, prepared, worker>>

(* ... or its artifact is prepared: _handle_prepared decides.              *)
Prepared ==
    /\ Takes("transfer")
    /\ LET i == Head1.id
           k == wants[i]
       IN  /\ k \in prepared
           /\ IF activeKey # None /\ k = activeKey         THEN Bound(i, k)
              ELSE IF activeKey # None /\ ~Quiescent THEN InUse(i)
              ELSE /\ generation < MaxSwitches \/ activeKey = None
                   /\ TryActivate(i, k)
    /\ UNCHANGED <<superseded, generation, activeKey, prepared, worker>>

(* activate_worker on its thread: it swaps the worker and says so, refuses *)
(* (also when the artifact is not usable), or swaps and then raises.       *)
Swapped ==
    /\ loop.at = "activating"
    /\ Worker!Activate(loop.key)
    /\ \E at \in {"activated"} \cup (IF "record" \in Faults THEN {"refused"} ELSE {}) :
           loop' = [loop EXCEPT !.at = at]
    /\ UNCHANGED <<clients, queue, sessions, superseded, generation, activeKey, prepared, lease>>

Refused ==
    /\ loop.at = "activating"
    /\ loop' = [loop EXCEPT !.at = "refused"]
    /\ UNCHANGED <<clients, queue, sessions, superseded, generation, activeKey, prepared,
                   lease, worker>>

(* Mutant: the failed activation is not reported.                          *)
ActivationFailedSilent ==
    /\ loop.at = "refused"
    /\ lease' = None /\ loop' = Idle
    /\ UNCHANGED <<clients, queue, sessions, superseded, generation, activeKey, prepared,
                   worker>>

ActivationFailed ==
    /\ loop.at = "refused"
    /\ lease' = None /\ loop' = Idle
    /\ ReplyModel(loop.id, FALSE)
    /\ UNCHANGED <<queue, sessions, superseded, generation, activeKey, prepared, worker>>

(* Mutant: a switch does not open a generation.                            *)
ActivatedInPlace ==
    /\ loop.at = "activated"
    /\ lease' = None /\ loop' = Idle
    /\ activeKey' = loop.key
    /\ sessions' = Bind(sessions, loop.id, loop.key, generation)
    /\ ReplyModel(loop.id, TRUE)
    /\ UNCHANGED <<queue, superseded, generation, prepared, worker>>

(* The first model takes the current generation; the next one opens a new  *)
(* generation, whose only binding is the one that asked for it.            *)
Activated ==
    /\ loop.at = "activated"
    /\ lease' = None /\ loop' = Idle
    /\ activeKey' = loop.key
    /\ IF activeKey = None
       THEN /\ sessions' = Bind(sessions, loop.id, loop.key, generation)
            /\ UNCHANGED <<superseded, generation>>
       ELSE /\ generation' = generation + 1
            /\ LET kept == [i \in Identity |-> IF Current(i) THEN None ELSE sessions[i]]
               IN  sessions' = Bind(kept, loop.id, loop.key, generation + 1)
            /\ superseded' = superseded \cup {activeKey}
    /\ ReplyModel(loop.id, TRUE)
    /\ UNCHANGED <<queue, prepared, worker>>

(* _handle_infer: without a current binding the zero frame, otherwise the  *)
(* worker is asked on a thread ...                                         *)
Unbound ==
    /\ Takes("infer")
    /\ ~Current(Head1.id)
    /\ ReplyFrame(Head1.id, None)
    /\ UNCHANGED <<loop, sessions, superseded, generation, activeKey, prepared, lease, worker>>

(* Mutant: the binding is not checked.                                     *)
InferUnbound ==
    /\ Takes("infer") /\ answer.frame < MaxFrames
    /\ loop' = [at |-> "infer", id |-> Head1.id]
    /\ UNCHANGED <<clients, sessions, superseded, generation, activeKey, prepared, lease, worker>>

Infer ==
    /\ Takes("infer")
    /\ Current(Head1.id) /\ answer.frame < MaxFrames
    /\ loop' = [at |-> "infer", id |-> Head1.id]
    /\ UNCHANGED <<clients, sessions, superseded, generation, activeKey, prepared, lease, worker>>

(* ... which may find it dead or faulty and drop it ...                    *)
WorkerLost ==
    /\ loop.at = "infer" /\ serving # None
    /\ Worker!Lose
    /\ UNCHANGED <<clients, frontend, prepared, lease>>

(* ... and answers with its result, or with the zero frame.                *)
Inferred ==
    /\ loop.at = "infer"
    /\ Worker!Answer \/ Worker!Refuse
    /\ ReplyFrame(loop.id, answer'.by)
    /\ Touch(loop.id)
    /\ loop' = Idle
    /\ UNCHANGED <<queue, superseded, generation, activeKey, prepared, lease>>

----------------------------------------------------------------------------
(* The other threads.                                                      *)

(* Supervisor.activate, for an operator.                                   *)
AdminActivate(k) ==
    /\ AdminActivates /\ k \in prepared
    /\ Worker!Activate(k)
    /\ UNCHANGED <<clients, frontend, prepared, lease>>

(* A compile of k ends with a probe of its artifact on the device, unless  *)
(* the lease is held, and is published when the probe does not fail.       *)
ProbeStarts(k) ==
    /\ k \notin prepared /\ lease = None
    /\ lease' = k
    /\ UNCHANGED <<clients, frontend, prepared, worker>>

ProbeEnds ==
    /\ lease \in Key
    /\ prepared' \in {prepared, prepared \cup {lease}} /\ lease' = None
    /\ UNCHANGED <<clients, frontend, worker>>

ProbeSkipped(k) ==
    /\ k \notin prepared /\ lease # None
    /\ prepared' = prepared \cup {k}
    /\ UNCHANGED <<clients, frontend, lease, worker>>

----------------------------------------------------------------------------
LoopStep ==
    \/ Expired \/ ModelRequest \/ NotPrepared \/ IngestRaises \/ Prepared
    \/ Swapped \/ Refused \/ ActivationFailed \/ Activated
    \/ Unbound \/ Infer \/ Inferred

Next ==
    \/ \E i \in Identity : Quiesce(i) \/ \E kind \in Kinds : Receive(i, kind)
    \/ LoopStep
    \/ WorkerLost
    \/ \E k \in Key : AdminActivate(k) \/ ProbeStarts(k) \/ ProbeSkipped(k)
    \/ ProbeEnds

Spec == Init /\ [][Next]_vars

----------------------------------------------------------------------------
(* Correctness.                                                            *)

Busy == loop.at \notin {"idle", "dead"}

(* Every table, queue and field keeps its shape.                           *)
TypeOK ==
    /\ wants \in [Identity -> Key]
    /\ owed \in [Identity -> Int]
    /\ last \in [Identity -> Reply]
    /\ queue \in Seq(Request) /\ Len(queue) <= QUEUE_MAX
    /\ loop \in LoopType
    /\ sessions \in [Identity -> Binding \cup {None}]
    /\ superseded \subseteq Key /\ generation \in Nat
    /\ activeKey \in Key \cup {None} /\ prepared \subseteq Key
    /\ lease \in Key \cup {None, "frontend"}
    /\ serving \in Key \cup {None}
    /\ answer \in [frame: Nat, of: Nat, by: Key \cup {None}]

(* Whatever branch a request takes - refused, expired, in use, activated   *)
(* after an await, refused after an await - one reply is sent for it, and  *)
(* none while it is still in hand (the handlers' early returns, the "True  *)
(* if replied" of _handle_prepared), as long as the worker task lives.     *)
Pending(i) == Cardinality({n \in 1..Len(queue) : queue[n].id = i})
              + (IF Busy /\ loop.id = i THEN 1 ELSE 0)

OneReply == loop.at # "dead" => \A i \in Identity : owed[i] = Pending(i)

(* The bindings of the current generation are all to the artifact that is  *)
(* active, and each to the bytes its own client transferred, across any    *)
(* sequence of switches (bind, invalidate_generation).                     *)
BindingsMatch ==
    \A i \in Identity :
        /\ Current(i) => sessions[i].key = activeKey
        /\ sessions[i] # None => sessions[i].key = wants[i] /\ sessions[i].gen <= generation

(* A client never gets a result of another model than the one whose bytes  *)
(* it transferred: its binding is checked before the await and the model   *)
(* answers after it.                                                       *)
RightModel == \A i \in Identity : last[i].by \in {None, wants[i]}

(* The model is switched automatically only while nobody uses the old one: *)
(* what was quiescent before the activation's awaits is so after them      *)
(* (has_active_traffic).                                                   *)
SwitchWhenQuiescent == [][generation' # generation => Quiescent]_vars

(* Liveness.  The event loop runs the worker task for as long as it can    *)
(* run; activations and inferences are bounded by their deadlines.         *)
Fairness == WF_vars(LoopStep)
FairSpec == Spec /\ Fairness

(* Every request is answered.                                              *)
EveryRequestAnswered == \A i \in Identity : owed[i] > 0 ~> owed[i] = 0

----------------------------------------------------------------------------
(* What the documents and comments say and the code does not keep.         *)

(* SPEC 6.3: "Stale requests must never run against the new model", with   *)
(* the administrative activation that section prescribes.                  *)
NoCrossModel == RightModel

(* SPEC 6.3: "remember superseded A as ineligible for automatic            *)
(* reactivation".                                                          *)
SupersededStaysOut == [][activeKey' # activeKey => activeKey' \notin superseded]_vars

(* SPEC 6.4: after worker death "never keep advertising loaded status".    *)
Advertises(i) == ~last[i].loaded /\ last'[i].loaded

NotAdvertised == [][\A i \in Identity : Advertises(i) => serving' # None]_vars

(* SPEC 6.3: a switch "only when no old-generation request is in flight":  *)
(* when it is decided, no client of the old model waits in the queue.      *)
SwitchWhenDrained ==
    [][loop.at = "idle" /\ loop'.at = "activating" /\ activeKey # None =>
          \A n \in 2..Len(queue) : queue[n].kind = "infer" => ~Current(queue[n].id)]_vars

(* INTERFACES 3: "Each request receives exactly one reply", also when the  *)
(* ingestion of a transfer raises.                                         *)
AnsweredDespiteFaults == EveryRequestAnswered

(* probe_artifact: "no second NPU client ever polls".                      *)
NoSecondClient == lease \in Key => serving = None
=============================================================================
