----------------------------- MODULE Stability -----------------------------
(***************************************************************************)
(* `fxdna stability run`, `report` and `acknowledge`: a diagnostic that    *)
(* drives the NPU through growing load and leaves, under                   *)
(* /data/stability/<RUN_ID>/, enough durable breadcrumbs that a host reset *)
(* at any instant can be located afterwards (stability_runner.py,          *)
(* observability/stability.py).                                            *)
(*                                                                         *)
(* Every run is a process of its own.  It looks at the journals of earlier *)
(* runs first, then takes manager.lock, then writes its own journal; it    *)
(* may be killed, and the host may reset, between any two steps.  Reports  *)
(* are pure functions of the journals.  Device calls go through the        *)
(* resident worker (ResidentWorker): here only how they end matters.       *)
(***************************************************************************)
EXTENDS Naturals

CONSTANTS
    Run,         \* processes `fxdna stability run`
    None,        \* Python None; an absent file
    MaxInfers,   \* bound: inferences of a calibration or a steady phase
    MaxName,     \* bound: seconds a run id may fall in
    ClockSteps   \* the wall clock may be set back

\* Error codes of a run and exit statuses of its process.
Errors == {"none", "SAFETY_INHIBITED", "NOT_PREPARED", "ACTIVATION_FAILED",
           "TIMEOUT", "WORKER_FAILED", "INTERRUPTED"}
Exits  == {"SUCCESS", "NOT_READY", "DEVICE_UNAVAILABLE",
           "OWNERSHIP_CONFLICT"}

ASSUME StabilityAssumption ==
    /\ None \notin Run \cup Errors \cup Exits \cup {"PASS"}
    /\ MaxInfers \in Nat \ {0} /\ MaxName \in Nat
    /\ ClockSteps \in BOOLEAN

VARIABLES
    pc,        \* what each process is doing
    mem,       \* its counters and flags (class _Run, _StopFlag)
    exit,      \* exit status it left; None: killed, or the exception's
    name,      \* its run id, as its place in the sorted names; 0: none
    meta,      \* metadata.json is there
    timeline,  \* timeline.jsonl: the last record of each phase
    current,   \* current.json: the phase of the checkpoint
    result,    \* result.json: its outcome
    ack,       \* acknowledge.json is there
    shared,    \* history: overlapped with another run that passed the latch
    lock,      \* the run that holds manager.lock
    inhibited  \* the safety inhibition of the registry

process == <<pc, mem, exit>>
journal == <<name, meta, timeline, current, result>>
review  == <<ack, shared>>
host    == <<lock, inhibited>>
vars    == <<process, journal, review, host>>

Profiles == {"smoke", "gentle"}

\* PROFILES: the last phase of each; the order of phases is Rank.
LastPhase(profile) == IF profile = "smoke" THEN "H2" ELSE "H3"

Phases == {"RUN", "H1", "H2", "H3"}
Stages == {"E0", "H1", "H2", "H3"}
Rank   == [none |-> 0, RUN |-> 1, E0 |-> 2, H1 |-> 3, H2 |-> 4, H3 |-> 5]
After  == [E0 |-> "H1", H1 |-> "H2", H2 |-> "H3", H3 |-> "H3"]

Early   == {"idle", "checked", "owner"}
Journal == {"named", "meta", "e0", "gate", "activate", "loop", "infer",
            "close", "finish", "result"}
Leaving == {"done", "raised", "retire"}
Gone    == {"refused", "ended", "dead"}

Memory == [profile: Profiles, phase: Stages, err: Errors,
           stop: Stages \cup {"no"}, left: 0..MaxInfers,
           submitted: Nat, completed: Nat, errors: Nat, timeouts: Nat]

TypeOK ==
    /\ pc \in [Run -> Early \cup Journal \cup Leaving \cup Gone]
    /\ mem \in [Run -> Memory]
    /\ exit \in [Run -> Exits \cup {None}]
    /\ name \in [Run -> 0..MaxName]
    /\ meta \in [Run -> BOOLEAN]
    /\ timeline \in [Run -> [Phases -> {"none", "STARTED", "PASS", "FAIL"}]]
    /\ current \in [Run -> Stages \cup {"none"}]
    /\ result \in [Run -> Errors \cup {"PASS", None}]
    /\ ack \in [Run -> BOOLEAN] /\ shared \in [Run -> BOOLEAN]
    /\ lock \in Run \cup {None}
    /\ inhibited \in BOOLEAN

Fresh == [profile |-> "smoke", phase |-> "E0", err |-> "none", stop |-> "no",
          left |-> 0, submitted |-> 0, completed |-> 0, errors |-> 0,
          timeouts |-> 0]

Init ==
    /\ pc = [i \in Run |-> "idle"]
    /\ mem = [i \in Run |-> Fresh]
    /\ exit = [i \in Run |-> None]
    /\ name = [i \in Run |-> 0]
    /\ meta = [i \in Run |-> FALSE]
    /\ timeline = [i \in Run |-> [p \in Phases |-> "none"]]
    /\ current = [i \in Run |-> "none"]
    /\ result = [i \in Run |-> None]
    /\ ack = [i \in Run |-> FALSE] /\ shared = [i \in Run |-> FALSE]
    /\ lock = None
    /\ inhibited \in BOOLEAN

----------------------------------------------------------------------------
(* Reports.                                                                *)

\* Mutant: a run without a result is interrupted only once it reached H1.
OpenOpsLate(r) == {p \in Phases \ {"RUN"} : timeline[r][p] = "STARTED"}

\* STARTED steps without a COMPLETED one.
OpenOps(r) == {p \in Phases : timeline[r][p] = "STARTED"}

\* detect_interrupted finds an open step and no result.
Interrupted(r) == result[r] = None /\ OpenOps(r) # {}

\* The open step with the highest sequence number.
Position(r) == CHOOSE p \in OpenOps(r) :
                 \A q \in OpenOps(r) : Rank[q] <= Rank[p]

\* Mutant: the first of the sorted names.
LatestFirst == {r \in Run : meta[r] /\ \A q \in Run : meta[q] => name[r] <= name[q]}

\* latest_run: at most one, the last of the sorted names with metadata.
Latest == {r \in Run : meta[r] /\ \A q \in Run : meta[q] => name[q] <= name[r]}

\* The startup latch: the latest run is interrupted and not acknowledged.
Latched == \E r \in Latest : Interrupted(r) /\ ~ack[r]

----------------------------------------------------------------------------
(* Starting.                                                               *)

Alive(i) == pc[i] \notin Gone \cup {"idle"}

\* Inside a device operation: the load of the worker or an inference.
InUse(i) == pc[i] \in {"activate", "infer"}

Goto(i, l) == pc' = [pc EXCEPT ![i] = l]

\* run_stability up to the Supervisor.
Invoke(i) ==
    /\ pc[i] = "idle"
    /\ IF Latched
       THEN /\ Goto(i, "refused")
            /\ exit' = [exit EXCEPT ![i] = "DEVICE_UNAVAILABLE"]
            /\ UNCHANGED <<mem, shared>>
       ELSE /\ Goto(i, "checked")
            /\ \E p \in Profiles : mem' = [mem EXCEPT ![i].profile = p]
            /\ shared' = [r \in Run |-> shared[r] \/
                            IF r = i THEN \E q \in Run : Alive(q) ELSE Alive(r)]
            /\ UNCHANGED exit
    /\ UNCHANGED <<journal, ack, host>>

\* Supervisor(config) takes manager.lock, or gives up when another run, the
\* daemon or a standalone command holds it.
TakeLock(i) ==
    /\ pc[i] = "checked"
    /\ \/ lock = None /\ Goto(i, "owner") /\ lock' = i /\ UNCHANGED exit
       \/ /\ Goto(i, "refused") /\ UNCHANGED lock
          /\ exit' = [exit EXCEPT ![i] = "OWNERSHIP_CONFLICT"]
    /\ UNCHANGED <<mem, journal, review, inhibited>>

\* The run id is the second of the clock: a name no run has, after all
\* others unless the clock was set back (or two fall in one second).
NameRun(i) ==
    /\ pc[i] = "owner"
    /\ \E n \in 1..MaxName :
         /\ \A r \in Run : name[r] # n
         /\ ClockSteps \/ \A r \in Run : name[r] < n
         /\ \A m \in 1..MaxName :
              ~ClockSteps /\ (\A r \in Run : name[r] < m) => n <= m
         /\ name' = [name EXCEPT ![i] = n]
    /\ Goto(i, "named")
    /\ UNCHANGED <<mem, exit, meta, timeline, current, result, review, host>>

WriteMetadata(i) ==
    /\ pc[i] = "named"
    /\ meta' = [meta EXCEPT ![i] = TRUE]
    /\ Goto(i, "meta")
    /\ UNCHANGED <<mem, exit, name, timeline, current, result, review, host>>

StartRun(i) ==
    /\ pc[i] = "meta"
    /\ timeline' = [timeline EXCEPT ![i]["RUN"] = "STARTED"]
    /\ Goto(i, "e0")
    /\ UNCHANGED <<mem, exit, name, meta, current, result, review, host>>

\* phase_e0, on the status read before the metadata: only this process
\* writes the registry since.
PhaseE0(i) ==
    /\ pc[i] = "e0"
    /\ current' = [current EXCEPT ![i] = "E0"]
    /\ \/ /\ ~inhibited
          /\ Goto(i, "gate") /\ UNCHANGED mem
       \/ \E e \in {"SAFETY_INHIBITED", "NOT_PREPARED"} :
            /\ inhibited <=> e = "SAFETY_INHIBITED"
            /\ mem' = [mem EXCEPT ![i].err = e]
            /\ Goto(i, "finish")
    /\ UNCHANGED <<exit, name, meta, timeline, result, review, host>>

----------------------------------------------------------------------------
(* The phases: STARTED, device operations, COMPLETED.                      *)

\* Mutant: the activation begins without a record.
BeginUnrecorded(i) ==
    LET p == After[mem[i].phase] IN
    /\ pc[i] = "gate"
    /\ timeline' = [timeline EXCEPT ![i][p] =
                      IF p = "H1" THEN "none" ELSE "STARTED"]
    /\ mem' = [mem EXCEPT ![i].phase = p,
                          ![i].left = IF p = "H1" THEN 0 ELSE MaxInfers]
    /\ Goto(i, IF p = "H1" THEN "activate" ELSE "loop")
    /\ UNCHANGED <<exit, name, meta, current, result, review, host>>

Begin(i) ==
    LET p == After[mem[i].phase] IN
    /\ pc[i] = "gate"
    /\ timeline' = [timeline EXCEPT ![i][p] = "STARTED"]
    /\ mem' = [mem EXCEPT ![i].phase = p,
                          ![i].left = IF p = "H1" THEN 0 ELSE MaxInfers]
    /\ Goto(i, IF p = "H1" THEN "activate" ELSE "loop")
    /\ UNCHANGED <<exit, name, meta, current, result, review, host>>

\* A failing device operation may have inhibited the device.
MayInhibit == inhibited' \in {inhibited, TRUE}

\* H1: sup.activate returned, or raised; then the probe inference.
Activated(i) ==
    /\ pc[i] = "activate"
    /\ \/ /\ current' = [current EXCEPT ![i] = "H1"]
          /\ mem' = [mem EXCEPT ![i].submitted = @ + 1]
          /\ Goto(i, "infer")
          /\ UNCHANGED inhibited
       \/ /\ mem' = [mem EXCEPT ![i].err = "ACTIVATION_FAILED"]
          /\ Goto(i, "close")
          /\ MayInhibit
          /\ UNCHANGED current
    /\ UNCHANGED <<exit, name, meta, timeline, result, review, lock>>

\* Mutant: the loops do not look at the stop flag.
InferOnceDeaf(i) ==
    /\ pc[i] = "loop"
    /\ mem[i].left > 0
    /\ mem' = [mem EXCEPT ![i].left = @ - 1, ![i].submitted = @ + 1]
    /\ Goto(i, "infer")
    /\ UNCHANGED <<exit, journal, review, host>>

\* One turn of the loops of H2 and H3 that sends a request.
InferOnce(i) ==
    /\ pc[i] = "loop"
    /\ mem[i].stop = "no" /\ mem[i].left > 0
    /\ mem' = [mem EXCEPT ![i].left = @ - 1, ![i].submitted = @ + 1]
    /\ Goto(i, "infer")
    /\ UNCHANGED <<exit, journal, review, host>>

\* H2 ends after its last inference, H3 when its time is over; both at an
\* operator's stop they see before the next inference.
LoopEnds(i) ==
    /\ pc[i] = "loop"
    /\ \/ /\ mem[i].stop # "no"
          /\ mem[i].phase = "H2" => mem[i].left > 0
          /\ mem' = [mem EXCEPT ![i].err = "INTERRUPTED"]
       \/ /\ mem[i].phase = "H2" /\ mem[i].left = 0
          /\ \E e \in {"none", "WORKER_FAILED"} :   \* a median of zero
               mem' = [mem EXCEPT ![i].err = e]
       \/ /\ mem[i].phase = "H3" /\ mem[i].stop = "no"
          /\ UNCHANGED mem
    /\ Goto(i, "close")
    /\ UNCHANGED <<exit, journal, review, host>>

\* Mutant: an answer that came too late is counted but is no error.
AnsweredLateOk(i) ==
    /\ pc[i] = "infer"
    /\ \/ mem' = [mem EXCEPT ![i].completed = @ + 1]
       \/ mem' = [mem EXCEPT ![i].completed = @ + 1, ![i].timeouts = @ + 1]
    /\ Goto(i, IF mem[i].phase = "H1" THEN "close" ELSE "loop")
    /\ UNCHANGED <<exit, journal, review, host>>

\* infer_once returns: ok, ok but late, no answer in time, or a failure.
Answered(i) ==
    LET now == mem[i] IN
    /\ pc[i] = "infer"
    /\ \/ /\ mem' = [mem EXCEPT ![i].completed = @ + 1]
          /\ UNCHANGED inhibited
       \/ /\ mem' = [mem EXCEPT ![i].completed = @ + 1, ![i].timeouts = @ + 1,
                                ![i].err = "TIMEOUT"]
          /\ UNCHANGED inhibited
       \/ /\ mem' = [mem EXCEPT ![i].timeouts = @ + 1, ![i].err = "TIMEOUT"]
          /\ MayInhibit
       \/ /\ mem' = [mem EXCEPT ![i].errors = @ + 1, ![i].err = "WORKER_FAILED"]
          /\ MayInhibit
    /\ IF now.phase = "H1" \/ mem'[i].err # "none"
       THEN Goto(i, "close") /\ UNCHANGED current
       ELSE /\ Goto(i, "loop")
            /\ \/ UNCHANGED current
               \/ /\ now.phase = "H3"      \* at most one checkpoint a second
                  /\ current' = [current EXCEPT ![i] = "H3"]
    /\ UNCHANGED <<exit, name, meta, timeline, result, review, lock>>

\* COMPLETED, then run_stability's look at the stop flag between phases.
Close(i) ==
    LET p == mem[i].phase
        ok == mem[i].err = "none"
        last == p = LastPhase(mem[i].profile)
        halt == ok /\ mem[i].stop # "no" /\ ~last
    IN
    /\ pc[i] = "close"
    /\ timeline' = [timeline EXCEPT ![i][p] = IF ok THEN "PASS" ELSE "FAIL"]
    /\ mem' = [mem EXCEPT ![i].err = IF halt THEN "INTERRUPTED" ELSE @]
    /\ Goto(i, IF ok /\ ~halt /\ ~last THEN "gate" ELSE "finish")
    /\ UNCHANGED <<exit, name, meta, current, result, review, host>>

----------------------------------------------------------------------------
(* Ending.                                                                 *)

\* _exit_for_failure and the exits of _finish_run.
ExitFor(err) ==
    IF err = "none" THEN "SUCCESS"
    ELSE IF err \in {"NOT_PREPARED", "INTERRUPTED"} THEN "NOT_READY"
    ELSE "DEVICE_UNAVAILABLE"

\* _finish: result.json first.
Finish(i) ==
    /\ pc[i] = "finish"
    /\ result' = [result EXCEPT ![i] = IF mem[i].err = "none" THEN "PASS"
                                                             ELSE mem[i].err]
    /\ Goto(i, "result")
    /\ UNCHANGED <<mem, exit, name, meta, timeline, current, review, host>>

\* Then the RUN record.
CompleteRun(i) ==
    /\ pc[i] = "result"
    /\ timeline' = [timeline EXCEPT ![i]["RUN"] =
                      IF mem[i].err = "none" THEN "PASS" ELSE "FAIL"]
    /\ exit' = [exit EXCEPT ![i] = ExitFor(mem[i].err)]
    /\ Goto(i, "done")
    /\ UNCHANGED <<mem, name, meta, current, result, review, host>>

\* A journal write or a call of the supervisor raises: also the checkpoint
\* after a load, though not the load itself.  last_phase, set before the
\* write that begins a phase, is kept for the last checkpoint.
Raise(i) ==
    /\ pc[i] \in Journal
    /\ Goto(i, "raised")
    /\ mem' = [mem EXCEPT ![i] = [Fresh EXCEPT !.phase =
                  IF pc[i] = "gate" THEN After[mem[i].phase] ELSE mem[i].phase]]
    /\ UNCHANGED <<exit, journal, review, host>>

\* The finally block: a last checkpoint if _start_run had returned and
\* the write succeeds, then sup.stop.
LastCheckpoint(i) ==
    /\ pc[i] \in {"done", "raised"}
    /\ current' \in {current,
                     [current EXCEPT ![i] = IF @ = "none" THEN @
                                                          ELSE mem[i].phase]}
    /\ Goto(i, "retire")
    /\ mem' = [mem EXCEPT ![i] = Fresh]
    /\ UNCHANGED <<exit, name, meta, timeline, result, review, host>>

Release(i) == lock' = IF lock = i THEN None ELSE lock

\* The worker is retired, the lock closed, the process ends.
Stop(i) ==
    /\ pc[i] = "retire"
    /\ Goto(i, "ended") /\ Release(i)
    /\ UNCHANGED <<mem, exit, journal, review, inhibited>>

\* SIGTERM or SIGINT once the handlers are installed; when the phases are
\* over nothing looks at the flag any more.
Signal(i) ==
    /\ pc[i] \in Journal \ {"finish", "result"} /\ mem[i].stop = "no"
    /\ mem' = [mem EXCEPT ![i].stop = mem[i].phase]
    /\ UNCHANGED <<pc, exit, journal, review, host>>

\* SIGKILL, or any signal before that.
Kill(i) ==
    /\ Alive(i)
    /\ Goto(i, "dead") /\ Release(i)
    /\ mem' = [mem EXCEPT ![i] = Fresh]
    /\ UNCHANGED <<exit, journal, review, inhibited>>

\* The host resets: every process dies, the journals stay.
HostReset ==
    /\ \E i \in Run : Alive(i)
    /\ pc' = [i \in Run |-> IF Alive(i) THEN "dead" ELSE pc[i]]
    /\ mem' = [i \in Run |-> Fresh]
    /\ lock' = None
    /\ UNCHANGED <<exit, journal, review, inhibited>>

----------------------------------------------------------------------------
(* Acknowledgement and the other owners of the data directory.             *)

\* acknowledge_run, of RUN_ID or of the latest run.  Between its look at the
\* report and the write the run can only get its result, and a report with
\* a result shows no acknowledgement.
Acknowledge(r) ==
    /\ meta[r] /\ ~ack[r] /\ Interrupted(r)
    /\ ack' = [ack EXCEPT ![r] = TRUE]
    /\ UNCHANGED <<process, journal, shared, host>>

\* The daemon or a standalone command owned the data directory for a while
\* and inhibited the device or cleared that.
OtherOwner ==
    /\ lock = None
    /\ inhibited' = ~inhibited
    /\ UNCHANGED <<process, journal, review, lock>>

RunSteps(i) ==
    \/ TakeLock(i) \/ NameRun(i) \/ WriteMetadata(i) \/ StartRun(i)
    \/ PhaseE0(i) \/ Begin(i) \/ Activated(i) \/ InferOnce(i) \/ LoopEnds(i)
    \/ Answered(i) \/ Close(i) \/ Finish(i) \/ CompleteRun(i)
    \/ LastCheckpoint(i) \/ Stop(i)

Next ==
    \/ \E i \in Run :
         RunSteps(i) \/ Invoke(i) \/ Raise(i) \/ Signal(i) \/ Kill(i)
         \/ Acknowledge(i)
    \/ HostReset \/ OtherOwner

Spec == Init /\ [][Next]_vars

----------------------------------------------------------------------------
(* Properties.                                                             *)

\* A host reset during any device operation leaves a report that says
\* interrupted, at the phase of that operation, with no later checkpoint.
DeviceRecorded ==
    \A i \in Run : InUse(i) =>
        /\ Interrupted(i) /\ Position(i) = mem[i].phase
        /\ Rank[current[i]] <= Rank[mem[i].phase]

\* However a recorded run ended, its report shows a result or an
\* interruption, and never both.
NothingLost ==
    \A r \in Run : pc[r] \in {"dead", "ended"} /\ timeline[r]["RUN"] # "none"
        => (result[r] = None <=> Interrupted(r))

\* PASS, and exit 0, mean that every phase of the profile was completed
\* and every inference answered well and in time.
PassIsEarned ==
    \A r \in Run :
        /\ exit[r] = "SUCCESS" => result[r] = "PASS"
        /\ result[r] = "PASS" => /\ timeline[r]["H1"] = "PASS"
                                 /\ timeline[r]["H2"] = "PASS"
        /\ result[r] = "PASS" /\ pc[r] \in {"result", "done"} =>
             /\ timeline[r][LastPhase(mem[r].profile)] = "PASS"
             /\ mem[r].submitted = mem[r].completed
             /\ mem[r].errors = 0 /\ mem[r].timeouts = 0

\* No device operation once a phase failed, nor in a later phase than the
\* one in which the operator asked to stop (the activation may follow a
\* stop asked for during E0).
NoEscalation ==
    \A i \in Run : InUse(i) =>
        /\ mem[i].err = "none"
        /\ \A p \in Phases \ {"RUN"} :
             Rank[p] < Rank[mem[i].phase] => timeline[i][p] = "PASS"
        /\ \/ mem[i].stop \in {"no", mem[i].phase}
           \/ mem[i].stop = "E0" /\ mem[i].phase = "H1"

\* Unless two runs overlapped, or the clock was set back, no run uses the
\* device before every interrupted run was acknowledged: every one, though
\* the latch looks at the latest one only.
Reviewed ==
    ~ClockSteps =>
    \A i \in Run : InUse(i) =>
        \A r \in Run \ {i} :
            pc[r] \in {"dead", "ended"} /\ Interrupted(r) => ack[r] \/ shared[r]

\* What the documentation says and the code does not do.
\* "Refuses to start while the previous run is interrupted-and-
\* unacknowledged": also when the two were started at about the same time.
LatchHolds ==
    \A i \in Run : InUse(i) =>
        \A r \in Run \ {i} :
            pc[r] \in {"dead", "ended"} /\ Interrupted(r) => ack[r]

\* "Acknowledge after reviewing the host": not while the run goes on.
ReviewedAfterwards ==
    [][\A r \in Run : ack'[r] /\ ~ack[r] => ~Alive(r)]_vars

\* "Every device-sensitive transition is durably recorded before it
\* begins and only marked COMPLETED after it ends": the retirement too.
RetirementRecorded ==
    \A i \in Run : pc[i] = "retire" /\ timeline[i]["H1"] = "PASS"
                   => Interrupted(i)

\* "Operator stop between phases: do not escalate to the next
\* device-sensitive phase": nor from E0 to the activation.
StopIsObeyed ==
    \A i \in Run : InUse(i) => mem[i].stop \in {"no", mem[i].phase}

\* A run with metadata that is not alive has a result or is interrupted:
\* acknowledge says "has a final result" of every other one.
RefusalIsTrue ==
    \A r \in Run : meta[r] /\ pc[r] \in {"dead", "ended"} /\ ~Interrupted(r)
                   => result[r] # None
=============================================================================
