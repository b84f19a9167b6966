---------------------------- MODULE RetryPolicy ----------------------------
(***************************************************************************)
(* The pure part of the job subsystem: how a terminal preparation outcome  *)
(* is classified, and when its failure record lets the daemon, or an       *)
(* operator, open another attempt (retry_policy.py, JobManager's           *)
(* _requeue_prev).  Vendor text is abstracted to the evidence it matches:  *)
(* "memlock" the locked-memory mmap pattern, "probe" a failed native       *)
(* probe, "timeout" a deadline.  Time is abstracted to one bit: due, the   *)
(* record's not_before has passed.                                         *)
(***************************************************************************)
EXTENDS Naturals

MAX_ATTEMPTS == 3

TerminalErrors == {"COMPILE_FAILED", "RESOURCE_EXCEEDED", "VALIDATION_FAILED",
                   "UNSUPPORTED_CONTRACT", "QUARANTINED", "INTERRUPTED"}

PermanentStages == {"UNSUPPORTED_CONTRACT", "VALIDATION_FAILED", "QUARANTINED",
                    "SOURCE_CHANGED", "CACHE_CORRUPT", "INVALID_MODEL"}

SafetyCodes == {"QUARANTINED", "SAFETY_INHIBITED", "DEVICE_FAULT"}

PermanentCodes ==
    SafetyCodes \cup
    {"AUTH_FAILED", "UNSUPPORTED_CONTRACT", "INVALID_ARGS", "INVALID_MODEL",
     "INVALID_CONFIG", "SOURCE_CHANGED", "CACHE_CORRUPT", "NOT_PREPARED",
     "OWNERSHIP_CONFLICT", "MODEL_IN_USE", "DEVICE_BUSY", "VALIDATION_FAILED",
     "ACTIVATION_FAILED"}

EvidenceTags == {"memlock", "probe", "timeout"}

Kinds == {"transient", "config_blocked", "permanent", "safety", "unknown",
          "interrupted_safe"}

----------------------------------------------------------------------------
(* classify: safety first, then permanent, then the evidence found in the  *)
(* vendor text.                                                            *)

EvidenceKind(evidence, memlockOk) ==
    IF "memlock" \in evidence
    THEN IF memlockOk THEN "unknown" ELSE "config_blocked"
    ELSE IF "probe" \in evidence   THEN "permanent"
    ELSE IF "timeout" \in evidence THEN "transient"
    ELSE "unknown"

Classify(stage, code, evidence, memlockOk) ==
    IF stage = "INTERRUPTED"                              THEN "interrupted_safe"
    ELSE IF stage = "QUARANTINED" \/ code \in SafetyCodes THEN "safety"
    ELSE IF "RESOURCE_EXCEEDED" \in {stage, code}         THEN "transient"
    ELSE IF stage \in PermanentStages \/ code \in PermanentCodes
                                                          THEN "permanent"
    ELSE EvidenceKind(evidence, memlockOk)

----------------------------------------------------------------------------
(* The failure_json column.  "null" is SQL NULL, "carried" the record of a *)
(* running retry, which holds resumed_from and history and no phase.       *)

RecordKinds == Kinds \cup {"null", "carried"}

Record(kind) == [kind |-> kind, due |-> FALSE, to |-> 0, refused |-> FALSE]

(* NULL, as the SQL of _reconcile_jobs and _requeue_prev see it: stamping a *)
(* refusal or a successor on a NULL record makes it a non-NULL one.         *)
IsNull(rec) == rec.kind = "null" /\ rec.to = 0 /\ ~rec.refused

(* Mutants of the next definition: the attempt bound off by one, the       *)
(* memlock check applied to every kind.                                    *)
AutoEligibleOnceMore(rec, attempt, memlockOk) ==
    /\ rec.to = 0 /\ ~rec.refused /\ attempt <= MAX_ATTEMPTS
    /\ rec.kind = "transient" => rec.due
    /\ rec.kind = "config_blocked" => memlockOk
    /\ rec.kind \in {"transient", "config_blocked", "interrupted_safe"}

AutoEligibleMemlock(rec, attempt, memlockOk) ==
    /\ rec.to = 0 /\ ~rec.refused /\ attempt < MAX_ATTEMPTS /\ memlockOk
    /\ rec.kind = "transient" => rec.due
    /\ rec.kind \in {"transient", "config_blocked", "interrupted_safe"}

(* auto_eligible: the daemon may open attempt + 1 now.                      *)
AutoEligible(rec, attempt, memlockOk) ==
    /\ rec.to = 0
    /\ ~rec.refused
    /\ attempt < MAX_ATTEMPTS
    /\ \/ rec.kind = "transient" /\ rec.due
       \/ rec.kind = "config_blocked" /\ memlockOk
       \/ rec.kind = "interrupted_safe"

(* _requeue_prev: an operator's recover may open a fresh cycle.             *)
OperatorEligible(rec, stage) ==
    IF IsNull(rec)
    THEN stage \notin {"QUARANTINED", "VALIDATION_FAILED", "UNSUPPORTED_CONTRACT"}
    ELSE rec.kind \notin {"safety", "permanent", "null", "carried"}
=============================================================================
