----------------------------- MODULE JobHistory -----------------------------
(***************************************************************************)
(* What the jobs table tells whoever reads it (compiler/jobs.py): a log of *)
(* attempts that only grows.  An attempt is open until it ends once; its   *)
(* end is classified once; what failed may be followed by an attempt for   *)
(* the same ref and bytes, unless it failed for good or an inhibition      *)
(* stands; and refs join open attempts and go with them to the next one.   *)
(* JobManager implements it.                                               *)
(***************************************************************************)
EXTENDS Integers, Sequences

CONSTANTS
    Ref,      \* model references
    Key,      \* compile keys
    Kind,     \* what a failure may be classified as
    Final,    \* the kinds that no attempt follows
    Open      \* not classified

VARIABLES
    log,       \* the attempts, in the order they were opened
    joined,    \* pairs <<attempt, ref>>
    inhibited  \* an inhibition stands

vars == <<log, joined, inhibited>>

Attempt(r, k, n) ==
    [ref |-> r, key |-> k, attempt |-> n, state |-> "open", kind |-> Open, next |-> 0]

Refs(u) == {log[u].ref} \cup {r \in Ref : <<u, r>> \in joined}

Init == log = <<>> /\ joined = {} /\ inhibited = FALSE

(* A first attempt, and a ref that joins one that is open.                 *)
Start(r, k) ==
    /\ log' = Append(log, Attempt(r, k, 1))
    /\ UNCHANGED <<joined, inhibited>>

Join(u, r) ==
    /\ log[u].state = "open"
    /\ joined' = joined \cup {<<u, r>>}
    /\ UNCHANGED <<log, inhibited>>

(* An open attempt finds an artifact, or has compiled one, which is then   *)
(* published: prepared is for good.                                        *)
Progress(u) ==
    /\ \/ log[u].state = "open" /\ \E s \in {"publishing", "prepared"} :
                                        log' = [log EXCEPT ![u].state = s]
       \/ log[u].state = "publishing" /\ log' = [log EXCEPT ![u].state = "prepared"]
    /\ UNCHANGED <<joined, inhibited>>

(* Or it fails, which may be classified at once ...                        *)
Fail(u) ==
    /\ log[u].state \in {"open", "publishing"}
    /\ \E kind \in Kind \cup {Open} :
          log' = [log EXCEPT ![u].state = "failed", ![u].kind = kind]
    /\ UNCHANGED <<joined, inhibited>>

(* ... or later; a successor that came in between is no longer named.      *)
Classify(u) ==
    /\ log[u].state = "failed" /\ log[u].kind = Open
    /\ \E kind \in Kind : log' = [log EXCEPT ![u].kind = kind, ![u].next = 0]
    /\ UNCHANGED <<joined, inhibited>>

(* The next attempt after a failed one, with the next number or the first  *)
(* of a new cycle; a failure that is not classified may be on the way.     *)
Resume(u) ==
    LET new   == Len(log) + 1
        kinds == IF log[u].kind = Open THEN Kind \cup {Open} ELSE {log[u].kind}
    IN  /\ ~inhibited /\ log[u].state = "failed"
        /\ \E kind \in kinds \ Final, n \in {1, log[u].attempt + 1} :
              log' = Append([log EXCEPT ![u].kind = kind, ![u].next = new],
                            Attempt(log[u].ref, log[u].key, n))
        /\ joined' = joined \cup {<<new, r>> : r \in Refs(u) \ {log[u].ref}}
        /\ UNCHANGED inhibited

Inhibit == inhibited' \in BOOLEAN /\ UNCHANGED <<log, joined>>

Next ==
    \/ \E r \in Ref, k \in Key : Start(r, k)
    \/ \E u \in DOMAIN log : \/ \E r \in Ref : Join(u, r)
                             \/ Progress(u) \/ Fail(u) \/ Classify(u) \/ Resume(u)
    \/ Inhibit

Spec == Init /\ [][Next]_vars
=============================================================================
