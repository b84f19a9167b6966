---------------------------- MODULE WorkerService ----------------------------
(***************************************************************************)
(* What the resident worker promises the transport (supervisor.py,         *)
(* activate_worker and worker_infer): one model serves at a time, the      *)
(* switch from one to the next is atomic, and each request for inference   *)
(* gets one answer, computed by the model that serves and, when no         *)
(* deadline cuts an exchange short, from the frame that was sent with it.  *)
(*                                                                         *)
(* Frames are numbered in the order they are sent.                         *)
(***************************************************************************)
EXTENDS Naturals

CONSTANTS
    Key,    \* compile keys of prepared artifacts
    None,   \* no model
    Late    \* whether the result of an earlier frame may be the answer

VARIABLES
    serving,  \* the key of the model that serves, or None
    answer    \* the last answer: to which frame, of which frame, by which model

NoResult(n) == [frame |-> n, of |-> 0, by |-> None]

Init == serving = None /\ answer = NoResult(0)

Asked == answer.frame + 1

(* The model k serves from now on ...                                      *)
Activate(k) == serving' = k /\ UNCHANGED answer

(* ... the worker is lost, and nothing takes its place by itself ...       *)
Lose == serving' = None /\ UNCHANGED answer

(* ... a frame is answered.  of = 0 is a result of no one frame.           *)
Answer ==
    /\ serving # None
    /\ \E of \in (IF Late THEN 0..Asked ELSE {Asked}) :
           answer' = [frame |-> Asked, of |-> of, by |-> serving]
    /\ UNCHANGED serving

(* ... or a frame is not: ("no_worker"), ("failed") or ("timeout").        *)
Refuse == answer' = NoResult(Asked) /\ UNCHANGED serving

Next == (\E k \in Key : Activate(k)) \/ Lose \/ Answer \/ Refuse

Spec == Init /\ [][Next]_<<serving, answer>>
=============================================================================
