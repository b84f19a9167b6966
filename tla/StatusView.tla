------------------------------ MODULE StatusView ------------------------------
(***************************************************************************)
(* The projection of a reference's stored state that status, waits and the *)
(* console share (model_view.py), and the exit code a command makes of it  *)
(* (cli.py).  A revision of a reference stands for its source bytes, the   *)
(* compile key of these bytes and the artifact's source_sha256; 0 stands   *)
(* for none.                                                               *)
(***************************************************************************)
EXTENDS Naturals

Stored == {"NEW", "QUEUED", "PREPARED", "FAILED"}
Ranked == Stored \cup {"VERIFIED", "ACTIVE"}
Exits  == {"0", "err", "1", "3", "9"}

(* STATE_RANK; every other state has rank 0.                               *)
Rank(state) == CASE state = "PREPARED" -> 1
                 [] state = "VERIFIED" -> 2
                 [] state = "ACTIVE"   -> 3
                 [] OTHER              -> 0

(* project_ref, _ranked_state: live is what the worker serves, key the     *)
(* newest prepared revision of the ref, src its current one.               *)
RankedState(stored, verified, live, key, src) ==
    IF live # 0 /\ key = live THEN IF src # 0 /\ key = src THEN "ACTIVE" ELSE stored
    ELSE IF stored = "PREPARED" /\ key \in verified THEN "VERIFIED" ELSE stored

Satisfies(actual, want) ==
    actual = want \/ (Rank(want) > 0 /\ Rank(actual) >= Rank(want))

(* _wait_for_state on one reading of the state: what the command ends with *)
(* if it ends now, "more" if it waits on.                                  *)
Verdict(actual, want) == IF Satisfies(actual, want) THEN "0"
                         ELSE IF actual = "FAILED" THEN "err" ELSE "more"
===============================================================================
