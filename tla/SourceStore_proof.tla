------------------------- MODULE SourceStore_proof -------------------------
(***************************************************************************)
(* Proofs about the source store, for any number of refs, digests, threads *)
(* and operations.                                                         *)
(***************************************************************************)
EXTENDS SourceStore, TLAPS

(* Every operation past its beginning is about a digest.                   *)
Bound == {"recheck", "remove", "rmdir", "delete", "dangling", "clear"}
Named == \A t \in Thread :
            op[t].at \in Preparing \cup Bound => op[t].digest \in Digest

TypeInv == TypeOK /\ Named

(* A step of one thread leaves what the others are doing alone.            *)
LEMMA OpStep ==
    ASSUME TypeInv, NEW t \in Thread, NEW o \in OpType,
           o.at \in Preparing \cup Bound => o.digest \in Digest,
           op' = [op EXCEPT ![t] = o]
    PROVE  op' \in [Thread -> OpType] /\ Named'
BY DEF TypeInv, TypeOK, Named

(* The idle thread.                                                        *)
LEMMA IdleTyped == Idle \in OpType /\ Idle.at = "idle"
BY DEF Idle, OpType

(* A thread that is done has no operation.                                 *)
LEMMA DoneStep ==
    ASSUME TypeInv, NEW t \in Thread, Done(t)
    PROVE  op' \in [Thread -> OpType] /\ Named'
<1>1. Idle.at \notin Preparing \cup Bound
  BY IdleTyped DEF Preparing, Bound
<1> QED  BY <1>1, IdleTyped, OpStep DEF Done

(* A thread that goes on keeps its operation, one that is done has none.   *)
LEMMA MoveStep ==
    ASSUME TypeInv, NEW t \in Thread,
           NEW at \in {"idle"} \cup Preparing \cup Pruning,
           at \in Preparing \cup Bound => op[t].digest \in Digest,
           Goto(t, at) \/ Done(t)
    PROVE  op' \in [Thread -> OpType] /\ Named'
<1>1. op[t] \in OpType
  BY DEF TypeInv, TypeOK
<1>2. CASE Goto(t, at)
  <2> DEFINE o == [op[t] EXCEPT !.at = at]
  <2>1. o \in OpType /\ o.at = at /\ o.digest = op[t].digest
    BY <1>1 DEF OpType
  <2>2. op' = [op EXCEPT ![t] = o]
    BY <1>2 DEF Goto
  <2> HIDE DEF o
  <2> QED  BY <2>1, <2>2, OpStep
<1>3. CASE Done(t)
  BY <1>3, DoneStep
<1> QED  BY <1>2, <1>3

(* Every step of prepare keeps the types.                                  *)
LEMMA PrepareTyped ==
    ASSUME TypeInv, NEW t \in Thread, PrepareStep(t)
    PROVE  TypeInv'
<1> USE DEF stored, tables, built, threads
<1>0. op[t] \in OpType /\ (op[t].at \in Preparing => op[t].digest \in Digest)
  BY DEF TypeInv, TypeOK, Named
<1>1. CASE Prepare(t)
  <2>1. PICK r \in Ref, d \in Digest, f \in BOOLEAN :
          op' = [op EXCEPT ![t] = [Idle EXCEPT !.at = "prev", !.ref = r,
                                         !.digest = d, !.flag = f]]
    BY <1>1 DEF Prepare
  <2>2. [Idle EXCEPT !.at = "prev", !.ref = r, !.digest = d, !.flag = f] \in OpType
    BY DEF Idle, OpType, Preparing
  <2>3. op' \in [Thread -> OpType] /\ Named'
    BY <2>1, <2>2, OpStep DEF Idle
  <2>4. pins' \subseteq Ref
    BY <1>1, SourceStoreAssumption DEF TypeInv, TypeOK, Prepare
  <2>5. begun' \in 0..MaxOps
    BY <1>1, SourceStoreAssumption DEF TypeInv, TypeOK, Prepare, Begin
  <2> QED  BY <1>1, <2>3, <2>4, <2>5 DEF TypeInv, TypeOK, Prepare
<1>2. CASE ReadPrev(t)
  <2>1. op' \in [Thread -> OpType] /\ Named'
    BY <1>0, <1>2, MoveStep DEF ReadPrev, At, Preparing
  <2> QED  BY <1>2, <2>1 DEF TypeInv, TypeOK, ReadPrev
<1>3. CASE MakeDir(t)
  <2>1. op' \in [Thread -> OpType] /\ Named'
    BY <1>0, <1>3, MoveStep DEF MakeDir, At, Preparing
  <2> QED  BY <1>0, <1>3, <2>1 DEF TypeInv, TypeOK, MakeDir, At, Preparing
<1>4. CASE Look(t)
  <2>1. op' \in [Thread -> OpType] /\ Named'
    BY <1>0, <1>4, MoveStep DEF Look, At, Preparing
  <2> QED  BY <1>4, <2>1 DEF TypeInv, TypeOK, Look
<1>5. CASE Verify(t)
  <2>1. op' \in [Thread -> OpType] /\ Named'
    BY <1>0, <1>5, MoveStep DEF Verify, At, Preparing
  <2> QED  BY <1>5, <2>1 DEF TypeInv, TypeOK, Verify
<1>6. CASE OpenTmp(t)
  <2>1. op' \in [Thread -> OpType] /\ Named'
    BY <1>0, <1>6, MoveStep DEF OpenTmp, At, Preparing
  <2>2. tmp' \in [Thread -> {None, "part", "whole"}]
    BY <1>6 DEF TypeInv, TypeOK, OpenTmp
  <2> QED  BY <1>6, <2>1, <2>2 DEF TypeInv, TypeOK, OpenTmp
<1>7. CASE Flush(t)
  <2>1. op' \in [Thread -> OpType] /\ Named'
    BY <1>0, <1>7, MoveStep DEF Flush, At, Preparing
  <2>2. tmp' \in [Thread -> {None, "part", "whole"}]
    BY <1>7 DEF TypeInv, TypeOK, Flush
  <2> QED  BY <1>7, <2>1, <2>2 DEF TypeInv, TypeOK, Flush
<1>8. CASE Rename(t)
  <2>1. op' \in [Thread -> OpType] /\ Named'
    BY <1>0, <1>8, MoveStep DEF Rename, At, Preparing
  <2>2. tmp' \in [Thread -> {None, "part", "whole"}]
    BY <1>8 DEF TypeInv, TypeOK, Rename
  <2>3. disk' \in [Digest -> Content]
    BY <1>0, <1>8 DEF TypeInv, TypeOK, Rename, Content, At, Preparing
  <2> QED  BY <1>8, <2>1, <2>2, <2>3 DEF TypeInv, TypeOK, Rename
<1>9. CASE SyncDir(t)
  <2>1. op' \in [Thread -> OpType] /\ Named'
    BY <1>0, <1>9, MoveStep DEF SyncDir, At, Preparing
  <2> QED  BY <1>9, <2>1 DEF TypeInv, TypeOK, SyncDir
<1>10. CASE AddSource(t)
  <2>1. op' \in [Thread -> OpType] /\ Named'
    BY <1>0, <1>10, MoveStep DEF AddSource, At, Preparing
  <2> QED  BY <1>0, <1>10, <2>1 DEF TypeInv, TypeOK, AddSource, At, Preparing
<1>11. CASE BindRef(t)
  <2>1. op' \in [Thread -> OpType] /\ Named'
    BY <1>0, <1>11, MoveStep DEF BindRef, At, Preparing
  <2>2. src' \in [Ref -> Digest \cup {None}]
    BY <1>0, <1>11 DEF TypeInv, TypeOK, BindRef, At, Preparing
  <2> QED  BY <1>11, <2>1, <2>2 DEF TypeInv, TypeOK, BindRef
<1>12. CASE LookUp(t)
  <2>1. op' \in [Thread -> OpType] /\ Named'
    BY <1>0, <1>12, MoveStep DEF LookUp, At, Preparing
  <2> QED  BY <1>12, <2>1 DEF TypeInv, TypeOK, LookUp
<1>13. CASE Submit(t)
  <2>1. op' \in [Thread -> OpType] /\ Named'
    BY <1>0, <1>13, MoveStep DEF Submit, At, Preparing
  <2>2. [stage |-> "queued", ref |-> op[t].ref, bytes |-> None] \in JobType
    BY <1>0 DEF OpType, JobType, Stages, Content
  <2>3. job' \in [Digest -> JobType]
    BY <1>13, <2>2 DEF TypeInv, TypeOK, Submit
  <2> QED  BY <1>13, <2>1, <2>3 DEF TypeInv, TypeOK, Submit
<1> QED
  BY <1>1, <1>2, <1>3, <1>4, <1>5, <1>6, <1>7, <1>8, <1>9, <1>10, <1>11,
     <1>12, <1>13 DEF PrepareStep

(* Every step of prune keeps the types.                                    *)
LEMMA PruneTyped ==
    ASSUME TypeInv, NEW t \in Thread, PruneStep(t)
    PROVE  TypeInv'
<1> USE DEF stored, tables, built, threads
<1>0. /\ op[t] \in OpType
      /\ op[t].at \in Bound => op[t].digest \in Digest
      /\ src \in [Ref -> Digest \cup {None}] /\ pins \subseteq Ref
      /\ dirs \subseteq Digest
  BY DEF TypeInv, TypeOK, Named
<1>1. CASE Plan(t)
  <2>1. PICK apply \in BOOLEAN :
          op' = [op EXCEPT ![t] = [Idle EXCEPT !.at = "protect",
                                         !.flag = apply, !.todo = pins]]
    BY <1>1 DEF Plan
  <2> DEFINE o == [Idle EXCEPT !.at = "protect", !.flag = apply, !.todo = pins]
  <2>2. o \in OpType /\ o.at = "protect"
    BY <1>0 DEF Idle, OpType, Pruning
  <2>3. op' = [op EXCEPT ![t] = o]
    BY <2>1
  <2>4. o.at \notin Preparing \cup Bound
    BY <2>2 DEF Preparing, Bound
  <2> HIDE DEF o
  <2>5. op' \in [Thread -> OpType] /\ Named'
    BY <2>2, <2>3, <2>4, OpStep
  <2>6. begun' \in 0..MaxOps
    BY <1>1, SourceStoreAssumption DEF TypeInv, TypeOK, Plan, Begin
  <2> QED  BY <1>1, <2>5, <2>6 DEF TypeInv, TypeOK, Plan
<1>2. CASE Protect(t)
  <2>1. PICK r \in op[t].todo :
          op' = [op EXCEPT ![t].todo = @ \ {r},
                           ![t].plan = @ \cup ({src[r]} \cap Digest)]
    BY <1>2 DEF Protect
  <2> DEFINE o == [op[t] EXCEPT !.todo = @ \ {r},
                                !.plan = @ \cup ({src[r]} \cap Digest)]
  <2>2. o \in OpType /\ o.at = "protect"
    BY <1>0, <1>2 DEF OpType, Protect, At
  <2>3. op' = [op EXCEPT ![t] = o]
    BY <2>1 DEF TypeInv, TypeOK
  <2>4. o.at \notin Preparing \cup Bound
    BY <2>2 DEF Preparing, Bound
  <2> HIDE DEF o
  <2>5. op' \in [Thread -> OpType] /\ Named'
    BY <2>2, <2>3, <2>4, OpStep
  <2> QED  BY <1>2, <2>5 DEF TypeInv, TypeOK, Protect
<1>3. CASE Candidates(t)
  <2>1. CASE op[t].flag
    <3> DEFINE o == [op[t] EXCEPT !.at = "lock", !.plan = dirs \ @]
    <3>1. o \in OpType /\ o.at = "lock"
      BY <1>0 DEF OpType, Pruning
    <3>2. op' = [op EXCEPT ![t] = o]
      BY <1>3, <2>1 DEF Candidates, TypeInv, TypeOK
    <3>3. o.at \notin Preparing \cup Bound
      BY <3>1 DEF Preparing, Bound
    <3> HIDE DEF o
    <3> QED  BY <1>3, <3>1, <3>2, <3>3, OpStep DEF TypeInv, TypeOK, Candidates
  <2>2. CASE ~op[t].flag
    <3>1. op' \in [Thread -> OpType] /\ Named'
      BY <1>3, <2>2, DoneStep DEF Candidates
    <3> QED  BY <1>3, <3>1 DEF TypeInv, TypeOK, Candidates
  <2> QED  BY <2>1, <2>2
<1>4. CASE TakeLock(t)
  <2>1. "next" \in Pruning /\ "next" \notin Preparing \cup Bound
    BY DEF Pruning, Preparing, Bound
  <2>2. op' \in [Thread -> OpType] /\ Named'
    BY <1>4, <2>1, MoveStep DEF TakeLock
  <2> QED  BY <1>4, <2>2 DEF TypeInv, TypeOK, TakeLock
<1>5. CASE Next1(t)
  <2>1. PICK d \in op[t].plan :
          IF d \in rows
          THEN op' = [op EXCEPT ![t].at = "recheck", ![t].digest = d,
                                ![t].plan = @ \ {d}, ![t].todo = pins]
          ELSE op' = [op EXCEPT ![t].plan = @ \ {d}]
    BY <1>5 DEF Next1
  <2>2. CASE d \in rows
    <3> DEFINE o == [op[t] EXCEPT !.at = "recheck", !.digest = d,
                                  !.plan = @ \ {d}, !.todo = pins]
    <3>1. o \in OpType /\ o.digest \in Digest
      BY <1>0 DEF OpType, Pruning
    <3>2. op' = [op EXCEPT ![t] = o]
      BY <2>1, <2>2 DEF TypeInv, TypeOK
    <3> HIDE DEF o
    <3> QED  BY <1>5, <3>1, <3>2, OpStep DEF TypeInv, TypeOK, Next1
  <2>3. CASE d \notin rows
    <3> DEFINE o == [op[t] EXCEPT !.plan = @ \ {d}]
    <3>1. o \in OpType /\ o.at = "next"
      BY <1>0, <1>5 DEF OpType, Next1, At
    <3>2. op' = [op EXCEPT ![t] = o]
      BY <2>1, <2>3 DEF TypeInv, TypeOK
    <3>3. o.at \notin Preparing \cup Bound
      BY <3>1 DEF Preparing, Bound
    <3> HIDE DEF o
    <3> QED  BY <1>5, <3>1, <3>2, <3>3, OpStep DEF TypeInv, TypeOK, Next1
  <2> QED  BY <2>2, <2>3
<1>6. CASE Recheck(t)
  <2>1. PICK r \in op[t].todo :
          op' = [op EXCEPT ![t].todo = IF src[r] = op[t].digest THEN {}
                                                                 ELSE @ \ {r},
                           ![t].at = IF src[r] = op[t].digest THEN "next" ELSE @]
    BY <1>6 DEF Recheck
  <2> DEFINE o == [op[t] EXCEPT !.todo = IF src[r] = op[t].digest THEN {}
                                                                  ELSE @ \ {r},
                           !.at = IF src[r] = op[t].digest THEN "next" ELSE @]
  <2>2. op[t].at = "recheck" /\ op[t].digest \in Digest
    BY <1>0, <1>6 DEF Recheck, At, Bound
  <2>3. o \in OpType /\ o.digest \in Digest
    BY <1>0, <2>2 DEF OpType, Pruning
  <2>4. op' = [op EXCEPT ![t] = o]
    BY <2>1 DEF TypeInv, TypeOK
  <2> HIDE DEF o
  <2> QED  BY <1>6, <2>3, <2>4, OpStep DEF TypeInv, TypeOK, Recheck
<1>7. CASE Unpinned(t)
  <2>1. op' \in [Thread -> OpType] /\ Named'
    BY <1>0, <1>7, MoveStep DEF Unpinned, At, Bound, Pruning
  <2> QED  BY <1>7, <2>1 DEF TypeInv, TypeOK, Unpinned
<1>8. CASE Remove(t)
  <2>1. op' \in [Thread -> OpType] /\ Named'
    BY <1>0, <1>8, MoveStep DEF Remove, At, Bound, Pruning
  <2>2. tmp' \in [Thread -> {None, "part", "whole"}]
    BY <1>8 DEF TypeInv, TypeOK, Remove
  <2>3. disk' \in [Digest -> Content]
    BY <1>8 DEF TypeInv, TypeOK, Remove, Content
  <2> QED  BY <1>8, <2>1, <2>2, <2>3 DEF TypeInv, TypeOK, Remove
<1>14. CASE RemoveDir(t)
  <2>1. op' \in [Thread -> OpType] /\ Named'
    BY <1>0, <1>14, MoveStep, DoneStep DEF RemoveDir, At, Bound, Pruning
  <2> QED  BY <1>14, <2>1 DEF TypeInv, TypeOK, RemoveDir
<1>9. CASE DeleteRow(t)
  <2>1. op' \in [Thread -> OpType] /\ Named'
    BY <1>0, <1>9, MoveStep DEF DeleteRow, At, Bound, Pruning
  <2> QED  BY <1>9, <2>1 DEF TypeInv, TypeOK, DeleteRow
<1>10. CASE Dangling(t)
  <2> DEFINE o == [op[t] EXCEPT !.at = "clear",
                       !.todo = {r \in Ref : src[r] = op[t].digest}]
  <2>1. op[t].at = "dangling" /\ op[t].digest \in Digest
    BY <1>0, <1>10 DEF Dangling, At, Bound
  <2>2. o \in OpType /\ o.digest \in Digest
    BY <1>0, <2>1 DEF OpType, Pruning
  <2>3. op' = [op EXCEPT ![t] = o]
    BY <1>10 DEF TypeInv, TypeOK, Dangling
  <2> HIDE DEF o
  <2> QED  BY <1>10, <2>2, <2>3, OpStep DEF TypeInv, TypeOK, Dangling
<1>11. CASE Clear(t)
  <2>1. PICK r \in op[t].todo : /\ src' = [src EXCEPT ![r] = None]
                                /\ op' = [op EXCEPT ![t].todo = @ \ {r}]
    BY <1>11 DEF Clear
  <2> DEFINE o == [op[t] EXCEPT !.todo = @ \ {r}]
  <2>2. op[t].at = "clear" /\ op[t].digest \in Digest
    BY <1>0, <1>11 DEF Clear, At, Bound
  <2>3. o \in OpType /\ o.digest \in Digest
    BY <1>0, <2>2 DEF OpType
  <2>4. op' = [op EXCEPT ![t] = o]
    BY <2>1 DEF TypeInv, TypeOK
  <2>5. src' \in [Ref -> Digest \cup {None}]
    BY <1>0, <2>1
  <2> HIDE DEF o
  <2> QED  BY <1>11, <2>3, <2>4, <2>5, OpStep DEF TypeInv, TypeOK, Clear
<1>12. CASE Cleared(t)
  <2>1. PICK plan \in {op[t].plan, {}} :
          op' = [op EXCEPT ![t].at = "next", ![t].plan = plan]
    BY <1>12 DEF Cleared
  <2> DEFINE o == [op[t] EXCEPT !.at = "next", !.plan = plan]
  <2>2. o \in OpType /\ o.at = "next"
    BY <1>0 DEF OpType, Pruning
  <2>3. o.at \notin Preparing \cup Bound
    BY <2>2 DEF Preparing, Bound
  <2>4. op' = [op EXCEPT ![t] = o]
    BY <2>1 DEF TypeInv, TypeOK
  <2> HIDE DEF o
  <2> QED  BY <1>12, <2>2, <2>3, <2>4, OpStep DEF TypeInv, TypeOK, Cleared
<1>13. CASE Pruned(t)
  <2>1. op' \in [Thread -> OpType] /\ Named'
    BY <1>13, DoneStep DEF Pruned
  <2> QED  BY <1>13, <2>1 DEF TypeInv, TypeOK, Pruned
<1> QED
  BY <1>1, <1>2, <1>3, <1>4, <1>5, <1>6, <1>7, <1>8, <1>9, <1>10, <1>11,
     <1>12, <1>13, <1>14 DEF PruneStep

(* So do compiles, activations and the death of the daemon.                *)
LEMMA WorldTyped ==
    ASSUME TypeInv,
           \/ \E d \in Digest : \/ CompileStarts(d) \/ CompileEnds(d)
                                \/ Retry(d) \/ Activate(d)
           \/ WorkerLost \/ Restart
    PROVE  TypeInv'
<1> USE DEF stored, tables, built, threads
<1>0. /\ job \in [Digest -> JobType] /\ disk \in [Digest -> Content]
      /\ artifact \in [Digest -> Content]
  BY DEF TypeInv, TypeOK
<1>a. UNCHANGED op => Named'
  BY DEF TypeInv, Named
<1>1. ASSUME NEW d \in Digest, CompileStarts(d)
      PROVE  TypeInv'
  <2>1. job' \in [Digest -> JobType]
    BY <1>0, <1>1 DEF CompileStarts, SourceOf, JobType, Stages
  <2> QED  BY <1>1, <1>a, <2>1 DEF TypeInv, TypeOK, CompileStarts
<1>2. ASSUME NEW d \in Digest, CompileEnds(d)
      PROVE  TypeInv'
  <2>1. NoJob \in JobType /\ [NoJob EXCEPT !.stage = "prepared"] \in JobType
    BY DEF NoJob, JobType, Stages, Content
  <2>2. [job[d] EXCEPT !.stage = "failed", !.bytes = None] \in JobType
    BY <1>0 DEF JobType, Stages, Content
  <2>3. \/ job' = [job EXCEPT ![d] = [job[d] EXCEPT !.stage = "failed", !.bytes = None]]
        \/ job' = [job EXCEPT ![d] = [NoJob EXCEPT !.stage = "prepared"]]
    BY <1>0, <1>2 DEF CompileEnds
  <2>4. job' \in [Digest -> JobType]
    BY <1>0, <2>1, <2>2, <2>3
  <2>5. artifact' \in [Digest -> Content]
    BY <1>0, <1>2 DEF CompileEnds, JobType
  <2> QED  BY <1>2, <1>a, <2>4, <2>5 DEF TypeInv, TypeOK, CompileEnds
<1>3. ASSUME NEW d \in Digest, Retry(d)
      PROVE  TypeInv'
  <2>1. job' \in [Digest -> JobType]
    BY <1>0, <1>3 DEF Retry, JobType, Stages
  <2> QED  BY <1>3, <1>a, <2>1 DEF TypeInv, TypeOK, Retry
<1>4. ASSUME NEW d \in Digest, Activate(d)
      PROVE  TypeInv'
  BY <1>4, <1>a DEF TypeInv, TypeOK, Activate
<1>5. CASE WorkerLost
  BY <1>5, <1>a DEF TypeInv, TypeOK, WorkerLost
<1>6. CASE Restart
  <2>1. op' \in [Thread -> OpType] /\ Named'
    BY <1>6, IdleTyped DEF Restart, Named, Preparing, Bound
  <2>2. \A d \in Digest :
          [job[d] EXCEPT !.stage = "failed", !.bytes = None] \in JobType
    BY <1>0 DEF JobType, Stages, Content
  <2>3. job' \in [Digest -> JobType]
    BY <1>0, <1>6, <2>2 DEF Restart
  <2> QED  BY <1>6, <2>1, <2>3 DEF TypeInv, TypeOK, Restart
<1> QED  BY <1>1, <1>2, <1>3, <1>4, <1>5, <1>6

(* The tables, files and threads keep their shape.                         *)
THEOREM TypeCorrect == Spec => []TypeOK
<1>1. Init => TypeInv
  BY SourceStoreAssumption, IdleTyped
  DEF Init, TypeInv, TypeOK, Named, Preparing, Bound, NoJob, JobType, Stages,
      Content
<1>2. TypeInv /\ [Next]_vars => TypeInv'
  <2> SUFFICES ASSUME TypeInv, [Next]_vars PROVE TypeInv'
    OBVIOUS
  <2>1. CASE UNCHANGED vars
    BY <2>1 DEF TypeInv, TypeOK, Named, vars, stored, tables, built, threads
  <2>2. CASE Next
    BY <2>2, PrepareTyped, PruneTyped, WorldTyped DEF Next
  <2> QED  BY <2>1, <2>2
<1>3. TypeInv => TypeOK
  BY DEF TypeInv
<1> QED  BY <1>1, <1>2, <1>3, PTL DEF Spec

----------------------------------------------------------------------------
(* What is on disk.                                                        *)

(* The strengthening of WholeBytes and OwnBytes: a temporary file that is  *)
(* about to be renamed is whole, a compile holds its own digest's bytes.   *)
Ready == \A t \in Thread : op[t].at = "rename" => tmp[t] \in {None, "whole"}
Held  == \A d \in Digest : job[d].bytes \in {None, d}

StoreInv == TypeInv /\ WholeBytes /\ OwnBytes /\ Ready /\ Held

(* What a step of one thread does to the threads about to rename.          *)
LEMMA ReadyStep ==
    ASSUME TypeInv, Ready, NEW t \in Thread,
           \A u \in Thread \ {t} : /\ op'[u] = op[u]
                                  /\ tmp'[u] \in {None, tmp[u]},
           op'[t].at = "rename" => tmp'[t] \in {None, "whole"}
    PROVE  Ready'
BY DEF Ready

(* No step of prepare leaves a part of a file, or other bytes, behind.     *)
LEMMA PrepareWhole ==
    ASSUME StoreInv, NEW t \in Thread, PrepareStep(t)
    PROVE  StoreInv'
<1> USE DEF stored, tables, built, threads
<1>0. /\ TypeInv /\ WholeBytes /\ OwnBytes /\ Ready /\ Held
      /\ op \in [Thread -> OpType] /\ op[t] \in OpType
      /\ tmp \in [Thread -> {None, "part", "whole"}]
      /\ disk \in [Digest -> Content] /\ job \in [Digest -> JobType]
  BY DEF StoreInv, TypeInv, TypeOK
<1>1. TypeInv'
  BY <1>0, PrepareTyped
<1>2. ASSUME UNCHANGED <<disk, job, artifact>>
      PROVE  WholeBytes' /\ OwnBytes' /\ Held'
  BY <1>0, <1>2 DEF WholeBytes, OwnBytes, Held
<1>3. ASSUME UNCHANGED tmp, op'[t].at # "rename",
             \A u \in Thread \ {t} : op'[u] = op[u]
      PROVE  Ready'
  BY <1>0, <1>3, ReadyStep
<1>4. CASE Prepare(t)
  <2>1. op'[t].at # "rename" /\ \A u \in Thread \ {t} : op'[u] = op[u]
    BY <1>0, <1>4 DEF Prepare, At, Begin, Idle, OpType
  <2> QED  BY <1>1, <1>2, <1>3, <1>4, <2>1 DEF StoreInv, Prepare
<1>5. CASE ReadPrev(t)
  <2>1. op'[t].at # "rename" /\ \A u \in Thread \ {t} : op'[u] = op[u]
    BY <1>0, <1>5 DEF ReadPrev, At, Goto, Done, Begin, Idle, OpType
  <2> QED  BY <1>1, <1>2, <1>3, <1>5, <2>1 DEF StoreInv, ReadPrev
<1>6. CASE MakeDir(t)
  <2>1. op'[t].at # "rename" /\ \A u \in Thread \ {t} : op'[u] = op[u]
    BY <1>0, <1>6 DEF MakeDir, At, Goto, Done, Begin, Idle, OpType
  <2> QED  BY <1>1, <1>2, <1>3, <1>6, <2>1 DEF StoreInv, MakeDir
<1>7. CASE Look(t)
  <2>1. op'[t].at # "rename" /\ \A u \in Thread \ {t} : op'[u] = op[u]
    BY <1>0, <1>7 DEF Look, At, Goto, Done, Begin, Idle, OpType
  <2> QED  BY <1>1, <1>2, <1>3, <1>7, <2>1 DEF StoreInv, Look
<1>8. CASE Verify(t)
  <2>1. op'[t].at # "rename" /\ \A u \in Thread \ {t} : op'[u] = op[u]
    BY <1>0, <1>8 DEF Verify, At, Goto, Done, Begin, Idle, OpType
  <2> QED  BY <1>1, <1>2, <1>3, <1>8, <2>1 DEF StoreInv, Verify
<1>9. CASE SyncDir(t)
  <2>1. op'[t].at # "rename" /\ \A u \in Thread \ {t} : op'[u] = op[u]
    BY <1>0, <1>9 DEF SyncDir, At, Goto, Done, Begin, Idle, OpType
  <2> QED  BY <1>1, <1>2, <1>3, <1>9, <2>1 DEF StoreInv, SyncDir
<1>10. CASE AddSource(t)
  <2>1. op'[t].at # "rename" /\ \A u \in Thread \ {t} : op'[u] = op[u]
    BY <1>0, <1>10 DEF AddSource, At, Goto, Done, Begin, Idle, OpType
  <2> QED  BY <1>1, <1>2, <1>3, <1>10, <2>1 DEF StoreInv, AddSource
<1>11. CASE BindRef(t)
  <2>1. op'[t].at # "rename" /\ \A u \in Thread \ {t} : op'[u] = op[u]
    BY <1>0, <1>11 DEF BindRef, At, Goto, Done, Begin, Idle, OpType
  <2> QED  BY <1>1, <1>2, <1>3, <1>11, <2>1 DEF StoreInv, BindRef
<1>12. CASE LookUp(t)
  <2>1. op'[t].at # "rename" /\ \A u \in Thread \ {t} : op'[u] = op[u]
    BY <1>0, <1>12 DEF LookUp, At, Goto, Done, Begin, Idle, OpType
  <2> QED  BY <1>1, <1>2, <1>3, <1>12, <2>1 DEF StoreInv, LookUp
<1>13. CASE OpenTmp(t)
  <2>1. op'[t].at # "rename" /\ \A u \in Thread \ {t} : op'[u] = op[u]
    BY <1>0, <1>13 DEF OpenTmp, At, Goto, Done, Begin, Idle, OpType
  <2>2. \A u \in Thread \ {t} : tmp'[u] = tmp[u]
    BY <1>0, <1>13 DEF OpenTmp
  <2>3. Ready'
    BY <1>0, <2>1, <2>2, ReadyStep
  <2> QED  BY <1>1, <1>2, <1>13, <2>3 DEF StoreInv, OpenTmp
<1>14. CASE Flush(t)
  <2>1. \A u \in Thread \ {t} : op'[u] = op[u]
    BY <1>0, <1>14 DEF Flush, At, Goto, Done, Begin, Idle, OpType
  <2>2. /\ \A u \in Thread \ {t} : tmp'[u] = tmp[u]
        /\ tmp'[t] \in {None, "whole"}
    BY <1>0, <1>14 DEF Flush
  <2>3. Ready'
    BY <1>0, <2>1, <2>2, ReadyStep
  <2> QED  BY <1>1, <1>2, <1>14, <2>3 DEF StoreInv, Flush
<1>15. CASE Rename(t)
  <2>1. op'[t].at # "rename" /\ \A u \in Thread \ {t} : op'[u] = op[u]
    BY <1>0, <1>15 DEF Rename, At, Goto, Done, Begin, Idle, OpType
  <2>2. \A u \in Thread \ {t} : tmp'[u] = tmp[u]
    BY <1>0, <1>15 DEF Rename
  <2>3. Ready'
    BY <1>0, <2>1, <2>2, ReadyStep
  <2>4. tmp[t] \in {None, "whole"}
    BY <1>0, <1>15 DEF Ready, Rename, At
  <2>5. WholeBytes'
    BY <1>0, <1>15, <2>4 DEF Rename, WholeBytes
  <2>6. OwnBytes' /\ Held'
    BY <1>0, <1>15 DEF Rename, OwnBytes, Held
  <2> QED  BY <1>1, <2>3, <2>5, <2>6 DEF StoreInv
<1>16. CASE Submit(t)
  <2>1. op'[t].at # "rename" /\ \A u \in Thread \ {t} : op'[u] = op[u]
    BY <1>0, <1>16 DEF Submit, At, Goto, Done, Begin, Idle, OpType
  <2>2. Ready'
    BY <1>3, <1>16, <2>1 DEF Submit
  <2>3. WholeBytes' /\ OwnBytes'
    BY <1>0, <1>16 DEF Submit, WholeBytes, OwnBytes
  <2>4. Held'
    BY <1>0, <1>16 DEF Submit, Held
  <2> QED  BY <1>1, <2>2, <2>3, <2>4 DEF StoreInv
<1> QED
  BY <1>4, <1>5, <1>6, <1>7, <1>8, <1>9, <1>10, <1>11, <1>12, <1>13, <1>14, <1>15, <1>16
  DEF PrepareStep

(* Nor does a prune, which removes files but writes none.                  *)
LEMMA PruneWhole ==
    ASSUME StoreInv, NEW t \in Thread, PruneStep(t)
    PROVE  StoreInv'
<1> USE DEF stored, tables, built, threads
<1>0. /\ TypeInv /\ WholeBytes /\ OwnBytes /\ Ready /\ Held
      /\ op \in [Thread -> OpType]
      /\ tmp \in [Thread -> {None, "part", "whole"}]
      /\ disk \in [Digest -> Content]
  BY DEF StoreInv, TypeInv, TypeOK
<1>1. TypeInv'
  BY <1>0, PruneTyped
<1>2. /\ \A u \in Thread \ {t} : op'[u] = op[u]
      /\ op'[t].at # "rename"
  <2> USE DEF At, Goto, Done
  <2>1. CASE Plan(t)
    BY <1>0, <2>1 DEF Plan, Idle
  <2>2. CASE Protect(t)
    BY <1>0, <2>2 DEF Protect, OpType, Idle
  <2>3. CASE Candidates(t)
    BY <1>0, <2>3 DEF Candidates, OpType, Idle
  <2>4. CASE TakeLock(t)
    BY <1>0, <2>4 DEF TakeLock, OpType, Idle
  <2>5. CASE Next1(t)
    BY <1>0, <2>5 DEF Next1, OpType, Idle
  <2>6. CASE Recheck(t)
    BY <1>0, <2>6 DEF Recheck, OpType, Idle
  <2>7. CASE Unpinned(t)
    BY <1>0, <2>7 DEF Unpinned, OpType, Idle
  <2>8. CASE Remove(t)
    BY <1>0, <2>8 DEF Remove, OpType, Idle
  <2>14. CASE RemoveDir(t)
    BY <1>0, <2>14 DEF RemoveDir, OpType, Idle
  <2>9. CASE DeleteRow(t)
    BY <1>0, <2>9 DEF DeleteRow, OpType, Idle
  <2>10. CASE Dangling(t)
    BY <1>0, <2>10 DEF Dangling, OpType, Idle
  <2>11. CASE Clear(t)
    BY <1>0, <2>11 DEF Clear, OpType, Idle
  <2>12. CASE Cleared(t)
    BY <1>0, <2>12 DEF Cleared, OpType, Idle
  <2>13. CASE Pruned(t)
    BY <1>0, <2>13 DEF Pruned, OpType, Idle
  <2> QED
    BY <2>1, <2>2, <2>3, <2>4, <2>5, <2>6, <2>7, <2>8, <2>9, <2>10, <2>11,
       <2>12, <2>13, <2>14 DEF PruneStep
<1>3. CASE Remove(t)
  <2>1. \A u \in Thread : tmp'[u] \in {None, tmp[u]}
    BY <1>0, <1>3 DEF Remove
  <2>2. Ready'
    BY <1>0, <1>2, <2>1, ReadyStep
  <2>3. WholeBytes'
    BY <1>0, <1>3 DEF Remove, WholeBytes
  <2>4. OwnBytes' /\ Held'
    BY <1>0, <1>3 DEF Remove, OwnBytes, Held
  <2> QED  BY <1>1, <2>2, <2>3, <2>4 DEF StoreInv
<1>4. CASE ~Remove(t)
  <2>1. UNCHANGED <<disk, tmp, job, artifact>>
    BY <1>4 DEF PruneStep, Plan, Protect, Candidates, TakeLock, Next1, Recheck,
         Unpinned, RemoveDir, DeleteRow, Dangling, Clear, Cleared, Pruned
  <2>2. Ready'
    BY <1>0, <1>2, <2>1, ReadyStep
  <2>3. WholeBytes' /\ OwnBytes' /\ Held'
    BY <1>0, <2>1 DEF WholeBytes, OwnBytes, Held
  <2> QED  BY <1>1, <2>2, <2>3 DEF StoreInv
<1> QED  BY <1>3, <1>4

(* Nor do compiles, which read their own digest's file, or a death.        *)
LEMMA WorldWhole ==
    ASSUME StoreInv,
           \/ \E d \in Digest : \/ CompileStarts(d) \/ CompileEnds(d)
                                \/ Retry(d) \/ Activate(d)
           \/ WorkerLost \/ Restart
    PROVE  StoreInv'
<1> USE DEF stored, tables, built, threads
<1>0. /\ TypeInv /\ WholeBytes /\ OwnBytes /\ Ready /\ Held
      /\ disk \in [Digest -> Content] /\ job \in [Digest -> JobType]
      /\ artifact \in [Digest -> Content]
  BY DEF StoreInv, TypeInv, TypeOK
<1>1. TypeInv'
  BY <1>0, WorldTyped
<1>2. ASSUME UNCHANGED <<disk, tmp, op>>
      PROVE  WholeBytes' /\ Ready'
  BY <1>0, <1>2 DEF WholeBytes, Ready
<1>3. ASSUME NEW d \in Digest, CompileStarts(d)
      PROVE  StoreInv'
  <2>1. Held'
    BY <1>0, <1>3 DEF CompileStarts, SourceOf, Held, WholeBytes, JobType
  <2>2. OwnBytes'
    BY <1>0, <1>3 DEF CompileStarts, OwnBytes
  <2> QED  BY <1>1, <1>2, <1>3, <2>1, <2>2 DEF StoreInv, CompileStarts
<1>4. ASSUME NEW d \in Digest, CompileEnds(d)
      PROVE  StoreInv'
  <2>1. Held'
    BY <1>0, <1>4 DEF CompileEnds, NoJob, Held, JobType
  <2>2. OwnBytes'
    BY <1>0, <1>4 DEF CompileEnds, OwnBytes, Held
  <2> QED  BY <1>1, <1>2, <1>4, <2>1, <2>2 DEF StoreInv, CompileEnds
<1>5. ASSUME NEW d \in Digest, Retry(d)
      PROVE  StoreInv'
  <2>1. Held'
    BY <1>0, <1>5 DEF Retry, Held, JobType
  <2>2. OwnBytes'
    BY <1>0, <1>5 DEF Retry, OwnBytes
  <2> QED  BY <1>1, <1>2, <1>5, <2>1, <2>2 DEF StoreInv, Retry
<1>6. ASSUME NEW d \in Digest, Activate(d)
      PROVE  StoreInv'
  <2>1. Held' /\ OwnBytes'
    BY <1>0, <1>6 DEF Activate, Held, OwnBytes
  <2> QED  BY <1>1, <1>2, <1>6, <2>1 DEF StoreInv, Activate
<1>7. CASE WorkerLost
  <2>1. Held' /\ OwnBytes'
    BY <1>0, <1>7 DEF WorkerLost, Held, OwnBytes
  <2> QED  BY <1>1, <1>2, <1>7, <2>1 DEF StoreInv, WorkerLost
<1>8. CASE Restart
  <2>1. Ready'
    BY <1>8, IdleTyped DEF Restart, Ready
  <2>2. ASSUME NEW d \in Digest
        PROVE  job'[d].bytes \in {None, job[d].bytes}
    <3>1. job[d] \in JobType /\ "bytes" \in DOMAIN job[d]
      BY <1>0 DEF JobType
    <3> QED  BY <1>8, <3>1 DEF Restart, JobType
  <2>4. Held'
    BY <1>0, <2>2 DEF Held
  <2>3. WholeBytes' /\ OwnBytes'
    BY <1>0, <1>8 DEF Restart, WholeBytes, OwnBytes
  <2> QED  BY <1>1, <2>1, <2>3, <2>4 DEF StoreInv
<1> QED  BY <1>3, <1>4, <1>5, <1>6, <1>7, <1>8

(* StoreInv is inductive.                                                  *)
LEMMA StoreInductive == Spec => []StoreInv
<1>1. Init => StoreInv
  <2> SUFFICES ASSUME Init PROVE StoreInv
    OBVIOUS
  <2>1. TypeInv
    BY SourceStoreAssumption, IdleTyped
    DEF Init, TypeInv, TypeOK, Named, Preparing, Bound, NoJob, JobType, Stages,
        Content
  <2>2. WholeBytes /\ OwnBytes /\ Ready /\ Held
    BY IdleTyped DEF Init, WholeBytes, OwnBytes, Ready, Held, NoJob
  <2> QED  BY <2>1, <2>2 DEF StoreInv
<1>2. StoreInv /\ [Next]_vars => StoreInv'
  <2> SUFFICES ASSUME StoreInv, [Next]_vars PROVE StoreInv'
    OBVIOUS
  <2>1. CASE UNCHANGED vars
    BY <2>1 DEF StoreInv, TypeInv, TypeOK, Named, WholeBytes, OwnBytes, Ready,
         Held, vars, stored, tables, built, threads
  <2>2. CASE Next
    BY <2>2, PrepareWhole, PruneWhole, WorldWhole DEF Next
  <2> QED  BY <2>1, <2>2
<1> QED  BY <1>1, <1>2, PTL DEF Spec

(* The file under a digest has that digest's content, for any number of    *)
(* writers, prunes and deaths.                                             *)
THEOREM Whole == Spec => []WholeBytes
<1>1. StoreInv => WholeBytes
  BY DEF StoreInv
<1> QED  BY <1>1, StoreInductive, PTL

(* An artifact is compiled from its own digest's bytes, whatever its refs  *)
(* have moved on to.                                                       *)
THEOREM Own == Spec => []OwnBytes
<1>1. StoreInv => OwnBytes
  BY DEF StoreInv
<1> QED  BY <1>1, StoreInductive, PTL
----------------------------------------------------------------------------
(* PinnedStay.  A step keeps a pinned ref's bytes secure as long as the    *)
(* pin, the file and the verdict of every prune on them stay.              *)

(* A step that changes neither the file nor removes the pin, and puts no   *)
(* thread past its check, keeps them secure.                               *)
LEMMA StaySecure ==
    ASSUME NEW r \in Ref, NEW d \in Digest, Secure(r, d), src'[r] = d,
           r \in pins', disk'[d] = d,
           NEW t \in Thread, \A u \in Thread \ {t} : op'[u] = op[u],
           ~Doomed(t, r, d)'
    PROVE  Secure(r, d)'
<1>1. \A u \in Thread : ~Doomed(u, r, d)'
  BY DEF Secure, Doomed, At
<1> QED  BY <1>1 DEF Secure

(* Preparing never unpins, and only writes a digest's own bytes.           *)
LEMMA PrepareSecure ==
    ASSUME StoreInv, NEW t \in Thread, PrepareStep(t),
           NEW r \in Ref, NEW d \in Digest, Secure(r, d), src'[r] = d
    PROVE  Secure(r, d)'
<1> USE DEF stored, tables, built, threads
<1>0. /\ op \in [Thread -> OpType] /\ op[t] \in OpType
      /\ disk \in [Digest -> Content]
      /\ tmp \in [Thread -> {None, "part", "whole"}]
      /\ Ready /\ pins \subseteq Ref
      /\ r \in pins /\ disk[d] = d
  BY DEF StoreInv, TypeInv, TypeOK, Secure
<1>1. \A u \in Thread \ {t} : op'[u] = op[u]
  BY <1>0 DEF PrepareStep, Prepare, ReadPrev, MakeDir, Look, Verify, OpenTmp,
       Flush, Rename, SyncDir, AddSource, BindRef, LookUp, Submit, Begin, At,
       Goto, Done
<1>2. op'[t].at \notin {"remove", "recheck"}
  <2> USE DEF At, Goto, Done, Begin, Idle, OpType
  <2>1. CASE Prepare(t)
    BY <1>0, <2>1 DEF Prepare
  <2>2. CASE ReadPrev(t)
    BY <1>0, <2>2 DEF ReadPrev
  <2>3. CASE MakeDir(t)
    BY <1>0, <2>3 DEF MakeDir
  <2>4. CASE Look(t)
    BY <1>0, <2>4 DEF Look
  <2>5. CASE Verify(t)
    BY <1>0, <2>5 DEF Verify
  <2>6. CASE OpenTmp(t)
    BY <1>0, <2>6 DEF OpenTmp
  <2>7. CASE Flush(t)
    BY <1>0, <2>7 DEF Flush
  <2>8. CASE Rename(t)
    BY <1>0, <2>8 DEF Rename
  <2>9. CASE SyncDir(t)
    BY <1>0, <2>9 DEF SyncDir
  <2>10. CASE AddSource(t)
    BY <1>0, <2>10 DEF AddSource
  <2>11. CASE BindRef(t)
    BY <1>0, <2>11 DEF BindRef
  <2>12. CASE LookUp(t)
    BY <1>0, <2>12 DEF LookUp
  <2>13. CASE Submit(t)
    BY <1>0, <2>13 DEF Submit
  <2> QED
    BY <2>1, <2>2, <2>3, <2>4, <2>5, <2>6, <2>7, <2>8, <2>9, <2>10, <2>11,
       <2>12, <2>13 DEF PrepareStep
<1>3. r \in pins'
  BY <1>0 DEF PrepareStep, Prepare, ReadPrev, MakeDir, Look, Verify, OpenTmp,
       Flush, Rename, SyncDir, AddSource, BindRef, LookUp, Submit
<1>4. disk'[d] = d
  <2>1. CASE Rename(t)
    <3>1. tmp[t] \in {None, "whole"}
      BY <1>0, <2>1 DEF Ready, Rename, At
    <3> QED  BY <1>0, <2>1, <3>1 DEF Rename
  <2>2. CASE ~Rename(t)
    BY <1>0, <2>2 DEF PrepareStep, Prepare, ReadPrev, MakeDir, Look, Verify,
         OpenTmp, Flush, SyncDir, AddSource, BindRef, LookUp, Submit
  <2> QED  BY <2>1, <2>2
<1> QED  BY <1>1, <1>2, <1>3, <1>4, StaySecure DEF Doomed, At

(* A prune takes the pins as it reaches a candidate, and leaves it when    *)
(* one of them points there.                                               *)
LEMMA PruneSecure ==
    ASSUME StoreInv, NEW t \in Thread, PruneStep(t),
           NEW r \in Ref, NEW d \in Digest, Secure(r, d), src'[r] = d
    PROVE  Secure(r, d)'
<1> USE DEF stored, tables, built, threads
<1>0. /\ op \in [Thread -> OpType] /\ op[t] \in OpType
      /\ disk \in [Digest -> Content]
      /\ r \in pins /\ disk[d] = d /\ src[r] = d /\ ~Doomed(t, r, d)
  BY DEF StoreInv, TypeInv, TypeOK, Secure
<1>1. \A u \in Thread \ {t} : op'[u] = op[u]
  BY <1>0 DEF PruneStep, Plan, Protect, Candidates, TakeLock, Next1, Recheck,
       Unpinned, Remove, RemoveDir, DeleteRow, Dangling, Clear, Cleared, Pruned, Begin,
       At, Goto, Done
<1>2. r \in pins'
  BY <1>0 DEF PruneStep, Plan, Protect, Candidates, TakeLock, Next1, Recheck,
       Unpinned, Remove, RemoveDir, DeleteRow, Dangling, Clear, Cleared, Pruned
<1>3. disk'[d] = d
  <2>1. CASE Remove(t)
    BY <1>0, <2>1 DEF Remove, Doomed, At
  <2>2. CASE ~Remove(t)
    BY <1>0, <2>2 DEF PruneStep, Plan, Protect, Candidates, TakeLock, Next1,
         Recheck, Unpinned, RemoveDir, DeleteRow, Dangling, Clear, Cleared, Pruned
  <2> QED  BY <2>1, <2>2
<1>4. ~Doomed(t, r, d)'
  <2> USE DEF At, Goto, Done, Begin, Idle, OpType, Doomed
  <2>1. CASE Plan(t)
    BY <1>0, <2>1 DEF Plan
  <2>2. CASE Protect(t)
    BY <1>0, <2>2 DEF Protect
  <2>3. CASE Candidates(t)
    BY <1>0, <2>3 DEF Candidates
  <2>4. CASE TakeLock(t)
    BY <1>0, <2>4 DEF TakeLock
  <2>5. CASE Next1(t)
    BY <1>0, <2>5 DEF Next1
  <2>6. CASE Recheck(t)
    BY <1>0, <2>6 DEF Recheck
  <2>7. CASE Unpinned(t)
    BY <1>0, <2>7 DEF Unpinned
  <2>8. CASE Remove(t)
    BY <1>0, <2>8 DEF Remove
  <2>14. CASE RemoveDir(t)
    BY <1>0, <2>14 DEF RemoveDir
  <2>9. CASE DeleteRow(t)
    BY <1>0, <2>9 DEF DeleteRow
  <2>10. CASE Dangling(t)
    BY <1>0, <2>10 DEF Dangling
  <2>11. CASE Clear(t)
    BY <1>0, <2>11 DEF Clear
  <2>12. CASE Cleared(t)
    BY <1>0, <2>12 DEF Cleared
  <2>13. CASE Pruned(t)
    BY <1>0, <2>13 DEF Pruned
  <2> QED
    BY <2>1, <2>2, <2>3, <2>4, <2>5, <2>6, <2>7, <2>8, <2>9, <2>10, <2>11,
       <2>12, <2>13, <2>14 DEF PruneStep
<1> QED  BY <1>1, <1>2, <1>3, <1>4, StaySecure

(* Nothing else touches pins or files, and a death stops every prune.      *)
LEMMA WorldSecure ==
    ASSUME \/ \E d \in Digest : \/ CompileStarts(d) \/ CompileEnds(d)
                                \/ Retry(d) \/ Activate(d)
           \/ WorkerLost \/ Restart,
           NEW r \in Ref, NEW d \in Digest, Secure(r, d), src'[r] = d
    PROVE  Secure(r, d)'
<1> USE DEF stored, tables, built, threads
<1>1. UNCHANGED <<disk, pins>>
  BY DEF CompileStarts, CompileEnds, Retry, Activate, WorkerLost, Restart
<1>2. CASE Restart
  <2>1. \A u \in Thread : op'[u].at = "idle"
    BY <1>2 DEF Restart, Idle
  <2> QED  BY <1>1, <2>1 DEF Secure, Doomed, At
<1>3. CASE ~Restart
  <2>1. op' = op
    BY <1>3 DEF CompileStarts, CompileEnds, Retry, Activate, WorkerLost
  <2> QED  BY <1>1, <2>1, SMTT(30) DEF Secure, Doomed, At
<1> QED  BY <1>2, <1>3, SMTT(30)

(* Bytes that a pinned ref points at stay on disk while it does, for any   *)
(* number of refs, writers and prunes, whenever they were planned.         *)
THEOREM PinnedStays == Spec => PinnedStay
<1>1. StoreInv /\ [Next]_vars =>
        [\A r \in Ref, d \in Digest :
            Secure(r, d) /\ src'[r] = d => Secure(r, d)']_vars
  <2> SUFFICES ASSUME StoreInv, Next,
                      NEW r \in Ref, NEW d \in Digest,
                      Secure(r, d), src'[r] = d
               PROVE  Secure(r, d)'
    OBVIOUS
  <2> QED  BY PrepareSecure, PruneSecure, WorldSecure DEF Next
<1> QED  BY <1>1, StoreInductive, PTL DEF Spec, PinnedStay
=============================================================================
