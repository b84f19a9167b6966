----------------------- MODULE ArtifactStore_proof -----------------------
(***************************************************************************)
(* Proofs about the cache of compiled artifacts, for any number of keys,   *)
(* threads, backends and deaths.                                           *)
(***************************************************************************)
EXTENDS ArtifactStore, TLAPS

(* A directory that recover has passed has a row.                          *)
Passed ==
    phase = "recover" => \A k \in Key \ todo : dirs[k] # None => rows[k] # None

(* Nothing is under way but while a process serves.                        *)
Resting == phase # "up" => pub = Quiet /\ \A t \in Thread : op[t] = Idle

(* The serve loop alone commits and describes: once it has found no row    *)
(* there is none, once it has cleared the directory there is none, and     *)
(* what it has renamed is there until a prepare moves it aside.            *)
Publishing ==
    pub # Quiet =>
      /\ pub.at \notin {"look", "probe"} => rows[pub.key] = None
      /\ pub.at \in {"stage", "refuse", "rename"} => dirs[pub.key] = None
      /\ pub.at = "row" /\ dirs[pub.key] # None => dirs[pub.key].digest = pub.bytes

(* A prepare that is alone is alone, and what it has seen stays so: there  *)
(* is a row, and the directory, if any, is foreign.                        *)
Alone(t) ==
    op[t].at \in Preparing /\ op[t].alone =>
      /\ \A u \in Thread : op[u].at \in Preparing => u = t
      /\ op[t].at \in {"backend"} \cup Invalidating => rows[op[t].key] # None
      /\ op[t].at \in Invalidating => ~Own(op[t].key)

IInv == /\ TypeOK /\ Resting /\ Publishing /\ RowDescribes /\ Passed
        /\ \A t \in Thread : Alone(t)

USE ArtifactStoreAssumption DEF Preparing, Activating, Invalidating

(* The steps of a thread leave the other threads where they are.           *)
LEMMA Going ==
    ASSUME TypeOK, NEW t \in Thread, NEW at \in Preparing \cup Activating,
           op[t].at # "idle", Goto(t, at)
    PROVE  /\ op' \in [Thread -> {Idle} \cup [at: Preparing \cup Activating,
                                               key: Key, alone: BOOLEAN]]
           /\ op'[t].at = at /\ op'[t].key = op[t].key /\ op'[t].alone = op[t].alone
           /\ \A u \in Thread \ {t} : op'[u] = op[u]
BY DEF TypeOK, Goto, Idle

LEMMA Ending ==
    ASSUME TypeOK, NEW t \in Thread, Done(t)
    PROVE  /\ op' \in [Thread -> {Idle} \cup [at: Preparing \cup Activating,
                                               key: Key, alone: BOOLEAN]]
           /\ op'[t] = Idle
           /\ \A u \in Thread \ {t} : op'[u] = op[u]
BY DEF TypeOK, Done

(* The key of a thread that is at work, and that of a publication.         *)
LEMMA Keys ==
    ASSUME TypeOK
    PROVE  /\ \A t \in Thread : op[t].at # "idle" =>
                /\ op[t].key \in Key /\ op[t].alone \in BOOLEAN
                /\ op[t].at \in Preparing \cup Activating
           /\ pub # Quiet => pub.key \in Key /\ pub.bytes \in Bytes /\ pub.at \in PubAt
           /\ pub.at # "idle" => pub # Quiet
           /\ pub = Quiet => pub.at = "idle"
BY DEF TypeOK, Idle, Quiet, PubAt

(* What is committed, and what a row says, is not None.                    *)
LEMMA Contents ==
    ASSUME TypeOK, NEW k \in Key
    PROVE  /\ dirs[k] # None => dirs[k] \in Artifact
           /\ rows[k] # None => rows[k] \in Bytes
           /\ \A a \in Artifact : a # None /\ a.digest # None
BY DEF TypeOK, Artifact

LEMMA IInvInit == Init => IInv
<1> SUFFICES ASSUME Init PROVE IInv
  OBVIOUS
<1>1. TypeOK
  BY DEF Init, TypeOK, Quiet, Idle
<1>2. Resting /\ Publishing /\ RowDescribes /\ Passed
  BY DEF Init, Resting, Publishing, RowDescribes, Passed, Quiet
<1>3. \A t \in Thread : Alone(t)
  BY DEF Init, Alone, Idle
<1> QED
  BY <1>1, <1>2, <1>3 DEF IInv

(* A step that neither moves a thread nor loses a row, nor gives a key the *)
(* process's own artifact, leaves every prepare alone with what it saw.    *)
LEMMA AloneStays ==
    ASSUME IInv, op' = op,
           \A k \in Key : rows[k] # None => rows'[k] # None,
           \A k \in Key : rows[k] # None /\ ~Own(k) => ~Own(k)'
    PROVE  \A t \in Thread : Alone(t)'
<1> SUFFICES ASSUME NEW t \in Thread, op[t].at \in Preparing, op[t].alone
             PROVE  Alone(t)'
  BY DEF Alone
<1>1. op[t].key \in Key
  BY Keys DEF IInv
<1>2. Alone(t)
  BY DEF IInv
<1> QED
  BY <1>1, <1>2 DEF Alone

(* A thread's step that stays within what the store keeps.                 *)
LEMMA SameStore ==
    ASSUME IInv, UNCHANGED <<dirs, rows, pub, phase, todo>>
    PROVE  Publishing' /\ RowDescribes' /\ Passed'
BY DEF IInv, Publishing, RowDescribes, Passed, Quiet

LEMMA BeginStep ==
    ASSUME IInv, NEW t \in Thread, Begin(t) PROVE IInv'
<1>1. TypeOK'
  <2>1. count'.ops \in 0..MaxOps /\ count' \in [ops: 0..MaxOps, compiles: 0..MaxCompiles,
                                                deaths: 0..MaxDeaths]
    BY DEF IInv, TypeOK, Begin
  <2>2. op' \in [Thread -> {Idle} \cup [at: Preparing \cup Activating, key: Key,
                                        alone: BOOLEAN]]
    <3>1. op \in [Thread -> {Idle} \cup [at: Preparing \cup Activating, key: Key,
                                          alone: BOOLEAN]]
      BY DEF IInv, TypeOK
    <3>2. \A r \in [at: Preparing \cup Activating, key: Key, alone: BOOLEAN] :
            [r EXCEPT !.alone = FALSE] \in [at: Preparing \cup Activating,
                                           key: Key, alone: BOOLEAN]
      OBVIOUS
    <3>4. \A u \in Thread : op[u].at \in Preparing =>
            op[u] \in [at: Preparing \cup Activating, key: Key, alone: BOOLEAN]
      BY <3>1 DEF Idle
    <3>3. \A k \in Key, b \in BOOLEAN : \A at \in {"look", "inspect"} :
            [at |-> at, key |-> k, alone |-> b] \in [at: Preparing \cup Activating,
                                                  key: Key, alone: BOOLEAN]
      OBVIOUS
    <3>5. PICK k \in Key :
            \/ op' = [v \in Thread |->
                      IF v = t THEN [at |-> "look", key |-> k,
                                     alone |-> {w \in Thread : op[w].at \in Preparing} = {}]
                      ELSE IF op[v].at \in Preparing THEN [op[v] EXCEPT !.alone = FALSE]
                      ELSE op[v]]
            \/ op' = [op EXCEPT ![t] = [at |-> "inspect", key |-> k, alone |-> TRUE]]
      BY <3>1 DEF Begin
    <3>6. CASE op' = [op EXCEPT ![t] = [at |-> "inspect", key |-> k, alone |-> TRUE]]
      BY <3>1, <3>3, <3>6
    <3>7. CASE op' = [v \in Thread |->
                      IF v = t THEN [at |-> "look", key |-> k,
                                     alone |-> {w \in Thread : op[w].at \in Preparing} = {}]
                      ELSE IF op[v].at \in Preparing THEN [op[v] EXCEPT !.alone = FALSE]
                      ELSE op[v]]
      <4>1. \A u \in Thread : op'[u] \in {Idle} \cup [at: Preparing \cup Activating,
                                                    key: Key, alone: BOOLEAN]
        BY <3>1, <3>2, <3>3, <3>4, <3>7
      <4> QED
        BY <3>7, <4>1
    <3> QED
      BY <3>5, <3>6, <3>7
  <2> QED
    BY <2>1, <2>2 DEF IInv, TypeOK, Begin, disk, proc
<1>2. Resting'
  BY DEF IInv, Begin, Resting, proc
<1>3. Publishing' /\ RowDescribes' /\ Passed'
  BY SameStore DEF Begin, disk, proc
<1>4. ASSUME NEW u \in Thread PROVE Alone(u)'
  <2> USE DEF Begin, At, disk, proc
  <2>1. op[t].at = "idle" /\ rows' = rows /\ dirs' = dirs /\ backend' = backend
    OBVIOUS
  <2>2. PICK k \in Key :
          \/ op' = [v \in Thread |->
                      IF v = t THEN [at |-> "look", key |-> k,
                                     alone |-> {w \in Thread : op[w].at \in Preparing} = {}]
                      ELSE IF op[v].at \in Preparing THEN [op[v] EXCEPT !.alone = FALSE]
                      ELSE op[v]]
          \/ op' = [op EXCEPT ![t] = [at |-> "inspect", key |-> k, alone |-> TRUE]]
    BY DEF IInv, TypeOK
  <2>3. CASE op' = [op EXCEPT ![t] = [at |-> "inspect", key |-> k, alone |-> TRUE]]
    BY <2>1, <2>3 DEF IInv, TypeOK, Alone, Own
  <2>4. CASE op' = [v \in Thread |->
                      IF v = t THEN [at |-> "look", key |-> k,
                                     alone |-> {w \in Thread : op[w].at \in Preparing} = {}]
                      ELSE IF op[v].at \in Preparing THEN [op[v] EXCEPT !.alone = FALSE]
                      ELSE op[v]]
    <3>1. CASE u = t
      <4>1. op'[u].at = "look"
              /\ (op'[u].alone => \A w \in Thread : op[w].at \notin Preparing)
        BY <2>4, <3>1
      <4>2. \A w \in Thread \ {t} : op[w].at \notin Preparing => op'[w] = op[w]
        BY <2>4
      <4> QED
        BY <3>1, <4>1, <4>2 DEF Alone
    <3>2. CASE u # t /\ op[u].at \in Preparing
      <4>1. op[u] \in [at: Preparing \cup Activating, key: Key, alone: BOOLEAN]
        BY <3>2 DEF IInv, TypeOK, Idle
      <4>2. op'[u].alone = FALSE
        BY <2>4, <3>2, <4>1
      <4> QED
        BY <4>2 DEF Alone
    <3>3. CASE u # t /\ op[u].at \notin Preparing
      BY <2>4, <3>3 DEF Alone
    <3> QED
      BY <3>1, <3>2, <3>3
  <2> QED
    BY <2>2, <2>3, <2>4
<1> QED
  BY <1>1, <1>2, <1>3, <1>4 DEF IInv

(* A thread's step that changes neither directory, row nor publication.    *)
LEMMA ThreadStep ==
    ASSUME IInv, NEW t \in Thread, op[t].at # "idle",
           UNCHANGED <<dirs, rows, pub, proc>>, TypeOK',
           \A u \in Thread \ {t} : op'[u] = op[u],
           op'[t].at \in Preparing => op[t].at \in Preparing,
           Alone(t)'
    PROVE  IInv'
<1>1. Resting'
  BY DEF IInv, Resting, proc, Idle
<1>2. Publishing' /\ RowDescribes' /\ Passed'
  BY SameStore DEF proc
<1>3. ASSUME NEW u \in Thread \ {t} PROVE Alone(u)'
  BY <1>3 DEF IInv, Alone, Own, proc
<1> QED
  BY <1>1, <1>2, <1>3 DEF IInv

(* The steps of a prepare.                                                 *)
LEMMA LookStep ==
    ASSUME IInv, NEW t \in Thread, Look(t) PROVE IInv'
<1>1. PICK at \in {"submit", "backend"} :
        /\ Goto(t, at) /\ (at = "backend" => rows[op[t].key] # None)
  BY DEF Look
<1>2. TypeOK' /\ Alone(t)' /\ \A u \in Thread \ {t} : op'[u] = op[u]
  BY <1>1, Going, Keys DEF IInv, TypeOK, Look, At, Alone, disk, proc
<1> QED
  BY <1>1, <1>2, ThreadStep DEF Look, At, disk

LEMMA BackendOkStep ==
    ASSUME IInv, NEW t \in Thread, BackendOk(t) PROVE IInv'
<1>1. CASE Own(op[t].key)
  <2>1. TypeOK' /\ Alone(t)' /\ op'[t].at \notin Preparing
          /\ \A u \in Thread \ {t} : op'[u] = op[u]
    BY <1>1, Ending DEF IInv, TypeOK, BackendOk, Alone, Idle, disk, proc
  <2> QED
    BY <2>1, ThreadStep DEF BackendOk, At, disk
<1>2. CASE ~Own(op[t].key)
  <2>1. TypeOK' /\ op'[t].at = "isdir" /\ \A u \in Thread \ {t} : op'[u] = op[u]
    BY <1>2, Going DEF IInv, TypeOK, BackendOk, At, disk, proc
  <2>2. Alone(t)'
    BY <1>2, Going DEF IInv, BackendOk, At, Alone, Own, disk, proc
  <2> QED
    BY <2>1, <2>2, ThreadStep DEF BackendOk, At, disk
<1> QED
  BY <1>1, <1>2

LEMMA IsDirStep ==
    ASSUME IInv, NEW t \in Thread, IsDir(t) PROVE IInv'
<1>1. PICK at \in {"forget", "aside"} : Goto(t, at)
  BY DEF IsDir
<1>2. TypeOK' /\ \A u \in Thread \ {t} : op'[u] = op[u]
  BY <1>1, Going DEF IInv, TypeOK, IsDir, At, disk, proc
<1>3. Alone(t)'
  BY <1>1, Going DEF IInv, IsDir, At, Alone, Own, disk, proc
<1> QED
  BY <1>1, <1>2, <1>3, ThreadStep DEF IsDir, At, disk

LEMMA SubmitStep ==
    ASSUME IInv, NEW t \in Thread, Submit(t) PROVE IInv'
<1>1. op[t].key \in Key /\ op[t].at = "submit"
  BY Keys DEF IInv, Submit, At
<1>2. failed' \in [Key -> Nat] /\ live' \subseteq Key
        /\ count' \in [ops: 0..MaxOps, compiles: 0..MaxCompiles, deaths: 0..MaxDeaths]
  BY <1>1 DEF IInv, TypeOK, Submit, Spawn, Consume
<1>3. TypeOK' /\ Alone(t)' /\ op'[t].at \notin Preparing
        /\ \A u \in Thread \ {t} : op'[u] = op[u]
  BY <1>2, Ending DEF IInv, TypeOK, Submit, Alone, Idle, proc
<1> QED
  BY <1>1, <1>3, ThreadStep DEF Submit

(* A prepare takes a half away: the row or the directory.                  *)
LEMMA AsideStep ==
    ASSUME IInv, NEW t \in Thread, Aside(t) PROVE IInv'
<1>1. op[t].key \in Key /\ op[t].at = "aside"
  BY Keys DEF IInv, Aside, At
<1>2. CASE dirs' = dirs /\ Done(t)
  <2>1. TypeOK' /\ Alone(t)' /\ op'[t].at \notin Preparing
          /\ \A u \in Thread \ {t} : op'[u] = op[u]
    BY <1>2, Ending DEF IInv, TypeOK, Aside, Alone, Idle, proc
  <2> QED
    BY <1>1, <1>2, <2>1, ThreadStep DEF Aside
<1>3. CASE dirs' = [dirs EXCEPT ![op[t].key] = None] /\ Goto(t, "forget")
  <2>1. \A k \in Key : dirs'[k] = IF k = op[t].key THEN None ELSE dirs[k]
    BY <1>1, <1>3 DEF IInv, TypeOK
  <2>2. TypeOK'
    BY <1>1, <1>3, <2>1, Going DEF IInv, TypeOK, Aside, proc
  <2>3. Resting'
    BY <1>1 DEF IInv, Resting, Aside, proc, Idle
  <2>4. Publishing'
    BY <2>1, Keys DEF IInv, Publishing, Aside
  <2>5. RowDescribes'
    BY <2>1 DEF IInv, RowDescribes, Aside
  <2>6. Passed'
    BY <1>1 DEF IInv, Resting, Passed, Aside, proc, Idle
  <2>7. ASSUME NEW u \in Thread PROVE Alone(u)'
    <3>1. op'[u] = op[u] \/ u = t
      BY <1>1, <1>3, Going DEF IInv
    <3>2. CASE u = t
      BY <1>1, <1>3, <2>1, <3>2, Going DEF IInv, Aside, Alone, Own, proc
    <3>3. CASE u # t
      BY <1>1, <1>3, <2>1, <3>1, <3>3, Going, Keys DEF IInv, Aside, Alone, Own, proc
    <3> QED
      BY <3>2, <3>3
  <2> QED
    BY <2>2, <2>3, <2>4, <2>5, <2>6, <2>7 DEF IInv
<1> QED
  BY <1>2, <1>3 DEF Aside

LEMMA ForgetRowStep ==
    ASSUME IInv, NEW t \in Thread, ForgetRow(t) PROVE IInv'
<1>1. op[t].key \in Key /\ op[t].at = "forget"
  BY Keys DEF IInv, ForgetRow, At
<1>2. \A k \in Key : rows'[k] = IF k = op[t].key THEN None ELSE rows[k]
  BY <1>1 DEF IInv, TypeOK, ForgetRow
<1>3. TypeOK'
  BY <1>1, <1>2, Going DEF IInv, TypeOK, ForgetRow, proc
<1>4. Resting' /\ Passed'
  BY <1>1 DEF IInv, Resting, Passed, ForgetRow, proc, Idle
<1>5. Publishing'
  BY <1>2, Keys DEF IInv, Publishing, ForgetRow
<1>6. RowDescribes'
  BY <1>2 DEF IInv, RowDescribes, ForgetRow
<1>7. ASSUME NEW u \in Thread PROVE Alone(u)'
  <2>1. CASE u = t
    BY <1>1, <2>1, Going DEF IInv, ForgetRow, Alone
  <2>2. CASE u # t
    <3>1. op[t].at \in Preparing /\ op'[t].at = "submit" /\ op'[u] = op[u]
      BY <1>1, <2>2, Going DEF IInv, ForgetRow
    <3> QED
      BY <1>1, <2>2, <3>1 DEF IInv, Alone, Own, ForgetRow, proc
  <2> QED
    BY <2>1, <2>2
<1> QED
  BY <1>3, <1>4, <1>5, <1>6, <1>7 DEF IInv

(* The steps of an activation.                                             *)
LEMMA ActivateStep ==
    ASSUME IInv, NEW t \in Thread, Activate(t) PROVE IInv'
<1>1. CASE Inspect(t)
  <2>1. Goto(t, "load") \/ Done(t)
    BY <1>1 DEF Inspect
  <2>2. TypeOK' /\ Alone(t)' /\ op'[t].at \notin Preparing
          /\ \A u \in Thread \ {t} : op'[u] = op[u]
    BY <1>1, <2>1, Going, Ending DEF IInv, TypeOK, Inspect, At, Alone, Idle, disk, proc
  <2> QED
    BY <1>1, <2>2, ThreadStep DEF Inspect, At, disk
<1>2. CASE Load(t)
  <2>1. Goto(t, "record") \/ Done(t)
    BY <1>2 DEF Load
  <2>2. TypeOK' /\ Alone(t)' /\ op'[t].at \notin Preparing
          /\ \A u \in Thread \ {t} : op'[u] = op[u]
    BY <1>2, <2>1, Going, Ending DEF IInv, TypeOK, Load, At, Alone, Idle, disk, proc
  <2> QED
    BY <1>2, <2>2, ThreadStep DEF Load, At, disk
<1>3. CASE RecordCheck(t)
  <2>1. TypeOK' /\ Alone(t)' /\ op'[t].at \notin Preparing
          /\ \A u \in Thread \ {t} : op'[u] = op[u]
    BY <1>3, Ending DEF IInv, TypeOK, RecordCheck, At, Alone, Idle, proc
  <2> QED
    BY <1>3, <2>1, ThreadStep DEF RecordCheck, At
<1> QED
  BY <1>1, <1>2, <1>3 DEF Activate

----------------------------------------------------------------------------
(* A publication goes from one step to the next.                           *)
LEMMA PubGoing ==
    ASSUME TypeOK, pub.at # "idle", NEW at \in PubAt, PubGoto(at)
    PROVE  /\ pub' # Quiet /\ pub' \in [at: PubAt, key: Key, bytes: Bytes]
           /\ pub'.at = at /\ pub'.key = pub.key /\ pub'.bytes = pub.bytes
           /\ pub.key \in Key /\ pub.bytes \in Bytes /\ pub # Quiet
<1>1. pub \in [at: PubAt, key: Key, bytes: Bytes] /\ pub # Quiet
  BY DEF TypeOK, Quiet
<1>2. pub' = [pub EXCEPT !.at = at]
  BY DEF PubGoto
<1>3. pub' \in [at: PubAt, key: Key, bytes: Bytes] /\ pub'.at = at
        /\ pub'.key = pub.key /\ pub'.bytes = pub.bytes
  BY <1>1, <1>2
<1>4. pub' # Quiet
  BY <1>3 DEF Quiet, PubAt
<1> QED
  BY <1>1, <1>3, <1>4

(* It ends, and a job of its key may have failed.                          *)
LEMMA Failing ==
    ASSUME TypeOK, NEW S, Fail(S) PROVE failed' \in [Key -> Nat]
BY DEF TypeOK, Fail

(* A step of the serve loop that leaves rows and directories alone.        *)
LEMMA LoopStep ==
    ASSUME IInv, phase = "up", UNCHANGED <<dirs, rows, op, proc>>, TypeOK', Publishing'
    PROVE  IInv'
<1>1. Resting' /\ RowDescribes' /\ Passed'
  BY DEF IInv, Resting, RowDescribes, Passed, proc
<1>2. \A t \in Thread : Alone(t)'
  BY AloneStays DEF Own, proc
<1> QED
  BY <1>1, <1>2 DEF IInv

LEMMA CompiledStep ==
    ASSUME IInv, NEW k \in Key, Compiled(k) PROVE IInv'
<1>1. pub = Quiet
  BY Keys DEF IInv, Compiled, PubIs, PubAt
<1>2. failed' \in [Key -> Nat]
  BY Failing DEF IInv, TypeOK, Compiled
<1>3. pub' = Quiet \/ \E b \in Bytes : pub' = [at |-> "look", key |-> k, bytes |-> b]
  BY <1>1 DEF Compiled
<1>4. TypeOK'
  BY <1>2, <1>3 DEF IInv, TypeOK, Compiled, PubAt, proc
<1>5. Publishing'
  BY <1>3 DEF Publishing
<1> QED
  BY <1>4, <1>5, LoopStep DEF Compiled, PubIs

LEMMA PubQuietSteps ==
    ASSUME IInv, PubLook \/ PubIsDir \/ PubStage \/ PubRefuse \/ PubProbe PROVE IInv'
<1>1. phase = "up" /\ pub.at # "idle" /\ pub # Quiet
      /\ UNCHANGED <<dirs, rows, op, proc>> /\ live' = live /\ count' = count
      /\ pub.key \in Key /\ pub.bytes \in Bytes
  BY Keys DEF IInv, PubLook, PubIsDir, PubStage, PubRefuse, PubProbe, PubIs, disk
<1>2. CASE PubLook
  <2>1. pub' = Quiet \/ (PubGoto("isdir") /\ rows[pub.key] = None)
    BY <1>2 DEF PubLook
  <2>2. TypeOK'
    BY <1>1, <1>2, <2>1, PubGoing DEF IInv, TypeOK, PubLook, PubAt, disk, proc
  <2>3. Publishing'
    BY <1>1, <1>2, <2>1, PubGoing DEF IInv, Publishing, PubLook, PubAt
  <2> QED
    BY <1>1, <2>2, <2>3, LoopStep
<1>3. CASE PubIsDir
  <2>1. \/ PubGoto("stage") /\ dirs[pub.key] = None
        \/ PubGoto("clear")
    BY <1>3 DEF PubIsDir
  <2>2. TypeOK'
    BY <1>1, <1>3, <2>1, PubGoing DEF IInv, TypeOK, PubIsDir, PubAt, disk, proc
  <2>3. Publishing'
    BY <1>1, <1>3, <2>1, PubGoing DEF IInv, Publishing, PubIsDir, PubIs, PubAt
  <2> QED
    BY <1>1, <2>2, <2>3, LoopStep
<1>4. CASE PubStage
  <2>1. pub' = Quiet \/ PubGoto("refuse")
    BY <1>4 DEF PubStage
  <2>2. TypeOK'
    BY <1>1, <1>4, <2>1, PubGoing, Failing DEF IInv, TypeOK, PubStage, PubAt, proc
  <2>3. Publishing'
    BY <1>1, <1>4, <2>1, PubGoing DEF IInv, Publishing, PubStage, PubIs, PubAt
  <2> QED
    BY <1>1, <2>2, <2>3, LoopStep
<1>5. CASE PubRefuse
  <2>1. pub' = Quiet \/ PubGoto("rename")
    BY <1>5 DEF PubRefuse
  <2>2. TypeOK'
    BY <1>1, <1>5, <2>1, PubGoing, Failing DEF IInv, TypeOK, PubRefuse, PubAt, proc
  <2>3. Publishing'
    BY <1>1, <1>5, <2>1, PubGoing DEF IInv, Publishing, PubRefuse, PubIs, PubAt
  <2> QED
    BY <1>1, <2>2, <2>3, LoopStep
<1>6. CASE PubProbe
  <2>1. pub' = Quiet /\ checks' \subseteq Key \X Bytes
    BY <1>1, <1>6 DEF IInv, TypeOK, PubProbe
  <2>2. TypeOK' /\ Publishing'
    BY <1>1, <1>6, <2>1 DEF IInv, TypeOK, Publishing, PubProbe, proc
  <2> QED
    BY <1>1, <2>2, LoopStep
<1> QED
  BY <1>2, <1>3, <1>4, <1>5, <1>6

LEMMA PubClearStep ==
    ASSUME IInv, PubClear PROVE IInv'
<1>1. pub.at = "clear" /\ PubGoto("stage") /\ phase = "up" /\ pub # Quiet
        /\ rows[pub.key] = None /\ pub.key \in Key
  BY Keys DEF IInv, Publishing, PubClear, PubIs
<1>2. \A k \in Key : dirs'[k] = IF k = pub.key THEN None ELSE dirs[k]
  BY <1>1 DEF IInv, TypeOK, PubClear
<1>3. TypeOK'
  BY <1>1, <1>2, PubGoing DEF IInv, TypeOK, PubClear, PubAt, proc
<1>4. Publishing'
  BY <1>1, <1>2, PubGoing DEF IInv, Publishing, PubClear, PubAt
<1>5. Resting' /\ RowDescribes' /\ Passed'
  BY <1>1, <1>2 DEF IInv, Resting, RowDescribes, Passed, PubClear, proc
<1>6. \A t \in Thread : Alone(t)'
  BY <1>2, AloneStays DEF Own, PubClear, proc
<1> QED
  BY <1>3, <1>4, <1>5, <1>6 DEF IInv

LEMMA PubRenameStep ==
    ASSUME IInv, PubRename PROVE IInv'
<1>1. pub.at = "rename" /\ PubGoto("row") /\ phase = "up" /\ pub # Quiet
        /\ rows[pub.key] = None /\ pub.key \in Key /\ pub.bytes \in Bytes
  BY Keys DEF IInv, Publishing, PubRename, PubIs
<1>2. PICK a \in Artifact : /\ a.digest = pub.bytes /\ a.backend = backend
                            /\ dirs' = [dirs EXCEPT ![pub.key] = a]
  BY <1>1 DEF IInv, TypeOK, PubRename, Artifact
<1>3. \A k \in Key : dirs'[k] = IF k = pub.key THEN a ELSE dirs[k]
  BY <1>1, <1>2 DEF IInv, TypeOK
<1>4. TypeOK'
  BY <1>1, <1>2, PubGoing DEF IInv, TypeOK, PubRename, PubAt, proc
<1>5. Publishing'
  BY <1>1, <1>2, <1>3, PubGoing DEF IInv, Publishing, PubRename, PubAt
<1>6. Resting' /\ RowDescribes' /\ Passed'
  BY <1>1, <1>3 DEF IInv, Resting, RowDescribes, Passed, PubRename, proc
<1>7. \A t \in Thread : Alone(t)'
  BY <1>1, <1>3, AloneStays DEF Own, PubRename, proc
<1> QED
  BY <1>4, <1>5, <1>6, <1>7 DEF IInv

LEMMA PubRowStep ==
    ASSUME IInv, PubRow PROVE IInv'
<1>1. pub.at = "row" /\ PubGoto("probe") /\ phase = "up" /\ pub # Quiet
        /\ rows[pub.key] = None /\ pub.key \in Key /\ pub.bytes \in Bytes
        /\ (dirs[pub.key] # None => dirs[pub.key].digest = pub.bytes)
  BY Keys DEF IInv, Publishing, PubRow, PubIs
<1>2. \A k \in Key : rows'[k] = IF k = pub.key THEN pub.bytes ELSE rows[k]
  BY <1>1 DEF IInv, TypeOK, PubRow
<1>3. TypeOK'
  BY <1>1, <1>2, PubGoing DEF IInv, TypeOK, PubRow, PubAt, proc
<1>4. Publishing'
  BY <1>1, <1>2, PubGoing DEF IInv, Publishing, PubRow, PubAt
<1>5. Resting' /\ RowDescribes' /\ Passed'
  BY <1>1, <1>2 DEF IInv, Resting, RowDescribes, Passed, PubRow, proc
<1>6. \A t \in Thread : Alone(t)'
  BY <1>1, <1>2, AloneStays DEF Own, PubRow, proc
<1> QED
  BY <1>3, <1>4, <1>5, <1>6 DEF IInv

----------------------------------------------------------------------------
LEMMA ResumeStep ==
    ASSUME IInv, NEW k \in Key, Resume(k) PROVE IInv'
<1>1. TypeOK'
  BY DEF IInv, TypeOK, Resume, Spawn, Consume, proc
<1>2. Publishing'
  BY DEF IInv, Publishing, Resume
<1> QED
  BY <1>1, <1>2, LoopStep DEF Resume

(* What rots keeps its manifest.                                           *)
LEMMA Rotting ==
    ASSUME TypeOK, NEW k \in Key, Damage(k)
    PROVE  \E a \in Artifact : /\ a.digest = dirs[k].digest /\ a.backend = dirs[k].backend
                              /\ dirs' = [dirs EXCEPT ![k] = a]
<1>1. dirs[k] \in Artifact
  BY DEF TypeOK, Damage
<1>2. PICK b \in Bytes : dirs' = [dirs EXCEPT ![k] = [bytes |-> b, digest |-> dirs[k].digest,
                                                     backend |-> dirs[k].backend]]
  BY DEF Damage
<1> DEFINE a == [bytes |-> b, digest |-> dirs[k].digest, backend |-> dirs[k].backend]
<1>3. a \in Artifact /\ a.digest = dirs[k].digest /\ a.backend = dirs[k].backend
  BY <1>1 DEF Artifact
<1> QED
  BY <1>2, <1>3

LEMMA DamageStep ==
    ASSUME IInv, NEW k \in Key, Damage(k) PROVE IInv'
<1>1. PICK a \in Artifact : /\ a.digest = dirs[k].digest /\ a.backend = dirs[k].backend
                            /\ dirs' = [dirs EXCEPT ![k] = a]
  BY Rotting DEF IInv
<1>2. \A j \in Key : dirs'[j] = IF j = k THEN a ELSE dirs[j]
  BY <1>1 DEF IInv, TypeOK
<1>3. dirs[k] # None
  BY DEF Damage
<1>4. TypeOK'
  <2>1. dirs' \in [Key -> Artifact \cup {None}]
    BY <1>1 DEF IInv, TypeOK
  <2> QED
    BY <2>1 DEF IInv, TypeOK, Damage, work, proc
<1>5. Resting' /\ Passed' /\ RowDescribes'
  BY <1>1, <1>2, <1>3 DEF IInv, Resting, Passed, RowDescribes, Damage, work, proc
<1>6. Publishing'
  BY <1>1, <1>2, <1>3, Keys DEF IInv, Publishing, Damage, work
<1>7. \A t \in Thread : Alone(t)'
  BY <1>1, <1>2, <1>3, AloneStays DEF Own, Damage, work, proc
<1> QED
  BY <1>4, <1>5, <1>6, <1>7 DEF IInv

LEMMA DieStep ==
    ASSUME IInv, Die PROVE IInv'
<1>1. failed' \in [Key -> Nat]
  BY Failing DEF IInv, Die
<1>2. op' \in [Thread -> {Idle}]
        /\ count' \in [ops: 0..MaxOps, compiles: 0..MaxCompiles, deaths: 0..MaxDeaths]
  BY DEF IInv, TypeOK, Die
<1>3. TypeOK'
  BY <1>1, <1>2 DEF IInv, TypeOK, Die
<1>4. Resting' /\ Publishing' /\ Passed' /\ \A t \in Thread : Alone(t)'
  BY <1>2 DEF Die, Resting, Publishing, Passed, Alone, Idle
<1>5. RowDescribes'
  BY DEF IInv, RowDescribes, Die
<1> QED
  BY <1>3, <1>4, <1>5 DEF IInv

(* While nothing serves, only recover works.                               *)
LEMMA StartStep ==
    ASSUME IInv, Start \/ Serve PROVE IInv'
<1>1. UNCHANGED <<dirs, rows, pub, op>> /\ phase # "up" /\ phase' \in {"recover", "up"}
  BY DEF Start, Serve, disk, work
<1>2. pub = Quiet /\ \A t \in Thread : op[t] = Idle
  BY <1>1 DEF IInv, Resting
<1>3. TypeOK'
  BY DEF IInv, TypeOK, Start, Serve, disk, work
<1>6. pub' = Quiet /\ \A t \in Thread : op'[t] = Idle
  BY <1>1, <1>2
<1>4. Resting' /\ Publishing' /\ \A t \in Thread : Alone(t)'
  <2>1. Resting' /\ Publishing'
    BY <1>6 DEF Resting, Publishing
  <2>2. \A t \in Thread : op'[t].at = "idle"
    BY <1>6 DEF Idle
  <2> QED
    BY <2>1, <2>2 DEF Alone
<1>5. RowDescribes' /\ Passed'
  BY <1>1 DEF IInv, RowDescribes, Passed, Start, Serve
<1> QED
  BY <1>3, <1>4, <1>5 DEF IInv

LEMMA RecoverKeyStep ==
    ASSUME IInv, NEW k \in Key, RecoverKey(k) PROVE IInv'
<1>1. pub = Quiet /\ \A t \in Thread : op[t] = Idle
  BY DEF IInv, Resting, RecoverKey
<1>2. \A j \in Key \ {k} : dirs'[j] = dirs[j] /\ rows'[j] = rows[j]
  BY DEF IInv, TypeOK, RecoverKey
<1>3. /\ rows'[k] # None /\ dirs'[k] # None => rows'[k] = dirs'[k].digest
      /\ dirs'[k] # None => rows'[k] # None
      /\ rows' \in [Key -> Bytes \cup {None}] /\ dirs' \in [Key -> Artifact \cup {None}]
  <2>1. CASE rows[k] # None \/ dirs[k] = None
    BY <2>1 DEF IInv, TypeOK, RowDescribes, RecoverKey
  <2>2. CASE rows[k] = None /\ dirs[k] # None
    BY <2>2, Contents DEF IInv, TypeOK, RecoverKey, Artifact
  <2> QED
    BY <2>1, <2>2
<1>4. TypeOK'
  BY <1>3 DEF IInv, TypeOK, RecoverKey, work
<1>7. pub' = Quiet /\ \A t \in Thread : op'[t] = Idle
  BY <1>1 DEF RecoverKey, work
<1>5. Resting' /\ Publishing' /\ \A t \in Thread : Alone(t)'
  <2>1. Resting' /\ Publishing'
    BY <1>7 DEF Resting, Publishing
  <2>2. \A t \in Thread : op'[t].at = "idle"
    BY <1>7 DEF Idle
  <2> QED
    BY <2>1, <2>2 DEF Alone
<1>6. RowDescribes' /\ Passed'
  BY <1>2, <1>3 DEF IInv, RowDescribes, Passed, RecoverKey
<1> QED
  BY <1>4, <1>5, <1>6 DEF IInv

LEMMA IInvNext == IInv /\ [Next]_vars => IInv'
<1> SUFFICES ASSUME IInv, [Next]_vars PROVE IInv'
  OBVIOUS
<1>1. ASSUME NEW t \in Thread, Begin(t) \/ Prepare(t) \/ Activate(t) PROVE IInv'
  BY <1>1, BeginStep, LookStep, BackendOkStep, IsDirStep, AsideStep, ForgetRowStep,
     SubmitStep, ActivateStep DEF Prepare
<1>2. ASSUME NEW k \in Key, Resume(k) \/ Compiled(k) \/ RecoverKey(k) \/ Damage(k) PROVE IInv'
  BY <1>2, ResumeStep, CompiledStep, RecoverKeyStep, DamageStep
<1>3. CASE Publish
  BY <1>3, PubQuietSteps, PubClearStep, PubRenameStep, PubRowStep DEF Publish
<1>4. CASE Restart
  BY <1>4, DieStep, StartStep DEF Restart
<1>5. CASE UNCHANGED vars
  <2>1. TypeOK'
    BY <1>5 DEF IInv, TypeOK, vars, disk, work, proc
  <2>2. Resting' /\ Publishing' /\ RowDescribes' /\ Passed'
    BY <1>5 DEF IInv, Resting, Publishing, RowDescribes, Passed, vars, disk, work, proc
  <2>3. \A t \in Thread : Alone(t)'
    BY <1>5, AloneStays DEF Own, vars, disk, work, proc
  <2> QED
    BY <2>1, <2>2, <2>3 DEF IInv
<1> QED
  BY <1>1, <1>2, <1>3, <1>4, <1>5 DEF Next

----------------------------------------------------------------------------
(* The store's variables are of their types in every state                 *)
(* (supervisor.py, cache/store.py, cache/registry.py).                     *)
THEOREM TypeCorrect == Spec => []TypeOK
<1>1. IInv => TypeOK
  BY DEF IInv
<1> QED
  BY <1>1, IInvInit, IInvNext, PTL DEF Spec

(* However prepares, publications and deaths interleave, a row describes   *)
(* the directory of its key (supervisor.py _publish_result and             *)
(* _invalidate_artifact, cache/store.py recover).                          *)
THEOREM RowsTrue == Spec => []RowDescribes
<1>1. IInv => RowDescribes
  BY DEF IInv
<1> QED
  BY <1>1, IInvInit, IInvNext, PTL DEF Spec

(* A finished compile never finds a committed directory in its way         *)
(* (supervisor.py _publish_result, cache/store.py publish_artifact).       *)
THEOREM NeverWedged == Spec => []Unobstructed
<1>1. IInv => Unobstructed
  BY Keys DEF IInv, Publishing, Unobstructed
<1> QED
  BY <1>1, IInvInit, IInvNext, PTL DEF Spec

(* Every recovery leaves a row to each directory it has passed, a row that *)
(* is the digest of the bytes it found, and takes out what is damaged only *)
(* (cache/store.py recover).                                               *)
THEOREM RecoveryConverges == Spec => Converges
<1> DEFINE Converging ==
             phase = "recover" /\ phase' = phase =>
               \A k \in Key \ todo' :
                 /\ dirs'[k] # None => rows'[k] # None
                 /\ rows'[k] # rows[k] => dirs'[k] # None /\ rows'[k] = dirs'[k].bytes
                 /\ dirs[k] # None /\ dirs'[k] = None => ~Whole(dirs[k])
<1>1. IInv /\ [Next]_vars => [Converging]_vars
  <2> SUFFICES ASSUME IInv, Next, phase = "recover", phase' = phase,
                      NEW k \in Key, k \notin todo'
               PROVE  /\ dirs'[k] # None => rows'[k] # None
                      /\ rows'[k] # rows[k] => dirs'[k] # None /\ rows'[k] = dirs'[k].bytes
                      /\ dirs[k] # None /\ dirs'[k] = None => ~Whole(dirs[k])
    OBVIOUS
  <2>1. dirs'[k] # None => rows'[k] # None
    BY IInvNext DEF IInv, Passed
  <2>2. pub.at = "idle" /\ \A t \in Thread : op[t].at = "idle"
    BY DEF IInv, Resting, Quiet, Idle
  <2>3. ASSUME NEW t \in Thread, Begin(t) \/ Prepare(t) \/ Activate(t) PROVE FALSE
    BY <2>2, <2>3 DEF Begin, Prepare, Look, BackendOk, IsDir, Aside, ForgetRow, Submit,
       Activate, Inspect, Load, RecordCheck, At
  <2>4. ~Publish
    BY DEF Publish, PubLook, PubIsDir, PubClear, PubStage, PubRefuse, PubRename, PubRow,
       PubProbe, PubIs
  <2>5. ASSUME NEW j \in Key, Resume(j) \/ Compiled(j) PROVE FALSE
    BY <2>5 DEF Resume, Compiled, PubIs
  <2>6. ASSUME Restart PROVE FALSE
    BY <2>6 DEF Restart, Die, Start, Serve
  <2>7. ASSUME NEW j \in Key, Damage(j)
        PROVE  rows'[k] = rows[k] /\ (dirs'[k] = None => dirs[k] = None)
    <3>1. PICK a \in Artifact : dirs' = [dirs EXCEPT ![j] = a]
      BY <2>7, Rotting DEF IInv
    <3>2. a # None
      BY Contents DEF IInv
    <3> QED
      BY <2>7, <3>1, <3>2 DEF IInv, TypeOK, Damage
  <2>8. ASSUME NEW j \in Key, RecoverKey(j)
        PROVE  /\ rows'[k] # rows[k] => dirs'[k] # None /\ rows'[k] = dirs'[k].bytes
               /\ dirs[k] # None /\ dirs'[k] = None => ~Whole(dirs[k])
    <3>1. CASE k # j
      BY <2>8, <3>1 DEF IInv, TypeOK, RecoverKey
    <3>2. CASE k = j
      BY <2>8, <3>2 DEF IInv, TypeOK, RecoverKey, Whole
    <3> QED
      BY <3>1, <3>2
  <2> QED
    BY <2>1, <2>3, <2>4, <2>5, <2>6, <2>7, <2>8 DEF Next
<1> QED
  BY <1>1, IInvInit, IInvNext, PTL DEF Spec, Converges

(* What a process can use it keeps, unless two prepares overlap: the row   *)
(* that a lone prepare has seen keeps the serve loop from committing, so   *)
(* what it sets aside is still the foreign artifact it has read            *)
(* (supervisor.py _ingest_source).                                         *)
THEOREM KeptByTheLone == Spec => LostOnlyByOverlap
<1> DEFINE Kept == \A k \in Key : Usable(k) /\ phase' = phase /\ ~Usable(k)' =>
         \E t \in Thread : op[t].key = k /\ op[t].at \in Invalidating /\ ~op[t].alone
<1>1. IInv /\ [Next]_vars => [Kept]_vars
  <2> SUFFICES ASSUME IInv, Next, NEW k \in Key, Usable(k), phase' = phase, ~Usable(k)'
               PROVE  \E t \in Thread : /\ op[t].key = k /\ op[t].at \in Invalidating
                                        /\ ~op[t].alone
    OBVIOUS
  <2>1. ASSUME NEW t \in Thread, Begin(t) \/ Activate(t) PROVE FALSE
    BY <2>1 DEF Begin, Activate, Inspect, Load, RecordCheck, Usable, Own, disk, proc
  <2>2. ASSUME NEW t \in Thread, Look(t) \/ BackendOk(t) \/ IsDir(t) \/ Submit(t) PROVE FALSE
    BY <2>2 DEF Look, BackendOk, IsDir, Submit, Usable, Own, disk, proc
  <2>3. ASSUME NEW t \in Thread, Aside(t) \/ ForgetRow(t)
        PROVE  op[t].key = k /\ op[t].at \in Invalidating /\ ~op[t].alone
    <3>1. op[t].at \in Invalidating /\ op[t].key \in Key /\ op[t].alone \in BOOLEAN
      BY <2>3, Keys DEF IInv, Aside, ForgetRow, At
    <3>2. op[t].key = k
      BY <2>3, <3>1 DEF IInv, TypeOK, Aside, ForgetRow, Usable, Own, proc
    <3>3. ~op[t].alone
      BY <3>1, <3>2 DEF IInv, Alone, Usable
    <3> QED
      BY <3>1, <3>2, <3>3
  <2>4. ASSUME Publish PROVE FALSE
    <3>1. PubLook \/ PubIsDir \/ PubStage \/ PubRefuse \/ PubProbe => FALSE
      BY DEF PubLook, PubIsDir, PubStage, PubRefuse, PubProbe, Usable, Own, disk, proc
    <3>2. ~PubClear
      <4> SUFFICES ASSUME PubClear PROVE FALSE
        OBVIOUS
      <4>1. rows[pub.key] = None /\ pub.key \in Key
        BY Keys DEF IInv, Publishing, PubClear, PubIs
      <4> QED
        BY <4>1 DEF IInv, TypeOK, PubClear, Usable, Own, proc
    <3>3. ~PubRename
      <4> SUFFICES ASSUME PubRename PROVE FALSE
        OBVIOUS
      <4>1. rows[pub.key] = None /\ pub.key \in Key
        BY Keys DEF IInv, Publishing, PubRename, PubIs
      <4> QED
        BY <4>1 DEF IInv, TypeOK, PubRename, Usable, Own, proc
    <3>4. ~PubRow
      <4> SUFFICES ASSUME PubRow PROVE FALSE
        OBVIOUS
      <4>1. pub.key \in Key /\ pub.bytes \in Bytes
        BY Keys DEF IInv, PubRow, PubIs
      <4> QED
        BY <4>1 DEF IInv, TypeOK, PubRow, Usable, Own, proc
    <3> QED
      BY <2>4, <3>1, <3>2, <3>3, <3>4 DEF Publish
  <2>5. ASSUME NEW j \in Key, Resume(j) \/ Compiled(j) PROVE FALSE
    BY <2>5 DEF Resume, Compiled, Usable, Own, proc
  <2>6. ASSUME NEW j \in Key, RecoverKey(j) PROVE FALSE
    BY <2>6 DEF IInv, TypeOK, RecoverKey, Usable, Own
  <2>7. ASSUME NEW j \in Key, Damage(j) PROVE FALSE
    <3>1. PICK a \in Artifact : a.backend = dirs[j].backend /\ dirs' = [dirs EXCEPT ![j] = a]
      BY <2>7, Rotting DEF IInv
    <3>2. dirs'[j] # None /\ dirs'[j].backend = dirs[j].backend
            /\ \A i \in Key \ {j} : dirs'[i] = dirs[i]
      BY <3>1, Contents DEF IInv, TypeOK
    <3> QED
      BY <2>7, <3>2 DEF Damage, Usable, Own, proc
  <2>8. ~Restart
    BY DEF Restart, Die, Start, Serve
  <2> QED
    BY <2>1, <2>2, <2>3, <2>4, <2>5, <2>6, <2>7, <2>8 DEF Next, Prepare
<1> QED
  BY <1>1, IInvInit, IInvNext, PTL DEF Spec, LostOnlyByOverlap

----------------------------------------------------------------------------
(* The refinement.  What a directory shows of itself determines whether it *)
(* is there, and a change of the bytes its manifest names does not show.   *)
Entry == [k \in Key |-> Content(dirs[k])]

LEMMA Shown ==
    /\ \A a \in Artifact : /\ Content(a) \in [bytes: Bytes, backend: Backend]
                           /\ Content(a) # None /\ Content(a).bytes = a.digest
    /\ Content(None) = None
BY DEF Content, Artifact

(* A step on the directory of one key.                                     *)
LEMMA EntryOf ==
    ASSUME NEW k \in Key, \A j \in Key \ {k} : dirs'[j] = dirs[j]
    PROVE  Entry' = [Entry EXCEPT ![k] = Content(dirs'[k])]
BY DEF Entry, Content

LEMMA SameEntry ==
    ASSUME \A j \in Key : dirs'[j] = dirs[j]
    PROVE  Entry' = Entry
BY DEF Entry, Content

(* Every step of the store is one of the cache, or changes nothing of it.  *)
CacheStep(k) ==
    \/ /\ Entry[k] = None /\ rows[k] = None /\ rows' = rows
       /\ \E a \in [bytes: Bytes, backend: Backend] : Entry' = [Entry EXCEPT ![k] = a]
    \/ /\ Entry[k] # None /\ rows' = rows
       /\ Entry' = [Entry EXCEPT ![k] = None]
    \/ /\ rows[k] = None /\ Entry' = Entry
       /\ \E b \in Bytes : /\ Entry[k] # None => b = Entry[k].bytes
                           /\ rows' = [rows EXCEPT ![k] = b]
    \/ /\ rows[k] # None /\ Entry' = Entry
       /\ rows' = [rows EXCEPT ![k] = None]

LEMMA StoreSteps ==
    ASSUME IInv, Next
    PROVE  (Entry' = Entry /\ rows' = rows) \/ \E k \in Key : CacheStep(k)
<1>1. \A k \in Key : Entry[k] = Content(dirs[k])
  BY DEF Entry
<1>2. ASSUME NEW k \in Key, dirs[k] # None, dirs' = [dirs EXCEPT ![k] = None], rows' = rows
      PROVE  CacheStep(k)
  <2>1. dirs[k] \in Artifact
    BY <1>2, Contents DEF IInv
  <2>2. Entry' = [Entry EXCEPT ![k] = None]
    BY <1>2, EntryOf, Shown DEF IInv, TypeOK
  <2> QED
    BY <1>1, <1>2, <2>1, <2>2, Shown DEF CacheStep
<1>3. ASSUME NEW t \in Thread, Aside(t) \/ ForgetRow(t)
      PROVE  (Entry' = Entry /\ rows' = rows) \/ \E k \in Key : CacheStep(k)
  <2>1. op[t].key \in Key
    BY <1>3, Keys DEF IInv, Aside, ForgetRow, At
  <2>2. CASE Aside(t)
    BY <1>2, <2>1, <2>2, SameEntry DEF Aside
  <2>3. CASE ForgetRow(t)
    <3>1. Entry' = Entry
      BY <2>3, SameEntry DEF ForgetRow
    <3>2. CASE rows[op[t].key] = None
      BY <2>1, <2>3, <3>1, <3>2 DEF IInv, TypeOK, ForgetRow
    <3>3. CASE rows[op[t].key] # None
      BY <2>1, <2>3, <3>1, <3>3 DEF ForgetRow, CacheStep
    <3> QED
      BY <3>2, <3>3
  <2> QED
    BY <1>3, <2>2, <2>3
<1>4. ASSUME NEW t \in Thread,
             \/ Begin(t) \/ Activate(t)
             \/ Look(t) \/ BackendOk(t) \/ IsDir(t) \/ Submit(t)
      PROVE  Entry' = Entry /\ rows' = rows
  BY <1>4, SameEntry DEF Begin, Activate, Inspect, Load, RecordCheck, Look, BackendOk,
     IsDir, Submit, disk
<1>5. ASSUME PubLook \/ PubIsDir \/ PubStage \/ PubRefuse \/ PubProbe
      PROVE  Entry' = Entry /\ rows' = rows
  BY <1>5, SameEntry DEF PubLook, PubIsDir, PubStage, PubRefuse, PubProbe, disk
<1>6. ASSUME PubClear PROVE \E k \in Key : CacheStep(k)
  BY <1>2, <1>6, Keys DEF IInv, PubClear, PubIs
<1>7. ASSUME PubRename PROVE CacheStep(pub.key) /\ pub.key \in Key
  <2>1. rows[pub.key] = None /\ pub.key \in Key /\ pub.bytes \in Bytes /\ rows' = rows
          /\ dirs[pub.key] = None /\ backend \in Backend
    BY <1>7, Keys DEF IInv, TypeOK, Publishing, PubRename, PubIs
  <2>2. PICK a \in Artifact : dirs' = [dirs EXCEPT ![pub.key] = a]
    BY <1>7, <2>1 DEF PubRename, Artifact
  <2>3. Entry' = [Entry EXCEPT ![pub.key] = Content(a)]
    BY <2>1, <2>2, EntryOf DEF IInv, TypeOK
  <2>4. Content(a) \in [bytes: Bytes, backend: Backend] /\ Entry[pub.key] = None
    BY <1>1, <2>1, Shown
  <2> QED
    BY <2>1, <2>3, <2>4 DEF CacheStep
<1>8. ASSUME PubRow PROVE CacheStep(pub.key) /\ pub.key \in Key
  <2>1. rows[pub.key] = None /\ pub.key \in Key /\ pub.bytes \in Bytes
          /\ rows' = [rows EXCEPT ![pub.key] = pub.bytes] /\ dirs' = dirs
          /\ (dirs[pub.key] # None => dirs[pub.key].digest = pub.bytes)
    BY <1>8, Keys DEF IInv, TypeOK, Publishing, PubRow, PubIs
  <2>2. Entry' = Entry /\ (Entry[pub.key] # None => Entry[pub.key].bytes = pub.bytes)
    BY <1>1, <2>1, SameEntry, Shown, Contents DEF IInv
  <2> QED
    BY <2>1, <2>2 DEF CacheStep
<1>9. ASSUME NEW k \in Key, RecoverKey(k)
      PROVE  (Entry' = Entry /\ rows' = rows) \/ CacheStep(k)
  <2>1. CASE UNCHANGED <<dirs, rows>>
    BY <2>1, SameEntry
  <2>2. CASE /\ rows[k] = None /\ dirs[k] # None /\ dirs' = dirs
             /\ rows' = [rows EXCEPT ![k] = dirs[k].digest]
    <3>1. dirs[k] \in Artifact /\ Entry' = Entry
      BY <2>2, Contents, SameEntry DEF IInv
    <3>2. Entry[k].bytes = dirs[k].digest /\ dirs[k].digest \in Bytes
      BY <1>1, <3>1, Shown DEF Artifact
    <3> QED
      BY <2>2, <3>1, <3>2 DEF CacheStep
  <2>3. CASE dirs[k] # None /\ dirs' = [dirs EXCEPT ![k] = None] /\ rows' = rows
    BY <1>2, <2>3
  <2> QED
    BY <1>9, <2>1, <2>2, <2>3 DEF RecoverKey
<1>10. ASSUME NEW k \in Key, Resume(k) \/ Compiled(k)
       PROVE  Entry' = Entry /\ rows' = rows
  BY <1>10, SameEntry DEF Resume, Compiled
<1>11. ASSUME NEW k \in Key, Damage(k) PROVE Entry' = Entry /\ rows' = rows
  <2>1. PICK a \in Artifact : /\ a.digest = dirs[k].digest /\ a.backend = dirs[k].backend
                              /\ dirs' = [dirs EXCEPT ![k] = a]
    BY <1>11, Rotting DEF IInv
  <2>2. Content(a) = Content(dirs[k])
    BY <1>11, <2>1, Contents DEF IInv, Damage, Content
  <2>3. Content(dirs'[k]) = Content(dirs[k]) /\ \A j \in Key \ {k} : dirs'[j] = dirs[j]
    BY <2>1, <2>2 DEF IInv, TypeOK
  <2>4. \A j \in Key : Content(dirs'[j]) = Content(dirs[j])
    <3>1. \A j \in Key : j = k \/ j \in Key \ {k}
      OBVIOUS
    <3> QED
      BY <2>3, <3>1 DEF Content
  <2> QED
    BY <1>11, <2>4 DEF Entry, Damage
<1>12. ASSUME Restart PROVE Entry' = Entry /\ rows' = rows
  BY <1>12, SameEntry DEF Restart, Die, Start, Serve, disk
<1> QED
  BY <1>3, <1>4, <1>5, <1>6, <1>7, <1>8, <1>9, <1>10, <1>11, <1>12
     DEF Next, Prepare, Publish

(* The store implements ArtifactCache: nothing under artifacts/ is changed *)
(* in place, and the registry describes a key once, with what is there     *)
(* (cache/store.py publish_artifact, supervisor.py _invalidate_artifact).  *)
THEOREM CacheImplemented == Spec => NeverInPlace
<1>1. Init => Cache!Init
  BY DEF Init, Cache!Init, Content
<1>2. IInv /\ [Next]_vars => [Cache!Next]_(Cache!vars)
  <2> SUFFICES ASSUME IInv, [Next]_vars PROVE [Cache!Next]_(Cache!vars)
    OBVIOUS
  <2>1. CASE (Entry' = Entry /\ rows' = rows) \/ UNCHANGED vars
    BY <2>1, SameEntry DEF Cache!vars, Entry, vars, disk
  <2>2. CASE \E k \in Key : CacheStep(k)
    <3>1. PICK k \in Key : CacheStep(k)
      BY <2>2
    <3>2. Cache!Commit(k) \/ Cache!MoveOut(k) \/ Cache!Describe(k) \/ Cache!Forget(k)
      BY <3>1 DEF CacheStep, Entry, Cache!Commit, Cache!MoveOut, Cache!Describe,
         Cache!Forget, Cache!Artifact
    <3> QED
      BY <3>2 DEF Cache!Next
  <2> QED
    BY <2>1, <2>2, StoreSteps
<1> QED
  BY <1>1, <1>2, IInvInit, IInvNext, PTL DEF Spec, NeverInPlace, Cache!Spec
==============================================================================
