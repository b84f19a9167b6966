-------------------------- MODULE Stability_proof --------------------------
(***************************************************************************)
(* Proofs about the stability diagnostic, for any number of runs.          *)
(***************************************************************************)
EXTENDS Stability, TLAPS

InPhase == {"activate", "loop", "infer", "close"}
Quiet   == {"checked", "owner", "named", "meta", "e0"}

(* What the journal of a run says whatever became of its process.          *)
Lasting(i) ==
    /\ result[i] = None => timeline[i]["RUN"] \in {"none", "STARTED"}
    /\ OpenOps(i) # {} => meta[i]
    /\ meta[i] => name[i] > 0
    /\ result[i] = "PASS" => /\ timeline[i]["H1"] = "PASS"
                             /\ timeline[i]["H2"] = "PASS"
    /\ exit[i] = "SUCCESS" => result[i] = "PASS"

(* The phases before the one at hand are completed and passed.             *)
Passed(i, rank) ==
    \A p \in {"H1", "H2", "H3"} : Rank[p] < rank => timeline[i][p] = "PASS"
NotBegun(i, rank) ==
    \A p \in {"H1", "H2", "H3"} : Rank[p] > rank => timeline[i][p] = "none"

(* Every inference so far was answered well and in time.                   *)
Clean(i) == /\ mem[i].submitted = mem[i].completed
            /\ mem[i].errors = 0 /\ mem[i].timeouts = 0

(* Where a process is, and what it has written by then.                    *)
Placed(i) ==
    /\ pc[i] = "idle" => mem[i] = Fresh
    /\ pc[i] \in Early \cup {"refused"} => name[i] = 0 /\ ~meta[i]
    /\ pc[i] \in Early \cup {"refused", "named", "meta"} =>
         /\ timeline[i] = [p \in Phases |-> "none"]
         /\ result[i] = None /\ current[i] = "none"
         /\ exit[i] # "SUCCESS"
    /\ pc[i] \in Quiet => /\ mem[i].err = "none" /\ mem[i].phase = "E0"
                          /\ mem[i].stop \in {"no", "E0"} /\ Clean(i)
    /\ pc[i] \in Journal => name[i] > 0
    /\ pc[i] \in Journal \ {"named"} => meta[i]
    /\ pc[i] \in Journal \ {"result"} => result[i] = None /\ exit[i] # "SUCCESS"
    /\ pc[i] \in Journal \ {"named", "meta"} => timeline[i]["RUN"] = "STARTED"
    /\ pc[i] = "e0" => NotBegun(i, 2) /\ current[i] = "none"
    /\ pc[i] = "gate" =>
         /\ mem[i].err = "none" /\ Clean(i)
         /\ mem[i].phase # LastPhase(mem[i].profile) /\ mem[i].phase # "H3"
         /\ Passed(i, Rank[mem[i].phase] + 1)
         /\ NotBegun(i, Rank[mem[i].phase])
         /\ Rank[current[i]] <= Rank[mem[i].phase]
         /\ mem[i].stop \in {"no", mem[i].phase}
    /\ pc[i] \in InPhase =>
         /\ mem[i].phase # "E0"
         /\ Rank[mem[i].phase] <= Rank[LastPhase(mem[i].profile)]
         /\ timeline[i][mem[i].phase] = "STARTED"
         /\ Passed(i, Rank[mem[i].phase])
         /\ NotBegun(i, Rank[mem[i].phase])
         /\ Rank[current[i]] <= Rank[mem[i].phase]
    /\ pc[i] \in {"activate", "loop", "infer"} => mem[i].err = "none"
    /\ pc[i] = "activate" => mem[i].phase = "H1"
    /\ pc[i] = "loop" => mem[i].phase # "H1"
    /\ InUse(i) => \/ mem[i].stop \in {"no", mem[i].phase}
                   \/ mem[i].stop = "E0" /\ mem[i].phase = "H1"
    /\ pc[i] \in {"activate", "loop",
                 "close"} /\ mem[i].err = "none" => Clean(i)
    /\ pc[i] = "infer" => /\ mem[i].submitted = mem[i].completed + 1
                          /\ mem[i].errors = 0 /\ mem[i].timeouts = 0
    /\ pc[i] = "finish" /\ mem[i].err = "none" =>
         /\ Clean(i) /\ Passed(i, Rank[LastPhase(mem[i].profile)] + 1)
    /\ pc[i] = "result" => result[i] = IF mem[i].err = "none" THEN "PASS"
                                                             ELSE mem[i].err
    /\ pc[i] \in {"result", "done"} /\ result[i] = "PASS" =>
         /\ Clean(i) /\ timeline[i][LastPhase(mem[i].profile)] = "PASS"

(* Two runs that are alive at once are marked as sharing the directory; a  *)
(* run that is not has the last name, and once it is gone, interrupted and *)
(* not acknowledged, no other run is alive: the latch looks at it.         *)
Sharing ==
    \A q, r \in Run : q # r /\ Alive(q) /\ Alive(r) => shared[q]
Newest ==
    ~ClockSteps => \A r \in Run : Alive(r) /\ ~shared[r] /\ name[r] > 0
                     => \A q \in Run : name[q] <= name[r]
Pending(r) == /\ pc[r] \in {"dead", "ended"} /\ Interrupted(r)
              /\ ~ack[r] /\ ~shared[r]
Alone ==
    ~ClockSteps => \A r \in Run : Pending(r) =>
        \A q \in Run : ~Alive(q) /\ name[q] <= name[r]

IInv == /\ TypeOK
        /\ \A i \in Run : Lasting(i) /\ Placed(i)
        /\ Sharing /\ Newest /\ Alone

USE StabilityAssumption DEF Goto

(* All processes but i, and their journals, are left alone.                *)
Others(i) ==
    \A j \in Run \ {i} :
        /\ pc'[j] = pc[j] /\ mem'[j] = mem[j] /\ exit'[j] = exit[j]
        /\ name'[j] = name[j] /\ meta'[j] = meta[j]
        /\ timeline'[j] = timeline[j] /\ current'[j] = current[j]
        /\ result'[j] = result[j]

(* A run that is left alone keeps what is true of it.                      *)
LEMMA OthersKeep ==
    ASSUME NEW i \in Run, Others(i), NEW j \in Run \ {i},
           Lasting(j), Placed(j)
    PROVE  Lasting(j)' /\ Placed(j)'
BY DEF Others, Lasting, Placed, OpenOps, Passed, NotBegun, Clean, InUse

(* The last phase of a profile is H2 or H3; the ranks of the phases.       *)
LEMMA Ranks ==
    /\ Rank["none"] = 0 /\ Rank["RUN"] = 1 /\ Rank["E0"] = 2
    /\ Rank["H1"] = 3 /\ Rank["H2"] = 4 /\ Rank["H3"] = 5
    /\ \A p \in Profiles : LastPhase(p) \in {"H2", "H3"}
    /\ After["E0"] = "H1" /\ After["H1"] = "H2" /\ After["H2"] = "H3"
    /\ \A p \in Stages : After[p] \in {"H1", "H2", "H3"}
BY DEF Rank, LastPhase, Profiles, After, Stages

(* An open step with the highest rank is the one the report shows.         *)
LEMMA PositionIs ==
    ASSUME NEW r \in Run, NEW p \in Phases, timeline[r][p] = "STARTED",
           \A q \in OpenOps(r) : q # p => Rank[q] < Rank[p]
    PROVE  Position(r) = p
<1>1. p \in OpenOps(r) /\ Rank[p] \in Nat
  BY Ranks DEF OpenOps, Phases
<1>2. \A q \in OpenOps(r) : Rank[q] \in Nat /\ Rank[q] <= Rank[p]
  BY <1>1, Ranks DEF OpenOps, Phases
<1>3. \A q \in OpenOps(r) :
        (\A s \in OpenOps(r) : Rank[s] <= Rank[q]) => q = p
  BY <1>1, <1>2
<1> QED
  BY <1>1, <1>2, <1>3 DEF Position

(* The fields of a process's memory.                                       *)
Fields(m) ==
    /\ m.phase \in Stages /\ m.err \in Errors /\ m.profile \in Profiles
    /\ m.stop \in Stages \cup {"no"} /\ m.left \in 0..MaxInfers
    /\ m.submitted \in Nat /\ m.completed \in Nat
    /\ m.errors \in Nat /\ m.timeouts \in Nat

(* A write to the memory of one process.                                   *)
LEMMA MemoryWrite ==
    ASSUME mem \in [Run -> Memory], NEW i \in Run, NEW m \in Memory,
           mem' = [mem EXCEPT ![i] = m]
    PROVE  mem' \in [Run -> Memory] /\ mem'[i] = m
OBVIOUS

(* TakeLock keeps the types, and the other runs.                           *)
LEMMA TakeLockTyped ==
    ASSUME TypeOK, NEW i \in Run, TakeLock(i)
    PROVE  TypeOK' /\ Others(i)
<1>1. mem \in [Run -> Memory] /\ Fields(mem[i])
  BY DEF TypeOK, Memory, Fields
<1>2. mem' \in [Run -> Memory] /\ \A j \in Run \ {i} : mem'[j] = mem[j]
  BY <1>1 DEF TakeLock, Fields, Memory, Stages, Errors, Phases, Profiles,
     process, journal, review, host
<1>3. CASE lock = None /\ Goto(i, "owner") /\ lock' = i /\ UNCHANGED exit
  BY <1>1, <1>2, <1>3 DEF TypeOK, Others, TakeLock, Early, journal, review
<1>4. CASE /\ Goto(i, "refused") /\ UNCHANGED lock
           /\ exit' = [exit EXCEPT ![i] = "OWNERSHIP_CONFLICT"]
  BY <1>1, <1>2, <1>4 DEF TypeOK, Others, TakeLock, Gone, Exits, journal, review
<1> QED  BY <1>3, <1>4 DEF TakeLock

(* NameRun keeps the types, and the other runs.                            *)
LEMMA NameRunTyped ==
    ASSUME TypeOK, NEW i \in Run, NameRun(i)
    PROVE  TypeOK' /\ Others(i)
<1>1. mem \in [Run -> Memory] /\ Fields(mem[i])
  BY DEF TypeOK, Memory, Fields
<1>2. mem' \in [Run -> Memory] /\ \A j \in Run \ {i} : mem'[j] = mem[j]
  BY <1>1 DEF NameRun, Fields, Memory, Stages, Errors, Phases, Profiles,
     process, journal, review, host
<1> QED
  BY <1>1, <1>2, Ranks DEF TypeOK, Others, NameRun, Fields, Early, Journal,
     Leaving, Gone, Stages,
     Errors, Phases, Profiles, Exits, process, journal, review, host

(* WriteMetadata keeps the types, and the other runs.                      *)
LEMMA WriteMetadataTyped ==
    ASSUME TypeOK, NEW i \in Run, WriteMetadata(i)
    PROVE  TypeOK' /\ Others(i)
<1>1. mem \in [Run -> Memory] /\ Fields(mem[i])
  BY DEF TypeOK, Memory, Fields
<1>2. mem' \in [Run -> Memory] /\ \A j \in Run \ {i} : mem'[j] = mem[j]
  BY <1>1 DEF WriteMetadata, Fields, Memory, Stages, Errors, Phases, Profiles,
     process, journal, review, host
<1> QED
  BY <1>1, <1>2, Ranks DEF TypeOK, Others, WriteMetadata, Fields, Early,
     Journal, Leaving, Gone, Stages,
     Errors, Phases, Profiles, Exits, process, journal, review, host

(* StartRun keeps the types, and the other runs.                           *)
LEMMA StartRunTyped ==
    ASSUME TypeOK, NEW i \in Run, StartRun(i)
    PROVE  TypeOK' /\ Others(i)
<1>1. mem \in [Run -> Memory] /\ Fields(mem[i])
  BY DEF TypeOK, Memory, Fields
<1>2. mem' \in [Run -> Memory] /\ \A j \in Run \ {i} : mem'[j] = mem[j]
  BY <1>1 DEF StartRun, Fields, Memory, Stages, Errors, Phases, Profiles,
     process, journal, review, host
<1> QED
  BY <1>1, <1>2, Ranks DEF TypeOK, Others, StartRun, Fields, Early, Journal,
     Leaving, Gone, Stages,
     Errors, Phases, Profiles, Exits, process, journal, review, host

(* PhaseE0 keeps the types, and the other runs.                            *)
LEMMA PhaseE0Typed ==
    ASSUME TypeOK, NEW i \in Run, PhaseE0(i)
    PROVE  TypeOK' /\ Others(i)
<1>1. mem \in [Run -> Memory] /\ Fields(mem[i])
  BY DEF TypeOK, Memory, Fields
<1>2. mem' \in [Run -> Memory] /\ \A j \in Run \ {i} : mem'[j] = mem[j]
  <2>1. \A e \in Errors : [mem[i] EXCEPT !.err = e] \in Memory
    BY <1>1 DEF Fields, Memory
  <2>2. mem' = mem \/ \E e \in Errors : mem' = [mem EXCEPT ![i] = [mem[i] EXCEPT !.err = e]]
    BY DEF PhaseE0, Errors
  <2> QED  BY <1>1, <2>1, <2>2
<1>3. /\ pc' \in [Run -> Early \cup Journal \cup Leaving \cup Gone]
      /\ \A j \in Run \ {i} : pc'[j] = pc[j]
  BY DEF TypeOK, PhaseE0, Journal
<1> QED
  BY <1>2, <1>3 DEF TypeOK, Others, PhaseE0, Stages, review, host

(* Begin keeps the types, and the other runs.                              *)
LEMMA BeginTyped ==
    ASSUME TypeOK, NEW i \in Run, Begin(i)
    PROVE  TypeOK' /\ Others(i)
<1>1. mem \in [Run -> Memory] /\ Fields(mem[i])
  BY DEF TypeOK, Memory, Fields
<1>2. mem' \in [Run -> Memory] /\ \A j \in Run \ {i} : mem'[j] = mem[j]
  <2> DEFINE p == After[mem[i].phase]
             n == IF p = "H1" THEN 0 ELSE MaxInfers
  <2>1. p \in Stages /\ n \in 0..MaxInfers
    BY <1>1, Ranks DEF Fields, Stages
  <2>2. \A m \in Memory, q \in Stages, k \in 0..MaxInfers :
          [m EXCEPT !.phase = q, !.left = k] \in Memory
    BY DEF Memory
  <2>3. mem' = [mem EXCEPT ![i] = [mem[i] EXCEPT !.phase = p, !.left = n]]
    BY <1>1 DEF Begin
  <2> HIDE DEF p, n
  <2> QED  BY <1>1, <2>1, <2>2, <2>3
<1> QED
  BY <1>1, <1>2, Ranks DEF TypeOK, Others, Begin, Fields, Early, Journal,
     Leaving, Gone, Stages,
     Errors, Phases, Profiles, Exits, process, journal, review, host

(* Activated keeps the types, and the other runs.                          *)
LEMMA ActivatedTyped ==
    ASSUME TypeOK, NEW i \in Run, Activated(i)
    PROVE  TypeOK' /\ Others(i)
<1>1. mem \in [Run -> Memory] /\ Fields(mem[i])
  BY DEF TypeOK, Memory, Fields
<1>2. mem' \in [Run -> Memory] /\ \A j \in Run \ {i} : mem'[j] = mem[j]
  <2>1. /\ [mem[i] EXCEPT !.submitted = @ + 1] \in Memory
        /\ [mem[i] EXCEPT !.err = "ACTIVATION_FAILED"] \in Memory
    BY <1>1 DEF Fields, Memory, Errors
  <2>2. \/ mem' = [mem EXCEPT ![i] = [mem[i] EXCEPT !.submitted = @ + 1]]
        \/ mem' = [mem EXCEPT ![i] = [mem[i] EXCEPT !.err = "ACTIVATION_FAILED"]]
    BY DEF Activated
  <2> QED  BY <1>1, <2>1, <2>2
<1>3. /\ pc' \in [Run -> Early \cup Journal \cup Leaving \cup Gone]
      /\ current' \in [Run -> Stages \cup {"none"}]
      /\ inhibited' \in BOOLEAN
      /\ \A j \in Run \ {i} : pc'[j] = pc[j] /\ current'[j] = current[j]
  BY DEF TypeOK, Activated, Journal, Stages, MayInhibit
<1> QED
  BY <1>2, <1>3 DEF TypeOK, Others, Activated, review

(* InferOnce keeps the types, and the other runs.                          *)
LEMMA InferOnceTyped ==
    ASSUME TypeOK, NEW i \in Run, InferOnce(i)
    PROVE  TypeOK' /\ Others(i)
<1>1. mem \in [Run -> Memory] /\ Fields(mem[i])
  BY DEF TypeOK, Memory, Fields
<1>2. mem' \in [Run -> Memory] /\ \A j \in Run \ {i} : mem'[j] = mem[j]
  BY <1>1 DEF InferOnce, Fields, Memory, Stages, Errors, Phases, Profiles,
     process, journal, review, host
<1> QED
  BY <1>1, <1>2, Ranks DEF TypeOK, Others, InferOnce, Fields, Early, Journal,
     Leaving, Gone, Stages,
     Errors, Phases, Profiles, Exits, process, journal, review, host

(* LoopEnds keeps the types, and the other runs.                           *)
LEMMA LoopEndsTyped ==
    ASSUME TypeOK, NEW i \in Run, LoopEnds(i)
    PROVE  TypeOK' /\ Others(i)
<1>1. mem \in [Run -> Memory] /\ Fields(mem[i])
  BY DEF TypeOK, Memory, Fields
<1>2. mem' \in [Run -> Memory] /\ \A j \in Run \ {i} : mem'[j] = mem[j]
  <2>1. \A e \in Errors : [mem[i] EXCEPT !.err = e] \in Memory
    BY <1>1 DEF Fields, Memory
  <2>2. mem' = mem \/ \E e \in Errors : mem' = [mem EXCEPT ![i] = [mem[i] EXCEPT !.err = e]]
    BY DEF LoopEnds, Errors
  <2> QED  BY <1>1, <2>1, <2>2
<1> QED
  BY <1>1, <1>2, Ranks DEF TypeOK, Others, LoopEnds, Fields, Early, Journal,
     Leaving, Gone, Stages,
     Errors, Phases, Profiles, Exits, process, journal, review, host

(* Answered keeps the types, and the other runs.                           *)
LEMMA AnsweredTyped ==
    ASSUME TypeOK, NEW i \in Run, Answered(i)
    PROVE  TypeOK' /\ Others(i)
<1>1. mem \in [Run -> Memory] /\ Fields(mem[i])
  BY DEF TypeOK, Memory, Fields
<1>2. mem' \in [Run -> Memory] /\ \A j \in Run \ {i} : mem'[j] = mem[j]
  <2>1. \A m \in Memory, k \in Nat : [m EXCEPT !.completed = k] \in Memory
    BY DEF Memory
  <2>3. \A m \in Memory, n \in Nat, e \in Errors :
          [m EXCEPT !.timeouts = n, !.err = e] \in Memory
    BY DEF Memory
  <2>6. \A m \in Memory, k, n \in Nat, e \in Errors :
          [m EXCEPT !.completed = k, !.timeouts = n, !.err = e] \in Memory
    BY DEF Memory
  <2>7. \A m \in Memory, n \in Nat, e \in Errors :
          [m EXCEPT !.errors = n, !.err = e] \in Memory
    BY DEF Memory
  <2>4. /\ mem[i].completed + 1 \in Nat /\ mem[i].timeouts + 1 \in Nat
        /\ mem[i].errors + 1 \in Nat
        /\ "TIMEOUT" \in Errors /\ "WORKER_FAILED" \in Errors
    BY <1>1 DEF Fields, Errors
  <2>5. /\ [mem[i] EXCEPT !.completed = @ + 1] \in Memory
        /\ [mem[i] EXCEPT !.completed = @ + 1, !.timeouts = @ + 1,
                          !.err = "TIMEOUT"] \in Memory
        /\ [mem[i] EXCEPT !.timeouts = @ + 1, !.err = "TIMEOUT"] \in Memory
        /\ [mem[i] EXCEPT !.errors = @ + 1, !.err = "WORKER_FAILED"] \in Memory
    BY <1>1, <2>1, <2>3, <2>4, <2>6, <2>7
  <2>2. \E m \in {[mem[i] EXCEPT !.completed = @ + 1],
                  [mem[i] EXCEPT !.completed = @ + 1, !.timeouts = @ + 1,
                                 !.err = "TIMEOUT"],
                  [mem[i] EXCEPT !.timeouts = @ + 1, !.err = "TIMEOUT"],
                  [mem[i] EXCEPT !.errors = @ + 1, !.err = "WORKER_FAILED"]} :
          mem' = [mem EXCEPT ![i] = m]
    BY DEF Answered
  <2> QED  BY <1>1, <2>2, <2>5
<1>3. /\ pc' \in [Run -> Early \cup Journal \cup Leaving \cup Gone]
      /\ current' \in [Run -> Stages \cup {"none"}]
      /\ \A j \in Run \ {i} : pc'[j] = pc[j] /\ current'[j] = current[j]
  <2>1. pc' = [pc EXCEPT ![i] = "close"] \/ pc' = [pc EXCEPT ![i] = "loop"]
    BY DEF Answered, Goto
  <2>2. current' = current \/ current' = [current EXCEPT ![i] = "H3"]
    BY DEF Answered
  <2> QED  BY <2>1, <2>2 DEF TypeOK, Journal, Stages
<1>4. inhibited' \in BOOLEAN
  BY DEF TypeOK, Answered, MayInhibit
<1>5. UNCHANGED <<exit, name, meta, timeline, result, ack, shared, lock>>
  BY DEF Answered, review
<1> QED
  BY <1>2, <1>3, <1>4, <1>5 DEF TypeOK, Others

(* Close keeps the types, and the other runs.                              *)
LEMMA CloseTyped ==
    ASSUME TypeOK, NEW i \in Run, Close(i)
    PROVE  TypeOK' /\ Others(i)
<1>1. mem \in [Run -> Memory] /\ Fields(mem[i])
  BY DEF TypeOK, Memory, Fields
<1>2. mem' \in [Run -> Memory] /\ \A j \in Run \ {i} : mem'[j] = mem[j]
  BY <1>1 DEF Close, Fields, Memory, Stages, Errors, Phases, Profiles,
     process, journal, review, host
<1>3. /\ pc' \in [Run -> Early \cup Journal \cup Leaving \cup Gone]
      /\ timeline' \in [Run -> [Phases -> {"none", "STARTED", "PASS", "FAIL"}]]
      /\ current' \in [Run -> Stages \cup {"none"}]
      /\ \A j \in Run \ {i} : /\ pc'[j] = pc[j] /\ current'[j] = current[j]
                              /\ timeline'[j] = timeline[j]
  BY <1>1 DEF TypeOK, Close, Fields, Journal, Stages, Phases
<1>4. UNCHANGED <<exit, name, meta, result, ack, shared, lock, inhibited>>
  BY DEF Close, review, host
<1> QED
  BY <1>2, <1>3, <1>4 DEF TypeOK, Others

(* Finish keeps the types, and the other runs.                             *)
LEMMA FinishTyped ==
    ASSUME TypeOK, NEW i \in Run, Finish(i)
    PROVE  TypeOK' /\ Others(i)
<1>1. mem \in [Run -> Memory] /\ Fields(mem[i])
  BY DEF TypeOK, Memory, Fields
<1>2. mem' \in [Run -> Memory] /\ \A j \in Run \ {i} : mem'[j] = mem[j]
  BY <1>1 DEF Finish, Fields, Memory, Stages, Errors, Phases, Profiles,
     process, journal, review, host
<1> QED
  BY <1>1, <1>2, Ranks DEF TypeOK, Others, Finish, Fields, Early, Journal,
     Leaving, Gone, Stages,
     Errors, Phases, Profiles, Exits, process, journal, review, host

(* CompleteRun keeps the types, and the other runs.                        *)
LEMMA CompleteRunTyped ==
    ASSUME TypeOK, NEW i \in Run, CompleteRun(i)
    PROVE  TypeOK' /\ Others(i)
<1>1. mem \in [Run -> Memory] /\ Fields(mem[i])
  BY DEF TypeOK, Memory, Fields
<1>2. mem' \in [Run -> Memory] /\ \A j \in Run \ {i} : mem'[j] = mem[j]
  BY <1>1 DEF CompleteRun, Fields, Memory, Stages, Errors, Phases, Profiles,
     process, journal, review, host, ExitFor
<1> QED
  BY <1>1, <1>2, Ranks DEF TypeOK, Others, CompleteRun, Fields, Early,
     Journal, Leaving, Gone, Stages,
     Errors, Phases, Profiles, Exits, process, journal, review, host, ExitFor

(* Raise keeps the types, and the other runs.                              *)
LEMMA RaiseTyped ==
    ASSUME TypeOK, NEW i \in Run, Raise(i)
    PROVE  TypeOK' /\ Others(i)
<1>1. mem \in [Run -> Memory] /\ Fields(mem[i])
  BY DEF TypeOK, Memory, Fields
<1>2. PICK p \in Stages : mem' = [mem EXCEPT ![i] = [Fresh EXCEPT !.phase = p]]
  <2>1. mem[i].phase \in Stages /\ After[mem[i].phase] \in Stages
    BY <1>1 DEF Fields, Stages, After
  <2> QED
    BY <2>1 DEF Raise
<1>3. [Fresh EXCEPT !.phase = p] \in Memory
  BY DEF Fresh, Memory, Stages, Errors, Profiles
<1>4. mem' \in [Run -> Memory] /\ \A j \in Run \ {i} : mem'[j] = mem[j]
  BY <1>1, <1>2, <1>3
<1> QED
  BY <1>1, <1>4, Ranks DEF TypeOK, Others, Raise, Fields, Early, Journal,
     Leaving, Gone, Stages,
     Errors, Phases, Profiles, Exits, process, journal, review, host, Fresh

(* LastCheckpoint keeps the types, and the other runs.                     *)
LEMMA LastCheckpointTyped ==
    ASSUME TypeOK, NEW i \in Run, LastCheckpoint(i)
    PROVE  TypeOK' /\ Others(i)
<1>1. mem \in [Run -> Memory] /\ Fields(mem[i])
  BY DEF TypeOK, Memory, Fields
<1>2. mem' \in [Run -> Memory] /\ \A j \in Run \ {i} : mem'[j] = mem[j]
  BY <1>1 DEF LastCheckpoint, Fields, Memory, Stages, Errors, Phases,
     Profiles, process, journal, review, host, Fresh
<1>3. /\ pc' \in [Run -> Early \cup Journal \cup Leaving \cup Gone]
      /\ current' \in [Run -> Stages \cup {"none"}]
      /\ \A j \in Run \ {i} : pc'[j] = pc[j] /\ current'[j] = current[j]
  BY <1>1 DEF TypeOK, LastCheckpoint, Goto, Fields, Leaving
<1>4. UNCHANGED <<exit, name, meta, timeline, result, ack, shared, lock, inhibited>>
  BY DEF LastCheckpoint, review, host
<1> QED
  BY <1>2, <1>3, <1>4 DEF TypeOK, Others

(* Stop keeps the types, and the other runs.                               *)
LEMMA StopTyped ==
    ASSUME TypeOK, NEW i \in Run, Stop(i)
    PROVE  TypeOK' /\ Others(i)
<1>1. mem \in [Run -> Memory] /\ Fields(mem[i])
  BY DEF TypeOK, Memory, Fields
<1>2. mem' \in [Run -> Memory] /\ \A j \in Run \ {i} : mem'[j] = mem[j]
  BY <1>1 DEF Stop, Fields, Memory, Stages, Errors, Phases, Profiles, process,
     journal, review, host, Release
<1> QED
  BY <1>1, <1>2, Ranks DEF TypeOK, Others, Stop, Fields, Early, Journal,
     Leaving, Gone, Stages,
     Errors, Phases, Profiles, Exits, process, journal, review, host, Release

(* Signal keeps the types, and the other runs.                             *)
LEMMA SignalTyped ==
    ASSUME TypeOK, NEW i \in Run, Signal(i)
    PROVE  TypeOK' /\ Others(i)
<1>1. mem \in [Run -> Memory] /\ Fields(mem[i])
  BY DEF TypeOK, Memory, Fields
<1>2. mem' \in [Run -> Memory] /\ \A j \in Run \ {i} : mem'[j] = mem[j]
  BY <1>1 DEF Signal, Fields, Memory, Stages, Errors, Phases, Profiles,
     process, journal, review, host
<1> QED
  BY <1>1, <1>2, Ranks DEF TypeOK, Others, Signal, Fields, Early, Journal,
     Leaving, Gone, Stages,
     Errors, Phases, Profiles, Exits, process, journal, review, host

(* Kill keeps the types, and the other runs.                               *)
LEMMA KillTyped ==
    ASSUME TypeOK, NEW i \in Run, Kill(i)
    PROVE  TypeOK' /\ Others(i)
<1>1. mem \in [Run -> Memory] /\ Fields(mem[i])
  BY DEF TypeOK, Memory, Fields
<1>2. mem' \in [Run -> Memory] /\ \A j \in Run \ {i} : mem'[j] = mem[j]
  BY <1>1 DEF Kill, Fields, Memory, Stages, Errors, Phases, Profiles, process,
     journal, review, host, Release, Fresh
<1> QED
  BY <1>1, <1>2, Ranks DEF TypeOK, Others, Kill, Fields, Early, Journal,
     Leaving, Gone, Stages,
     Errors, Phases, Profiles, Exits, process, journal, review, host, Release,
     Fresh

(* Acknowledge keeps the types, and the other runs.                        *)
LEMMA AcknowledgeTyped ==
    ASSUME TypeOK, NEW i \in Run, Acknowledge(i)
    PROVE  TypeOK' /\ Others(i)
<1>1. mem \in [Run -> Memory] /\ Fields(mem[i])
  BY DEF TypeOK, Memory, Fields
<1>2. mem' \in [Run -> Memory] /\ \A j \in Run \ {i} : mem'[j] = mem[j]
  BY <1>1 DEF Acknowledge, Fields, Memory, Stages, Errors, Phases, Profiles,
     process, journal, review, host, Alive
<1> QED
  BY <1>1, <1>2, Ranks DEF TypeOK, Others, Acknowledge, Fields, Early,
     Journal, Leaving, Gone, Stages,
     Errors, Phases, Profiles, Exits, process, journal, review, host, Alive

(* Invoke keeps the types, and the other runs.                             *)
LEMMA InvokeTyped ==
    ASSUME TypeOK, NEW i \in Run, Invoke(i)
    PROVE  TypeOK' /\ Others(i)
<1>1. mem \in [Run -> Memory] /\ Fields(mem[i])
  BY DEF TypeOK, Memory, Fields
<1>2. mem' \in [Run -> Memory] /\ \A j \in Run \ {i} : mem'[j] = mem[j]
  <2>1. \A p \in Profiles : [mem[i] EXCEPT !.profile = p] \in Memory
    BY <1>1 DEF Fields, Memory
  <2>2. mem' = mem \/ \E p \in Profiles : mem' = [mem EXCEPT ![i] = [mem[i] EXCEPT !.profile = p]]
    BY DEF Invoke
  <2> QED  BY <1>1, <2>1, <2>2
<1>3. /\ pc' \in [Run -> Early \cup Journal \cup Leaving \cup Gone]
      /\ exit' \in [Run -> Exits \cup {None}]
      /\ \A j \in Run \ {i} : pc'[j] = pc[j] /\ exit'[j] = exit[j]
  <2>1. \/ pc' = [pc EXCEPT ![i] = "checked"] /\ exit' = exit
        \/ /\ pc' = [pc EXCEPT ![i] = "refused"]
           /\ exit' = [exit EXCEPT ![i] = "DEVICE_UNAVAILABLE"]
    BY DEF Invoke, Goto
  <2> QED  BY <2>1 DEF TypeOK, Early, Gone, Exits
<1>4. shared' \in [Run -> BOOLEAN]
  <2>1. CASE shared' = shared
    BY <2>1 DEF TypeOK
  <2>2. CASE shared' = [r \in Run |-> shared[r] \/
                          IF r = i THEN \E q \in Run : Alive(q) ELSE Alive(r)]
    BY <2>2
  <2> QED  BY <2>1, <2>2 DEF Invoke
<1>5. UNCHANGED <<name, meta, timeline, current, result, ack, lock, inhibited>>
  BY DEF Invoke, journal, host
<1> QED
  BY <1>2, <1>3, <1>4, <1>5 DEF TypeOK, Others

(* TakeLock leaves its run where the invariant says.                       *)
LEMMA TakeLockPlaced ==
    ASSUME TypeOK, NEW i \in Run, Lasting(i), Placed(i), TakeLock(i), TypeOK'
    PROVE  Lasting(i)' /\ Placed(i)'
<1>1. mem[i] \in Memory /\ mem \in [Run -> Memory] /\ mem'[i] \in Memory
  BY DEF TypeOK
<1>2. Lasting(i)'
  BY <1>1, Ranks DEF TypeOK, Lasting, Placed, TakeLock, OpenOps, Clean,
     Passed, NotBegun,
     Early, Journal, InPhase, Leaving, Gone, Quiet, Phases, process, journal,
     review, host
<1>3. Placed(i)'
  BY <1>1, Ranks DEF TypeOK, Lasting, Placed, TakeLock, Clean, Passed,
     NotBegun, InUse,
     Early, Journal, InPhase, Leaving, Gone, Quiet, Phases, Memory, Stages,
     Profiles,
     process, journal, review, host
<1> QED  BY <1>2, <1>3

(* NameRun leaves its run where the invariant says.                        *)
LEMMA NameRunPlaced ==
    ASSUME TypeOK, NEW i \in Run, Lasting(i), Placed(i), NameRun(i), TypeOK'
    PROVE  Lasting(i)' /\ Placed(i)'
<1>1. mem[i] \in Memory /\ mem \in [Run -> Memory] /\ mem'[i] \in Memory
  BY DEF TypeOK
<1>2. Lasting(i)'
  BY <1>1, Ranks DEF TypeOK, Lasting, Placed, NameRun, OpenOps, Clean, Passed,
     NotBegun,
     Early, Journal, InPhase, Leaving, Gone, Quiet, Phases, process, journal,
     review, host
<1>3. Placed(i)'
  BY <1>1, Ranks DEF TypeOK, Lasting, Placed, NameRun, Clean, Passed,
     NotBegun, InUse,
     Early, Journal, InPhase, Leaving, Gone, Quiet, Phases, Memory, Stages,
     Profiles,
     process, journal, review, host
<1> QED  BY <1>2, <1>3

(* WriteMetadata leaves its run where the invariant says.                  *)
LEMMA WriteMetadataPlaced ==
    ASSUME TypeOK, NEW i \in Run, Lasting(i), Placed(i), WriteMetadata(i),
    TypeOK'
    PROVE  Lasting(i)' /\ Placed(i)'
<1>1. mem[i] \in Memory /\ mem \in [Run -> Memory] /\ mem'[i] \in Memory
  BY DEF TypeOK
<1>2. Lasting(i)'
  BY <1>1, Ranks DEF TypeOK, Lasting, Placed, WriteMetadata, OpenOps, Clean,
     Passed, NotBegun,
     Early, Journal, InPhase, Leaving, Gone, Quiet, Phases, process, journal,
     review, host
<1>3. Placed(i)'
  BY <1>1, Ranks DEF TypeOK, Lasting, Placed, WriteMetadata, Clean, Passed,
     NotBegun, InUse,
     Early, Journal, InPhase, Leaving, Gone, Quiet, Phases, Memory, Stages,
     Profiles,
     process, journal, review, host
<1> QED  BY <1>2, <1>3

(* StartRun leaves its run where the invariant says.                       *)
LEMMA StartRunPlaced ==
    ASSUME TypeOK, NEW i \in Run, Lasting(i), Placed(i), StartRun(i), TypeOK'
    PROVE  Lasting(i)' /\ Placed(i)'
<1>1. mem[i] \in Memory /\ mem \in [Run -> Memory] /\ mem'[i] \in Memory
  BY DEF TypeOK
<1>2. Lasting(i)'
  BY <1>1, Ranks DEF TypeOK, Lasting, Placed, StartRun, OpenOps, Clean,
     Passed, NotBegun,
     Early, Journal, InPhase, Leaving, Gone, Quiet, Phases, process, journal,
     review, host
<1>3. Placed(i)'
  BY <1>1, Ranks DEF TypeOK, Lasting, Placed, StartRun, Clean, Passed,
     NotBegun, InUse,
     Early, Journal, InPhase, Leaving, Gone, Quiet, Phases, Memory, Stages,
     Profiles,
     process, journal, review, host
<1> QED  BY <1>2, <1>3

(* PhaseE0 leaves its run where the invariant says.                        *)
LEMMA PhaseE0Placed ==
    ASSUME TypeOK, NEW i \in Run, Lasting(i), Placed(i), PhaseE0(i), TypeOK'
    PROVE  Lasting(i)' /\ Placed(i)'
<1>1. mem[i] \in Memory /\ mem \in [Run -> Memory] /\ mem'[i] \in Memory
  BY DEF TypeOK
<1>2. Lasting(i)'
  BY <1>1, Ranks DEF TypeOK, Lasting, Placed, PhaseE0, OpenOps, Clean, Passed,
     NotBegun,
     Early, Journal, InPhase, Leaving, Gone, Quiet, Phases, process, journal,
     review, host
<1>3. Placed(i)'
  BY <1>1, Ranks DEF TypeOK, Lasting, Placed, PhaseE0, Clean, Passed,
     NotBegun, InUse,
     Early, Journal, InPhase, Leaving, Gone, Quiet, Phases, Memory, Stages,
     Profiles,
     process, journal, review, host
<1> QED  BY <1>2, <1>3

(* Begin leaves its run where the invariant says.                          *)
LEMMA BeginPlaced ==
    ASSUME TypeOK, NEW i \in Run, Lasting(i), Placed(i), Begin(i), TypeOK'
    PROVE  Lasting(i)' /\ Placed(i)'
<1>0. PICK p : p = After[mem[i].phase]
  OBVIOUS
<1>1. mem[i] \in Memory /\ mem \in [Run -> Memory] /\ mem'[i] \in Memory
  BY DEF TypeOK
<1>2. /\ p \in {"H1", "H2", "H3"} /\ Rank[p] = Rank[mem[i].phase] + 1
      /\ mem[i].phase \in {"E0", "H1", "H2"} /\ mem[i].profile \in Profiles
      /\ Rank[p] <= Rank[LastPhase(mem[i].profile)]
      /\ p = "H1" <=> mem[i].phase = "E0"
  BY <1>0, <1>1, Ranks DEF Begin, Placed, Memory, Stages, Profiles
<1>3. /\ timeline' = [timeline EXCEPT ![i][p] = "STARTED"]
      /\ timeline'[i] = [timeline[i] EXCEPT ![p] = "STARTED"]
      /\ timeline[i] \in [Phases -> {"none", "STARTED", "PASS", "FAIL"}]
  BY <1>0 DEF Begin, TypeOK
<1>4. /\ mem'[i].phase = p /\ mem'[i].err = mem[i].err
      /\ mem'[i].stop = mem[i].stop /\ mem'[i].profile = mem[i].profile
      /\ mem'[i].submitted = mem[i].submitted
      /\ mem'[i].completed = mem[i].completed
      /\ mem'[i].errors = mem[i].errors /\ mem'[i].timeouts = mem[i].timeouts
  <2> DEFINE n == IF p = "H1" THEN 0 ELSE MaxInfers
  <2>1. mem' = [mem EXCEPT ![i] = [mem[i] EXCEPT !.phase = p, !.left = n]]
    BY <1>0 DEF Begin
  <2> HIDE DEF n
  <2> QED  BY <1>1, <2>1 DEF Memory
<1>5. pc' = [pc EXCEPT ![i] = IF p = "H1" THEN "activate" ELSE "loop"]
  BY <1>0 DEF Begin
<1>6. UNCHANGED <<name, meta, current, result, exit>>
  BY DEF Begin
<1>7. pc[i] = "gate" /\ pc \in [Run -> Early \cup Journal \cup Leaving \cup Gone]
  BY DEF Begin, TypeOK
<1>8. Lasting(i)'
  BY <1>2, <1>3, <1>6, <1>7 DEF Lasting, Placed, OpenOps, Phases, Journal
<1>9. Passed(i, Rank[p])' /\ NotBegun(i, Rank[p])'
  BY <1>2, <1>3, <1>7, Ranks DEF Placed, Passed, NotBegun, Phases, Journal
<1>10. \/ p = "H1" /\ mem'[i].stop \in {"no", "E0"}
       \/ p # "H1" /\ mem'[i].stop \in {"no", mem[i].phase}
  BY <1>2, <1>4, <1>7 DEF Placed
<1>11. Rank[current'[i]] <= Rank[p]
  <2>1. current[i] \in {"none", "E0", "H1", "H2", "H3"}
    BY DEF TypeOK, Stages
  <2>2. Rank[current[i]] \in Nat /\ Rank[mem[i].phase] \in Nat
    BY <1>2, <2>1, Ranks
  <2>3. Rank[current[i]] <= Rank[mem[i].phase]
    BY <1>7 DEF Placed
  <2> QED  BY <1>2, <1>6, <2>2, <2>3
<1> QED
  BY <1>11, <1>2, <1>3, <1>4, <1>5, <1>6, <1>7, <1>8, <1>9, <1>10, Ranks
  DEF Placed, Early, Journal, InPhase, Quiet, InUse, Clean, Phases

(* Activated leaves its run where the invariant says.                      *)
LEMMA ActivatedPlaced ==
    ASSUME TypeOK, NEW i \in Run, Lasting(i), Placed(i), Activated(i), TypeOK'
    PROVE  Lasting(i)' /\ Placed(i)'
<1>1. mem[i] \in Memory /\ mem \in [Run -> Memory] /\ pc[i] = "activate"
  BY DEF TypeOK, Activated
<1>2. UNCHANGED <<name, meta, timeline, result, exit>>
  BY DEF Activated
<1>3. Lasting(i)'
  BY <1>2 DEF Lasting, OpenOps
<1>4. CASE /\ current' = [current EXCEPT ![i] = "H1"]
           /\ mem' = [mem EXCEPT ![i].submitted = @ + 1]
           /\ Goto(i, "infer")
  BY <1>1, <1>2, <1>3, <1>4, Ranks DEF TypeOK, Placed, Clean, Passed,
     NotBegun, InUse,
     Early, Journal, InPhase, Quiet, Memory
<1>5. CASE /\ mem' = [mem EXCEPT ![i].err = "ACTIVATION_FAILED"]
           /\ Goto(i, "close")
           /\ UNCHANGED current
  BY <1>1, <1>2, <1>3, <1>5, Ranks DEF TypeOK, Placed, Clean, Passed,
     NotBegun, InUse,
     Early, Journal, InPhase, Quiet, Memory
<1> QED
  BY <1>3, <1>4, <1>5 DEF Activated

(* InferOnce leaves its run where the invariant says.                      *)
LEMMA InferOncePlaced ==
    ASSUME TypeOK, NEW i \in Run, Lasting(i), Placed(i), InferOnce(i), TypeOK'
    PROVE  Lasting(i)' /\ Placed(i)'
<1>1. mem[i] \in Memory /\ mem \in [Run -> Memory] /\ mem'[i] \in Memory
  BY DEF TypeOK
<1>2. Lasting(i)'
  BY <1>1, Ranks DEF TypeOK, Lasting, Placed, InferOnce, OpenOps, Clean,
     Passed, NotBegun,
     Early, Journal, InPhase, Leaving, Gone, Quiet, Phases, process, journal,
     review, host
<1>3. Placed(i)'
  BY <1>1, Ranks DEF TypeOK, Lasting, Placed, InferOnce, Clean, Passed,
     NotBegun, InUse,
     Early, Journal, InPhase, Leaving, Gone, Quiet, Phases, Memory, Stages,
     Profiles,
     process, journal, review, host
<1> QED  BY <1>2, <1>3

(* LoopEnds leaves its run where the invariant says.                       *)
LEMMA LoopEndsPlaced ==
    ASSUME TypeOK, NEW i \in Run, Lasting(i), Placed(i), LoopEnds(i), TypeOK'
    PROVE  Lasting(i)' /\ Placed(i)'
<1>1. mem[i] \in Memory /\ mem \in [Run -> Memory] /\ mem'[i] \in Memory
  BY DEF TypeOK
<1>2. Lasting(i)'
  BY <1>1, Ranks DEF TypeOK, Lasting, Placed, LoopEnds, OpenOps, Clean,
     Passed, NotBegun,
     Early, Journal, InPhase, Leaving, Gone, Quiet, Phases, process, journal,
     review, host
<1>3. Placed(i)'
  BY <1>1, Ranks DEF TypeOK, Lasting, Placed, LoopEnds, Clean, Passed,
     NotBegun, InUse,
     Early, Journal, InPhase, Leaving, Gone, Quiet, Phases, Memory, Stages,
     Profiles,
     process, journal, review, host
<1> QED  BY <1>2, <1>3

(* Answered leaves its run where the invariant says.                       *)
LEMMA AnsweredPlaced ==
    ASSUME TypeOK, NEW i \in Run, Lasting(i), Placed(i), Answered(i), TypeOK'
    PROVE  Lasting(i)' /\ Placed(i)'
<1>1. mem[i] \in Memory /\ mem \in [Run -> Memory] /\ pc[i] = "infer"
  BY DEF TypeOK, Answered
<1>2. UNCHANGED <<name, meta, timeline, result, exit>>
  BY DEF Answered
<1>3. Lasting(i)'
  BY <1>2 DEF Lasting, OpenOps
<1>4. /\ mem'[i].phase = mem[i].phase /\ mem'[i].profile = mem[i].profile
      /\ mem'[i].stop = mem[i].stop
      /\ mem'[i].err = "none" => /\ mem'[i].submitted = mem'[i].completed
                                 /\ mem'[i].errors = 0 /\ mem'[i].timeouts = 0
  <2>1. CASE mem' = [mem EXCEPT ![i].completed = @ + 1]
    BY <1>1, <2>1 DEF Memory, Placed
  <2>2. CASE mem' = [mem EXCEPT ![i].completed = @ + 1, ![i].timeouts = @ + 1,
                                ![i].err = "TIMEOUT"]
    BY <1>1, <2>2 DEF Memory
  <2>3. CASE mem' = [mem EXCEPT ![i].timeouts = @ + 1, ![i].err = "TIMEOUT"]
    BY <1>1, <2>3 DEF Memory
  <2>4. CASE mem' = [mem EXCEPT ![i].errors = @ + 1, ![i].err = "WORKER_FAILED"]
    BY <1>1, <2>4 DEF Memory
  <2> QED  BY <2>1, <2>2, <2>3, <2>4 DEF Answered
<1>5. CASE Goto(i, "close") /\ UNCHANGED current
  BY <1>1, <1>2, <1>3, <1>4, <1>5, Ranks DEF TypeOK, Placed, Clean, Passed,
     NotBegun,
     InUse, Early, Journal, InPhase, Quiet
<1>6. CASE /\ mem[i].phase # "H1" /\ mem'[i].err = "none" /\ Goto(i, "loop")
           /\ \/ UNCHANGED current
              \/ mem[i].phase = "H3" /\ current' = [current EXCEPT ![i] = "H3"]
  <2>1. Rank[current'[i]] <= Rank[mem[i].phase]
    BY <1>1, <1>6, Ranks DEF TypeOK, Placed, InPhase
  <2> QED
    BY <1>1, <1>2, <1>3, <1>4, <1>6, <2>1, Ranks DEF TypeOK, Placed, Clean,
       Passed, NotBegun,
       InUse, Early, Journal, InPhase, Quiet
<1> QED
  BY <1>3, <1>5, <1>6 DEF Answered

(* Close leaves its run where the invariant says.                          *)
LEMMA ClosePlaced ==
    ASSUME TypeOK, NEW i \in Run, Lasting(i), Placed(i), Close(i), TypeOK'
    PROVE  Lasting(i)' /\ Placed(i)'
<1>1. mem[i] \in Memory /\ mem \in [Run -> Memory] /\ mem'[i] \in Memory
  BY DEF TypeOK
<1>2. Lasting(i)'
  <2>1. /\ result[i] = None /\ exit[i] # "SUCCESS" /\ meta[i] /\ name[i] > 0
        /\ mem[i].phase \in {"H1", "H2", "H3"} /\ timeline[i]["RUN"] = "STARTED"
    BY <1>1 DEF Close, Placed, Journal, InPhase, Memory, Stages
  <2>2. /\ timeline'[i]["RUN"] = timeline[i]["RUN"]
        /\ UNCHANGED <<name, meta, result, exit>>
    BY <2>1 DEF Close, TypeOK, Phases
  <2> QED  BY <2>1, <2>2 DEF Lasting
<1>3. Placed(i)'
  BY <1>1, Ranks DEF TypeOK, Lasting, Placed, Close, Clean, Passed, NotBegun,
     InUse,
     Early, Journal, InPhase, Leaving, Gone, Quiet, Phases, Memory, Stages,
     Profiles,
     process, journal, review, host
<1> QED  BY <1>2, <1>3

(* Finish leaves its run where the invariant says.                         *)
LEMMA FinishPlaced ==
    ASSUME TypeOK, NEW i \in Run, Lasting(i), Placed(i), Finish(i), TypeOK'
    PROVE  Lasting(i)' /\ Placed(i)'
<1>1. mem[i] \in Memory /\ mem \in [Run -> Memory] /\ mem'[i] \in Memory
  BY DEF TypeOK
<1>2. Lasting(i)'
  BY <1>1, Ranks DEF TypeOK, Finish, Lasting, Placed, OpenOps, Clean, Passed,
     NotBegun,
     Early, Journal, InPhase, Leaving, Gone, Quiet, Phases, Memory, Errors,
     Exits, process, journal, review, host
<1>3. Placed(i)'
  BY <1>1, Ranks DEF TypeOK, Finish, Lasting, Placed, Clean, Passed, NotBegun,
     InUse,
     Early, Journal, InPhase, Leaving, Gone, Quiet, Phases, Memory, Stages,
     Profiles, Errors, Exits,
     process, journal, review, host
<1> QED  BY <1>2, <1>3

(* CompleteRun leaves its run where the invariant says.                    *)
LEMMA CompleteRunPlaced ==
    ASSUME TypeOK, NEW i \in Run, Lasting(i), Placed(i), CompleteRun(i), TypeOK'
    PROVE  Lasting(i)' /\ Placed(i)'
<1>1. mem[i] \in Memory /\ mem \in [Run -> Memory] /\ mem'[i] \in Memory
  BY DEF TypeOK
<1>2. Lasting(i)'
  BY <1>1, Ranks DEF TypeOK, CompleteRun, Lasting, Placed, OpenOps, Clean,
     Passed, NotBegun,
     Early, Journal, InPhase, Leaving, Gone, Quiet, Phases, Memory, Errors,
     Exits, process, journal, review, host, ExitFor
<1>3. Placed(i)'
  BY <1>1, Ranks DEF TypeOK, Lasting, Placed, CompleteRun, Clean, Passed,
     NotBegun, InUse,
     Early, Journal, InPhase, Leaving, Gone, Quiet, Phases, Memory, Stages,
     Profiles,
     process, journal, review, host, ExitFor
<1> QED  BY <1>2, <1>3

(* Raise leaves its run where the invariant says.                          *)
LEMMA RaisePlaced ==
    ASSUME TypeOK, NEW i \in Run, Lasting(i), Placed(i), Raise(i), TypeOK'
    PROVE  Lasting(i)' /\ Placed(i)'
<1>1. mem[i] \in Memory /\ mem \in [Run -> Memory] /\ mem'[i] \in Memory
  BY DEF TypeOK
<1>2. Lasting(i)'
  BY <1>1, Ranks DEF TypeOK, Lasting, Placed, Raise, OpenOps, Clean, Passed,
     NotBegun,
     Early, Journal, InPhase, Leaving, Gone, Quiet, Phases, process, journal,
     review, host, Fresh
<1>3. Placed(i)'
  BY <1>1, Ranks DEF TypeOK, Lasting, Placed, Raise, Clean, Passed, NotBegun,
     InUse,
     Early, Journal, InPhase, Leaving, Gone, Quiet, Phases, Memory, Stages,
     Profiles,
     process, journal, review, host, Fresh
<1> QED  BY <1>2, <1>3

(* LastCheckpoint leaves its run where the invariant says.                 *)
LEMMA LastCheckpointPlaced ==
    ASSUME TypeOK, NEW i \in Run, Lasting(i), Placed(i), LastCheckpoint(i),
    TypeOK'
    PROVE  Lasting(i)' /\ Placed(i)'
<1>1. mem[i] \in Memory /\ mem \in [Run -> Memory] /\ mem'[i] \in Memory
  BY DEF TypeOK
<1>2. Lasting(i)'
  BY <1>1, Ranks DEF TypeOK, Lasting, Placed, LastCheckpoint, OpenOps, Clean,
     Passed, NotBegun,
     Early, Journal, InPhase, Leaving, Gone, Quiet, Phases, process, journal,
     review, host, Fresh
<1>3. Placed(i)'
  BY <1>1, Ranks DEF TypeOK, Lasting, Placed, LastCheckpoint, Clean, Passed,
     NotBegun, InUse,
     Early, Journal, InPhase, Leaving, Gone, Quiet, Phases, Memory, Stages,
     Profiles,
     process, journal, review, host, Fresh
<1> QED  BY <1>2, <1>3

(* Stop leaves its run where the invariant says.                           *)
LEMMA StopPlaced ==
    ASSUME TypeOK, NEW i \in Run, Lasting(i), Placed(i), Stop(i), TypeOK'
    PROVE  Lasting(i)' /\ Placed(i)'
<1>1. mem[i] \in Memory /\ mem \in [Run -> Memory] /\ mem'[i] \in Memory
  BY DEF TypeOK
<1>2. Lasting(i)'
  BY <1>1, Ranks DEF TypeOK, Lasting, Placed, Stop, OpenOps, Clean, Passed,
     NotBegun,
     Early, Journal, InPhase, Leaving, Gone, Quiet, Phases, process, journal,
     review, host, Release, Fresh
<1>3. Placed(i)'
  BY <1>1, Ranks DEF TypeOK, Lasting, Placed, Stop, Clean, Passed, NotBegun,
     InUse,
     Early, Journal, InPhase, Leaving, Gone, Quiet, Phases, Memory, Stages,
     Profiles,
     process, journal, review, host, Release, Fresh
<1> QED  BY <1>2, <1>3

(* Signal leaves its run where the invariant says.                         *)
LEMMA SignalPlaced ==
    ASSUME TypeOK, NEW i \in Run, Lasting(i), Placed(i), Signal(i), TypeOK'
    PROVE  Lasting(i)' /\ Placed(i)'
<1>1. mem[i] \in Memory /\ mem \in [Run -> Memory] /\ mem'[i] \in Memory
  BY DEF TypeOK
<1>2. Lasting(i)'
  BY <1>1, Ranks DEF TypeOK, Lasting, Placed, Signal, OpenOps, Clean, Passed,
     NotBegun,
     Early, Journal, InPhase, Leaving, Gone, Quiet, Phases, process, journal,
     review, host
<1>3. Placed(i)'
  BY <1>1, Ranks DEF TypeOK, Lasting, Placed, Signal, Clean, Passed, NotBegun,
     InUse,
     Early, Journal, InPhase, Leaving, Gone, Quiet, Phases, Memory, Stages,
     Profiles,
     process, journal, review, host
<1> QED  BY <1>2, <1>3

(* Kill leaves its run where the invariant says.                           *)
LEMMA KillPlaced ==
    ASSUME TypeOK, NEW i \in Run, Lasting(i), Placed(i), Kill(i), TypeOK'
    PROVE  Lasting(i)' /\ Placed(i)'
<1>1. mem[i] \in Memory /\ mem \in [Run -> Memory] /\ mem'[i] \in Memory
  BY DEF TypeOK
<1>2. Lasting(i)'
  BY <1>1, Ranks DEF TypeOK, Lasting, Placed, Kill, OpenOps, Clean, Passed,
     NotBegun,
     Early, Journal, InPhase, Leaving, Gone, Quiet, Phases, process, journal,
     review, host, Release, Fresh, Alive
<1>3. Placed(i)'
  BY <1>1, Ranks DEF TypeOK, Lasting, Placed, Kill, Clean, Passed, NotBegun,
     InUse,
     Early, Journal, InPhase, Leaving, Gone, Quiet, Phases, Memory, Stages,
     Profiles,
     process, journal, review, host, Release, Fresh, Alive
<1> QED  BY <1>2, <1>3

(* Acknowledge leaves its run where the invariant says.                    *)
LEMMA AcknowledgePlaced ==
    ASSUME TypeOK, NEW i \in Run, Lasting(i), Placed(i), Acknowledge(i), TypeOK'
    PROVE  Lasting(i)' /\ Placed(i)'
<1>1. mem[i] \in Memory /\ mem \in [Run -> Memory] /\ mem'[i] \in Memory
  BY DEF TypeOK
<1>2. Lasting(i)'
  BY <1>1, Ranks DEF TypeOK, Lasting, Placed, Acknowledge, OpenOps, Clean,
     Passed, NotBegun,
     Early, Journal, InPhase, Leaving, Gone, Quiet, Phases, process, journal,
     review, host, Alive
<1>3. Placed(i)'
  BY <1>1, Ranks DEF TypeOK, Lasting, Placed, Acknowledge, Clean, Passed,
     NotBegun, InUse,
     Early, Journal, InPhase, Leaving, Gone, Quiet, Phases, Memory, Stages,
     Profiles,
     process, journal, review, host, Alive
<1> QED  BY <1>2, <1>3

(* Invoke leaves its run where the invariant says.                         *)
LEMMA InvokePlaced ==
    ASSUME TypeOK, NEW i \in Run, Lasting(i), Placed(i), Invoke(i), TypeOK'
    PROVE  Lasting(i)' /\ Placed(i)'
<1>1. mem[i] \in Memory /\ mem \in [Run -> Memory] /\ mem'[i] \in Memory
  BY DEF TypeOK
<1>2. Lasting(i)'
  BY <1>1, Ranks DEF TypeOK, Lasting, Placed, Invoke, OpenOps, Clean, Passed,
     NotBegun,
     Early, Journal, InPhase, Leaving, Gone, Quiet, Phases, process, journal,
     review, host, Fresh
<1>3. Placed(i)'
  BY <1>1, Ranks, SMTT(30) DEF TypeOK, Lasting, Placed, Invoke, Clean, Passed, NotBegun,
     InUse,
     Early, Journal, InPhase, Leaving, Gone, Quiet, Phases, Memory, Stages,
     Profiles,
     process, journal, review, host, Fresh
<1> QED  BY <1>2, <1>3

(* A step of a run that is alive and stays alive, and takes no name, keeps *)
(* the facts about sharing, names and the latch.                           *)
LEMMA LivingStep ==
    ASSUME IInv, NEW i \in Run, Others(i), Alive(i), Alive(i)',
           UNCHANGED <<name, ack, shared>>
    PROVE  Sharing' /\ Newest' /\ Alone'
<1>1. \A j \in Run : Alive(j)' <=> Alive(j)
  BY DEF Others, Alive
<1>2. \A j \in Run : Pending(j)' => Pending(j)
  BY DEF Others, Pending, Interrupted, OpenOps, Alive, Gone
<1> QED
  BY <1>1, <1>2 DEF IInv, Sharing, Newest, Alone

(* The same for the step in which a run ends.                              *)
LEMMA LastStep ==
    ASSUME IInv, NEW i \in Run, Others(i), Alive(i), ~Alive(i)',
           UNCHANGED <<name, meta, timeline, result, ack, shared>>
    PROVE  Sharing' /\ Newest' /\ Alone'
<1>1. \A j \in Run : Alive(j)' => Alive(j)
  BY DEF Others, Alive
<1>2. Sharing' /\ Newest'
  BY <1>1 DEF IInv, Sharing, Newest
<1>3. ASSUME NEW r \in Run, Pending(r)', ~ClockSteps, NEW q \in Run
      PROVE  ~Alive(q)' /\ name'[q] <= name'[r]
  <2>1. CASE r = i
    <3>1. ~shared[r] /\ Alive(r) /\ Interrupted(r)
      BY <1>3, <2>1 DEF Pending, Interrupted, OpenOps
    <3>2. ~Alive(q)'
      BY <1>1, <2>1, <3>1 DEF IInv, Sharing
    <3>3. name[r] > 0
      BY <3>1 DEF IInv, Lasting, Interrupted
    <3> QED
      BY <1>3, <3>1, <3>2, <3>3 DEF IInv, Newest
  <2>2. CASE r # i
    <3>1. Pending(r)
      BY <1>3, <2>2 DEF Pending, Interrupted, OpenOps, Others
    <3> QED
      BY <1>1, <1>3, <3>1 DEF IInv, Alone
  <2> QED  BY <2>1, <2>2
<1> QED
  BY <1>2, <1>3 DEF Alone

(* The naming of a run.                                                    *)
LEMMA NamingStep ==
    ASSUME IInv, NEW i \in Run, NameRun(i)
    PROVE  Sharing' /\ Newest' /\ Alone'
<1>1. Alive(i) /\ Alive(i)' /\ \A j \in Run : Alive(j)' <=> Alive(j)
  BY DEF IInv, TypeOK, NameRun, Alive, Gone
<1>2. Sharing' /\ UNCHANGED <<shared, ack, result, timeline>>
  BY <1>1 DEF IInv, Sharing, NameRun, review
<1>3. PICK n \in 1..MaxName :
        /\ ~ClockSteps => \A r \in Run : name[r] < n
        /\ name' = [name EXCEPT ![i] = n]
  BY DEF NameRun
<1>4. name \in [Run -> 0..MaxName]
  BY DEF IInv, TypeOK
<1>5. Newest'
  <2> SUFFICES ASSUME ~ClockSteps, NEW r \in Run, Alive(r), ~shared[r],
                      name'[r] > 0, NEW q \in Run
               PROVE  name'[q] <= name'[r]
    BY <1>1, <1>2 DEF Newest
  <2>1. r = i
    BY <1>1 DEF IInv, Sharing
  <2> QED
    BY <2>1, <1>3, <1>4
<1>6. Alone'
  <2>1. \A r \in Run : Pending(r)' => Pending(r)
    BY <1>1, <1>2 DEF Pending, Interrupted, OpenOps, NameRun, IInv, TypeOK
  <2>2. ~ClockSteps => \A r \in Run : ~Pending(r)
    BY <1>1 DEF IInv, Alone
  <2> QED  BY <2>1, <2>2 DEF Alone
<1> QED  BY <1>2, <1>5, <1>6

(* A run that passes the latch: none is pending.                           *)
LEMMA LatchStep ==
    ASSUME IInv, NEW i \in Run, Invoke(i), Others(i)
    PROVE  Sharing' /\ Newest' /\ Alone'
<1>1. pc[i] = "idle" /\ ~Alive(i) /\ name[i] = 0
      /\ UNCHANGED <<name, timeline, result, ack>>
  BY DEF Invoke, Alive, journal, IInv, Placed, Early
<1>2. CASE pc'[i] = "refused" /\ UNCHANGED shared
  <2>1. \A j \in Run : Alive(j)' <=> Alive(j)
    BY <1>1, <1>2 DEF Others, Alive, Gone
  <2>2. \A j \in Run : Pending(j)' => Pending(j)
    BY <1>1, <1>2 DEF Others, Pending, Interrupted, OpenOps
  <2> QED
    BY <1>1, <1>2, <2>1, <2>2 DEF IInv, Sharing, Newest, Alone
<1>3. CASE /\ pc'[i] = "checked" /\ ~Latched
           /\ shared' = [r \in Run |-> shared[r] \/
                          IF r = i THEN \E q \in Run : Alive(q) ELSE Alive(r)]
  <2>1. ~ClockSteps => \A r \in Run : ~Pending(r)
    <3> SUFFICES ASSUME ~ClockSteps, NEW r \in Run, Pending(r)
                 PROVE  FALSE
      OBVIOUS
    <3>1. meta[r] /\ Interrupted(r) /\ ~ack[r]
      BY DEF IInv, Lasting, Pending, Interrupted
    <3>2. \A q \in Run : name[q] <= name[r]
      BY DEF IInv, Alone
    <3> QED
      BY <1>3, <3>1, <3>2 DEF Latched, Latest
  <2>2. \A j \in Run \ {i} : Alive(j)' <=> Alive(j)
    BY DEF Others, Alive
  <2>3. \A j \in Run : Pending(j)' => Pending(j)
    BY <1>1, <1>3 DEF Others, Pending, Interrupted, OpenOps
  <2>4. Sharing'
    BY <1>1, <1>3, <2>2 DEF IInv, Sharing
  <2>5. Newest'
    <3> SUFFICES ASSUME NEW r \in Run, Alive(r)', ~shared'[r], name'[r] > 0
                 PROVE  FALSE
      BY DEF Newest
    <3>1. r # i
      BY <1>1
    <3>2. Alive(r)
      BY <2>2, <3>1
    <3> QED
      BY <1>3, <3>1, <3>2
  <2> QED
    BY <2>1, <2>3, <2>4, <2>5 DEF Alone
<1> QED
  BY <1>1, <1>2, <1>3 DEF Invoke, IInv, TypeOK

(* A reset of the host.                                                    *)
LEMMA ResetStep ==
    ASSUME IInv, HostReset
    PROVE  IInv'
<1>1. /\ pc' = [i \in Run |-> IF Alive(i) THEN "dead" ELSE pc[i]]
      /\ mem' = [i \in Run |-> Fresh] /\ lock' = None
      /\ UNCHANGED <<exit, name, meta, timeline, current, result, ack,
                     shared, inhibited>>
  BY DEF HostReset, journal, review
<1>2. Fresh \in Memory
  BY DEF Fresh, Memory, Stages, Errors, Profiles
<1>3. TypeOK'
  BY <1>1, <1>2 DEF IInv, TypeOK, Gone
<1>4. \A j \in Run : Lasting(j)' /\ Placed(j)'
  BY <1>1 DEF IInv, TypeOK, Lasting, Placed, OpenOps, Alive, Gone, Early,
     Journal,
     Leaving, Quiet, InPhase, InUse
<1>5. \A j \in Run : ~Alive(j)'
  BY <1>1 DEF IInv, TypeOK, Alive, Gone
<1>6. Sharing' /\ Newest'
  BY <1>5 DEF Sharing, Newest
<1>7. ASSUME NEW r \in Run, Pending(r)', ~ClockSteps, NEW q \in Run
      PROVE  name'[q] <= name'[r]
  <2>1. CASE Alive(r)
    <3>1. ~shared[r] /\ Interrupted(r)
      BY <1>1, <1>7 DEF Pending, Interrupted, OpenOps
    <3>2. name[r] > 0
      BY <3>1 DEF IInv, Lasting, Interrupted
    <3> QED
      BY <1>1, <1>7, <2>1, <3>1, <3>2 DEF IInv, Newest
  <2>2. CASE ~Alive(r)
    <3>1. Pending(r)
      BY <1>1, <1>7, <2>2 DEF Pending, Interrupted, OpenOps
    <3> QED
      BY <1>1, <1>7, <3>1 DEF IInv, Alone
  <2> QED  BY <2>1, <2>2
<1> QED
  BY <1>3, <1>4, <1>5, <1>6, <1>7 DEF IInv, Alone

(* The steps of one run that leave the latch's facts to LivingStep and     *)
(* LastStep.                                                               *)
LEMMA RunStep ==
    ASSUME IInv, NEW i \in Run,
           \/ TakeLock(i) \/ WriteMetadata(i) \/ StartRun(i) \/ PhaseE0(i)
           \/ Begin(i) \/ Activated(i) \/ InferOnce(i) \/ LoopEnds(i)
           \/ Answered(i) \/ Close(i) \/ Finish(i) \/ CompleteRun(i)
           \/ Raise(i) \/ LastCheckpoint(i) \/ Signal(i) \/ Stop(i) \/ Kill(i)
    PROVE  IInv'
<1>1. TypeOK /\ Lasting(i) /\ Placed(i)
  BY DEF IInv
<1>2. TypeOK' /\ Others(i) /\ Lasting(i)' /\ Placed(i)'
  <2>1. CASE TakeLock(i)  BY <1>1, <2>1, TakeLockTyped, TakeLockPlaced
  <2>2. CASE WriteMetadata(i)  BY <1>1, <2>2, WriteMetadataTyped,
     WriteMetadataPlaced
  <2>3. CASE StartRun(i)  BY <1>1, <2>3, StartRunTyped, StartRunPlaced
  <2>4. CASE PhaseE0(i)  BY <1>1, <2>4, PhaseE0Typed, PhaseE0Placed
  <2>5. CASE Begin(i)  BY <1>1, <2>5, BeginTyped, BeginPlaced
  <2>6. CASE Activated(i)  BY <1>1, <2>6, ActivatedTyped, ActivatedPlaced
  <2>7. CASE InferOnce(i)  BY <1>1, <2>7, InferOnceTyped, InferOncePlaced
  <2>8. CASE LoopEnds(i)  BY <1>1, <2>8, LoopEndsTyped, LoopEndsPlaced
  <2>9. CASE Answered(i)  BY <1>1, <2>9, AnsweredTyped, AnsweredPlaced
  <2>10. CASE Close(i)  BY <1>1, <2>10, CloseTyped, ClosePlaced
  <2>11. CASE Finish(i)  BY <1>1, <2>11, FinishTyped, FinishPlaced
  <2>12. CASE CompleteRun(i)  BY <1>1, <2>12, CompleteRunTyped,
     CompleteRunPlaced
  <2>13. CASE Raise(i)  BY <1>1, <2>13, RaiseTyped, RaisePlaced
  <2>14. CASE LastCheckpoint(i)  BY <1>1, <2>14, LastCheckpointTyped,
     LastCheckpointPlaced
  <2>15. CASE Signal(i)  BY <1>1, <2>15, SignalTyped, SignalPlaced
  <2>16. CASE Stop(i)  BY <1>1, <2>16, StopTyped, StopPlaced
  <2>17. CASE Kill(i)  BY <1>1, <2>17, KillTyped, KillPlaced
  <2> QED
    BY <2>1, <2>2, <2>3, <2>4, <2>5, <2>6, <2>7, <2>8, <2>9, <2>10, <2>11,
       <2>12, <2>13, <2>14, <2>15, <2>16, <2>17
<1>3. \A j \in Run : Lasting(j)' /\ Placed(j)'
  BY <1>2, OthersKeep DEF IInv
<1>4. Alive(i) /\ UNCHANGED <<name, ack, shared>>
  BY <1>1 DEF Alive, Gone, Journal, Leaving, TakeLock, WriteMetadata, StartRun,
     PhaseE0, Begin, Activated, InferOnce, LoopEnds, Answered, Close, Finish,
     CompleteRun, Raise, LastCheckpoint, Signal, Stop, Kill, journal, review
<1>5. CASE Alive(i)'
  BY <1>2, <1>3, <1>4, <1>5, LivingStep DEF IInv
<1>6. CASE ~Alive(i)'
  <2>1. TakeLock(i) \/ Stop(i) \/ Kill(i)
    <3>0. pc \in [Run -> Early \cup Journal \cup Leaving \cup Gone]
      BY <1>1 DEF TypeOK
    <3>1. CASE WriteMetadata(i)  BY <3>0, <1>6, <3>1 DEF WriteMetadata, Alive,
       Gone, Journal
    <3>2. CASE StartRun(i)  BY <3>0, <1>6, <3>2 DEF StartRun, Alive, Gone,
       Journal
    <3>3. CASE PhaseE0(i)  BY <3>0, <1>6, <3>3 DEF PhaseE0, Alive, Gone, Journal
    <3>4. CASE Begin(i)  BY <3>0, <1>6, <3>4 DEF Begin, Alive, Gone, Journal
    <3>5. CASE Activated(i)  BY <3>0, <1>6, <3>5 DEF Activated, Alive, Gone,
       Journal
    <3>6. CASE InferOnce(i)  BY <3>0, <1>6, <3>6 DEF InferOnce, Alive, Gone,
       Journal
    <3>7. CASE LoopEnds(i)  BY <3>0, <1>6, <3>7 DEF LoopEnds, Alive, Gone,
       Journal
    <3>8. CASE Answered(i)  BY <3>0, <1>6, <3>8 DEF Answered, Alive, Gone,
       Journal
    <3>9. CASE Close(i)  BY <3>0, <1>6, <3>9 DEF Close, Alive, Gone, Journal
    <3>10. CASE Finish(i)  BY <3>0, <1>6, <3>10 DEF Finish, Alive, Gone, Journal
    <3>11. CASE CompleteRun(i)  BY <3>0, <1>6, <3>11 DEF CompleteRun, Alive,
       Gone, Journal
    <3>12. CASE Raise(i)  BY <3>0, <1>6, <3>12 DEF Raise, Alive, Gone, Journal
    <3>13. CASE LastCheckpoint(i)  BY <3>0, <1>6, <3>13 DEF LastCheckpoint,
       Alive, Gone, Journal
    <3>14. CASE Signal(i)  BY <3>0, <1>6, <3>14 DEF Signal, Alive, Gone, Journal
    <3> QED
      BY <3>1, <3>2, <3>3, <3>4, <3>5, <3>6, <3>7, <3>8, <3>9, <3>10, <3>11,
         <3>12, <3>13, <3>14
  <2>2. UNCHANGED <<meta, timeline, result>>
    BY <2>1 DEF TakeLock, Stop, Kill, journal
  <2> QED
    BY <1>2, <1>3, <1>4, <1>6, <2>2, LastStep DEF IInv
<1> QED  BY <1>5, <1>6

(* An acknowledgement, and another owner of the directory.                 *)
LEMMA OutsideStep ==
    ASSUME IInv, (\E r \in Run : Acknowledge(r)) \/ OtherOwner \/ UNCHANGED vars
    PROVE  IInv'
<1>1. UNCHANGED <<pc, mem, exit, name, meta, timeline, current, result, shared>>
  BY DEF Acknowledge, OtherOwner, process, journal, review, host, vars
<1>2. \A r \in Run : ack[r] => ack'[r]
  BY DEF Acknowledge, OtherOwner, review, vars, IInv, TypeOK
<1>3. TypeOK'
  <2>1. CASE \E r \in Run : Acknowledge(r)
    BY <2>1, AcknowledgeTyped DEF IInv
  <2>2. CASE OtherOwner
    BY <2>2 DEF IInv, TypeOK, OtherOwner, process, journal, review
  <2>3. CASE UNCHANGED vars
    BY <2>3 DEF IInv, TypeOK, vars, process, journal, review, host
  <2> QED  BY <2>1, <2>2, <2>3
<1>4. \A j \in Run : Lasting(j)' /\ Placed(j)'
  BY <1>1 DEF IInv, Lasting, Placed, OpenOps, Passed, NotBegun, Clean, InUse
<1>5. \A j \in Run : (Alive(j)' <=> Alive(j)) /\ (Pending(j)' => Pending(j))
  BY <1>1, <1>2 DEF Alive, Pending, Interrupted, OpenOps
<1>6. Sharing' /\ Newest' /\ Alone'
  BY <1>1, <1>5 DEF IInv, Sharing, Newest, Alone
<1> QED  BY <1>3, <1>4, <1>6 DEF IInv

(* IInv is an invariant of the diagnostic.                                 *)
LEMMA InitInvariant == Init => IInv
<1> SUFFICES ASSUME Init PROVE IInv
  OBVIOUS
<1>1. Fresh \in Memory
  BY DEF Fresh, Memory, Stages, Errors, Profiles
<1>2. TypeOK
  BY <1>1 DEF Init, TypeOK, Early, Phases
<1>3. \A i \in Run : Lasting(i) /\ Placed(i) /\ ~Alive(i) /\ ~Pending(i)
  BY DEF Init, Lasting, Placed, OpenOps, Early, Journal, Leaving, Gone, Quiet,
     InPhase,
     Phases, InUse, Alive, Pending, Errors, Exits
<1> QED
  BY <1>2, <1>3 DEF IInv, Sharing, Newest, Alone

(* Every step keeps it.                                                    *)
LEMMA StepInvariant == IInv /\ [Next]_vars => IInv'
<1> SUFFICES ASSUME IInv, [Next]_vars PROVE IInv'
  OBVIOUS
<1>1. ASSUME NEW i \in Run, NameRun(i) PROVE IInv'
  BY <1>1, NameRunTyped, NameRunPlaced, NamingStep, OthersKeep DEF IInv
<1>2. ASSUME NEW i \in Run, Invoke(i) PROVE IInv'
  BY <1>2, InvokeTyped, InvokePlaced, LatchStep, OthersKeep DEF IInv
<1> QED
  BY <1>1, <1>2, RunStep, ResetStep, OutsideStep DEF Next, RunSteps

(* The journals and processes have the types of the model.                 *)
THEOREM TypeCorrect == Spec => []TypeOK
<1>1. IInv => TypeOK
  BY DEF IInv
<1> QED  BY <1>1, InitInvariant, StepInvariant, PTL DEF Spec

(* A death of the host in any device operation leaves a report that says   *)
(* interrupted, at the phase of that operation.                            *)
THEOREM DevicesRecorded == Spec => []DeviceRecorded
<1>1. ASSUME IInv, NEW i \in Run, InUse(i)
      PROVE  /\ Interrupted(i) /\ Position(i) = mem[i].phase
             /\ Rank[current[i]] <= Rank[mem[i].phase]
  <2>1. /\ mem[i].phase \in {"H1", "H2", "H3"} /\ result[i] = None
        /\ timeline[i][mem[i].phase] = "STARTED"
        /\ timeline[i]["RUN"] = "STARTED"
        /\ Passed(i, Rank[mem[i].phase]) /\ NotBegun(i, Rank[mem[i].phase])
        /\ Rank[current[i]] <= Rank[mem[i].phase]
    BY <1>1 DEF IInv, TypeOK, Placed, InUse, InPhase, Journal, Memory, Stages
  <2>2. \A q \in OpenOps(i) : q # mem[i].phase => Rank[q] < Rank[mem[i].phase]
    BY <2>1, Ranks DEF OpenOps, Phases, NotBegun
  <2>3. Position(i) = mem[i].phase
    BY <2>1, <2>2, PositionIs DEF Phases
  <2> QED
    BY <2>1, <2>3 DEF Interrupted, OpenOps, Phases
<1>2. IInv => DeviceRecorded
  BY <1>1 DEF DeviceRecorded
<1> QED  BY <1>2, InitInvariant, StepInvariant, PTL DEF Spec

(* The report of a run that is over shows a result or an interruption.     *)
THEOREM ReportsLast == Spec => []NothingLost
<1>1. IInv => NothingLost
  BY DEF IInv, Lasting, NothingLost, Interrupted, OpenOps, Phases
<1> QED  BY <1>1, InitInvariant, StepInvariant, PTL DEF Spec

(* PASS is said of runs whose phases and inferences all went well.         *)
THEOREM PassesEarned == Spec => []PassIsEarned
<1>1. IInv => PassIsEarned
  BY DEF IInv, Lasting, Placed, PassIsEarned, Clean
<1> QED  BY <1>1, InitInvariant, StepInvariant, PTL DEF Spec

(* No device operation follows a failed phase or an operator's stop.       *)
THEOREM NeverEscalates == Spec => []NoEscalation
<1>1. ASSUME IInv, NEW i \in Run, InUse(i)
      PROVE  /\ mem[i].err = "none"
             /\ \A p \in Phases \ {"RUN"} :
                  Rank[p] < Rank[mem[i].phase] => timeline[i][p] = "PASS"
             /\ \/ mem[i].stop \in {"no", mem[i].phase}
                \/ mem[i].stop = "E0" /\ mem[i].phase = "H1"
  BY <1>1 DEF IInv, Placed, InUse, InPhase, Passed, Phases
<1>2. IInv => NoEscalation
  BY <1>1 DEF NoEscalation
<1> QED  BY <1>2, InitInvariant, StepInvariant, PTL DEF Spec

(* The latch, which looks at the latest run only, covers every run that    *)
(* did not overlap with another one.                                       *)
THEOREM LatchSuffices == Spec => []Reviewed
<1>1. ASSUME IInv, NEW i \in Run, InUse(i)
      PROVE  Alive(i)
  BY <1>1 DEF InUse, Alive, Gone
<1>2. IInv => Reviewed
  BY <1>1 DEF IInv, TypeOK, Alone, Pending, Reviewed
<1> QED  BY <1>2, InitInvariant, StepInvariant, PTL DEF Spec

=============================================================================
