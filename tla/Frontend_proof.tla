--------------------------- MODULE Frontend_proof ---------------------------
(***************************************************************************)
(* Proofs about the frontend, for any number of clients, models, requests  *)
(* and switches.                                                           *)
(***************************************************************************)
EXTENDS Frontend, FiniteSetTheorems, TLAPS

(* Requests, replies and frames keep the shape of the tables.              *)
LEMMA ReplyTyped ==
    ASSUME TypeOK, NEW i \in Identity, NEW loaded \in BOOLEAN,
           NEW by \in Key \cup {None},
           ReplyModel(i, loaded) \/ ReplyFrame(i, by)
    PROVE  /\ owed' \in [Identity -> Int]
           /\ last' \in [Identity -> Reply]
           /\ wants' = wants
<1>1. owed \in [Identity -> Int] /\ last \in [Identity -> Reply]
  BY DEF TypeOK
<1>2. /\ [last[i] EXCEPT !.loaded = loaded] \in Reply
      /\ [last[i] EXCEPT !.by = by] \in Reply
  BY <1>1 DEF Reply
<1>3. last' \in [Identity -> Reply]
  <2>1. CASE ReplyModel(i, loaded)
    <3> last' = [last EXCEPT ![i] = [last[i] EXCEPT !.loaded = loaded]]
      BY <1>1, <2>1 DEF ReplyModel
    <3> QED  BY <1>1, <1>2
  <2>2. CASE ReplyFrame(i, by)
    <3> last' = [last EXCEPT ![i] = [last[i] EXCEPT !.by = by]]
      BY <1>1, <2>2 DEF ReplyFrame
    <3> QED  BY <1>1, <1>2
  <2> QED  BY <2>1, <2>2
<1> QED
  BY <1>1, <1>3 DEF ReplyModel, ReplyFrame

(* A taken request is a request, and the queue is shorter.                 *)
LEMMA TakeTyped ==
    ASSUME TypeOK, NEW kind \in Kinds, Takes(kind)
    PROVE  /\ Head1.id \in Identity /\ Head1.kind = kind
           /\ queue' \in Seq(Request) /\ Len(queue') <= QUEUE_MAX
           /\ loop = Idle
<1>1. queue \in Seq(Request) /\ queue # <<>> /\ Len(queue) <= QUEUE_MAX
  BY DEF TypeOK, Takes
<1>2. Head(queue) \in Request
  BY <1>1
<1>3. Tail(queue) \in Seq(Request) /\ Len(Tail(queue)) <= QUEUE_MAX
  BY <1>1, FrontendAssumption
<1> QED
  BY <1>2, <1>3 DEF Takes, Head1, Request

(* A fresh binding is a binding.                                           *)
LEMMA BindTyped ==
    ASSUME NEW table \in [Identity -> Binding \cup {None}], NEW i \in Identity,
           NEW k \in Key, NEW g \in Nat
    PROVE  Bind(table, i, k, g) \in [Identity -> Binding \cup {None}]
BY DEF Bind, Binding

(* A binding that is used stays a binding.                                *)
LEMMA TouchTyped ==
    ASSUME TypeOK, NEW i \in Identity, Touch(i)
    PROVE  sessions' \in [Identity -> Binding \cup {None}]
BY DEF TypeOK, Touch, Binding

(***************************************************************************)
(* The shape of the state.                                                 *)
(***************************************************************************)

(* The initial state has the types.                                        *)
LEMMA InitTyped == Init => TypeOK
<1> SUFFICES ASSUME Init PROVE TypeOK
  OBVIOUS
<1>1. last \in [Identity -> Reply]
  BY DEF Init, Reply
<1>2. queue \in Seq(Request) /\ Len(queue) <= QUEUE_MAX
  BY FrontendAssumption DEF Init
<1>3. loop \in LoopType
  BY DEF Init, LoopType
<1>4. answer \in [frame: Nat, of: Nat, by: Key \cup {None}] /\ serving \in Key \cup {None}
  BY DEF Init, Worker!Init, Worker!NoResult
<1>5. sessions \in [Identity -> Binding \cup {None}] /\ owed \in [Identity -> Int]
  BY DEF Init
<1>6. superseded \subseteq Key /\ generation \in Nat /\ prepared \subseteq Key
  BY DEF Init
<1> QED
  BY <1>1, <1>2, <1>3, <1>4, <1>5, <1>6 DEF Init, TypeOK

(* The steps of the worker's service keep its two variables in shape.      *)
LEMMA ServiceTyped ==
    ASSUME TypeOK, NEW k \in Key,
           Worker!Activate(k) \/ Worker!Lose \/ Worker!Answer \/ Worker!Refuse
    PROVE  /\ serving' \in Key \cup {None}
           /\ answer' \in [frame: Nat, of: Nat, by: Key \cup {None}]
<1>1. serving \in Key \cup {None} /\ answer \in [frame: Nat, of: Nat, by: Key \cup {None}]
  BY DEF TypeOK
<1>2. CASE Worker!Activate(k)
  BY <1>1, <1>2 DEF Worker!Activate
<1>3. CASE Worker!Lose
  BY <1>1, <1>3 DEF Worker!Lose
<1>4. CASE Worker!Answer
  BY <1>1, <1>4 DEF Worker!Answer, Worker!Asked
<1>5. CASE Worker!Refuse
  BY <1>1, <1>5 DEF Worker!Refuse, Worker!NoResult, Worker!Asked
<1> QED
  BY <1>2, <1>3, <1>4, <1>5

(* No step of the frontend, its clients or the other threads breaks the types.*)
LEMMA NextTyped == TypeOK /\ [Next]_vars => TypeOK'
<1> SUFFICES ASSUME TypeOK, [Next]_vars PROVE TypeOK'
  OBVIOUS
<1> USE DEF clients, frontend, worker
<1>1. ASSUME NEW i \in Identity, Quiesce(i) PROVE TypeOK'
  <2>1. sessions \in [Identity -> Binding \cup {None}] /\ sessions[i] # None
    BY <1>1 DEF TypeOK, Quiesce
  <2>2. [sessions[i] EXCEPT !.recent = FALSE] \in Binding
    BY <2>1 DEF Binding
  <2>3. sessions' = [sessions EXCEPT ![i] = [sessions[i] EXCEPT !.recent = FALSE]]
    BY <2>1, <1>1 DEF Quiesce
  <2>4. sessions' \in [Identity -> Binding \cup {None}]
    BY <2>1, <2>2, <2>3
  <2> QED
    BY <2>4, <1>1 DEF TypeOK, Quiesce
<1>2. ASSUME NEW i \in Identity, NEW kind \in Kinds, Receive(i, kind) PROVE TypeOK'
  <2>1. CASE Len(queue) < QUEUE_MAX
    <3>1. [id |-> i, kind |-> kind] \in Request
      BY DEF Request
    <3>2. queue' = Append(queue, [id |-> i, kind |-> kind])
      BY <1>2, <2>1, FrontendAssumption DEF Receive, TypeOK
    <3>3. queue' \in Seq(Request) /\ Len(queue') <= QUEUE_MAX
      BY <2>1, <3>1, <3>2, FrontendAssumption DEF TypeOK
    <3>4. /\ owed' = [owed EXCEPT ![i] = @ + 1]
          /\ UNCHANGED <<wants, last>>
      BY <1>2, <2>1, FrontendAssumption DEF Receive, TypeOK
    <3> QED
      BY <1>2, <3>3, <3>4 DEF Receive, TypeOK
  <2>2. CASE Len(queue) = QUEUE_MAX
    <3>1. last \in [Identity -> Reply]
      BY DEF TypeOK
    <3>2. [loaded |-> last[i].loaded /\ kind = "infer", by |-> None] \in Reply
      BY <3>1 DEF Reply
    <3>3. /\ last' = [last EXCEPT ![i] = [loaded |-> last[i].loaded /\ kind = "infer", by |-> None]]
          /\ UNCHANGED <<wants, owed, queue>>
      BY <1>2, <2>2, <3>1, FrontendAssumption DEF Receive, TypeOK
    <3>4. last' \in [Identity -> Reply]
      BY <3>1, <3>2, <3>3
    <3> QED
      BY <1>2, <3>3, <3>4 DEF Receive, TypeOK
  <2> QED
    BY <1>2, <2>1, <2>2 DEF Receive
<1>3. ASSUME Expired PROVE TypeOK'
  <2>1. PICK kind \in Kinds :
          /\ Takes(kind)
          /\ ReplyFrame(Head1.id, None) \/ ReplyModel(Head1.id, FALSE)
    BY <1>3 DEF Expired
  <2>2. Head1.id \in Identity /\ queue' \in Seq(Request) /\ Len(queue') <= QUEUE_MAX
    BY <2>1, TakeTyped
  <2>3. owed' \in [Identity -> Int] /\ last' \in [Identity -> Reply] /\ wants' = wants
    BY <2>1, <2>2, ReplyTyped
  <2> QED
    BY <1>3, <2>2, <2>3 DEF Expired, TypeOK
<1>4. ASSUME ModelRequest PROVE TypeOK'
  <2>1. PICK loaded \in BOOLEAN : ReplyModel(Head1.id, loaded)
    BY <1>4 DEF ModelRequest, Current
  <2>2. Takes("available") /\ (Touch(Head1.id) \/ UNCHANGED sessions)
    BY <1>4 DEF ModelRequest
  <2>3. Head1.id \in Identity /\ queue' \in Seq(Request) /\ Len(queue') <= QUEUE_MAX
    BY <2>2, TakeTyped DEF Kinds
  <2>4. owed' \in [Identity -> Int] /\ last' \in [Identity -> Reply] /\ wants' = wants
    BY <2>1, <2>3, ReplyTyped
  <2>5. sessions' \in [Identity -> Binding \cup {None}]
    BY <2>2, <2>3, TouchTyped DEF TypeOK
  <2> QED
    BY <1>4, <2>3, <2>4, <2>5 DEF ModelRequest, TypeOK
<1>5. ASSUME NotPrepared PROVE TypeOK'
  <2>1. Head1.id \in Identity /\ queue' \in Seq(Request) /\ Len(queue') <= QUEUE_MAX
    BY <1>5, TakeTyped DEF NotPrepared, Kinds
  <2>2. owed' \in [Identity -> Int] /\ last' \in [Identity -> Reply] /\ wants' = wants
    BY <1>5, <2>1, ReplyTyped DEF NotPrepared
  <2> QED
    BY <1>5, <2>1, <2>2 DEF NotPrepared, TypeOK
<1>6. ASSUME IngestRaises PROVE TypeOK'
  <2>1. queue' \in Seq(Request) /\ Len(queue') <= QUEUE_MAX
    BY <1>6, TakeTyped DEF IngestRaises, Kinds
  <2>2. loop' \in LoopType
    BY <1>6 DEF IngestRaises, LoopType
  <2> QED
    BY <1>6, <2>1, <2>2 DEF IngestRaises, TypeOK
<1>7. ASSUME Prepared PROVE TypeOK'
  <2> DEFINE i == Head1.id
             k == wants[i]
  <2>1. i \in Identity /\ queue' \in Seq(Request) /\ Len(queue') <= QUEUE_MAX
    BY <1>7, TakeTyped DEF Prepared, Kinds
  <2>2. k \in Key
    BY <2>1 DEF TypeOK
  <2>3. Bound(i, k) \/ InUse(i) \/ TryActivate(i, k)
    BY <1>7 DEF Prepared
  <2>4. UNCHANGED <<superseded, generation, activeKey, prepared, serving, answer>>
    BY <1>7 DEF Prepared
  <2> HIDE DEF i, k
  <2>5. CASE Bound(i, k)
    <3>1. sessions' \in [Identity -> Binding \cup {None}]
      BY <2>1, <2>2, <2>5, BindTyped DEF Bound, TypeOK
    <3>2. owed' \in [Identity -> Int] /\ last' \in [Identity -> Reply] /\ wants' = wants
      BY <2>1, <2>5, ReplyTyped DEF Bound
    <3> QED
      BY <2>1, <2>4, <2>5, <3>1, <3>2 DEF Bound, TypeOK
  <2>6. CASE InUse(i)
    <3>1. owed' \in [Identity -> Int] /\ last' \in [Identity -> Reply] /\ wants' = wants
      BY <2>1, <2>6, ReplyTyped DEF InUse
    <3> QED
      BY <2>1, <2>4, <2>6, <3>1 DEF InUse, TypeOK
  <2>7. CASE TryActivate(i, k)
    <3>1. CASE lease = None
      <4>1. loop' \in LoopType
        BY <2>1, <2>2, <2>7, <3>1 DEF TryActivate, LoopType
      <4> QED
        BY <2>1, <2>4, <2>7, <3>1, <4>1 DEF TryActivate, TypeOK
    <3>2. CASE lease # None
      <4>1. owed' \in [Identity -> Int] /\ last' \in [Identity -> Reply] /\ wants' = wants
        BY <2>1, <2>7, <3>2, ReplyTyped DEF TryActivate
      <4> QED
        BY <2>1, <2>4, <2>7, <3>2, <4>1 DEF TryActivate, TypeOK
    <3> QED
      BY <3>1, <3>2
  <2> QED
    BY <2>3, <2>5, <2>6, <2>7
<1>8. ASSUME Swapped PROVE TypeOK'
  <2>1. PICK at \in {"activated", "refused"} : loop' = [loop EXCEPT !.at = at]
    BY <1>8 DEF Swapped
  <2>2. loop' \in LoopType /\ loop.key \in Key
    <3>1. loop \in [at: {"activating", "refused", "activated"}, id: Identity, key: Key]
      BY <1>8 DEF Swapped, TypeOK, LoopType, Idle
    <3> QED
      BY <2>1, <3>1 DEF LoopType
  <2>3. /\ serving' \in Key \cup {None}
        /\ answer' \in [frame: Nat, of: Nat, by: Key \cup {None}]
    BY <1>8, <2>2, ServiceTyped DEF Swapped
  <2> QED
    BY <1>8, <2>2, <2>3 DEF Swapped, TypeOK
<1>9. ASSUME Refused PROVE TypeOK'
  <2>1. loop' \in LoopType
    BY <1>9 DEF Refused, TypeOK, LoopType, Idle
  <2> QED
    BY <1>9, <2>1 DEF Refused, TypeOK
<1>10. ASSUME ActivationFailed PROVE TypeOK'
  <2>1. loop.id \in Identity /\ loop' \in LoopType
    BY <1>10 DEF ActivationFailed, TypeOK, LoopType, Idle
  <2>2. owed' \in [Identity -> Int] /\ last' \in [Identity -> Reply] /\ wants' = wants
    BY <1>10, <2>1, ReplyTyped DEF ActivationFailed
  <2> QED
    BY <1>10, <2>1, <2>2 DEF ActivationFailed, TypeOK
<1>11. ASSUME Activated PROVE TypeOK'
  <2> DEFINE kept == [i \in Identity |-> IF Current(i) THEN None ELSE sessions[i]]
  <2>1. loop.id \in Identity /\ loop.key \in Key
    BY <1>11 DEF Activated, TypeOK, LoopType, Idle
  <2>2. loop' \in LoopType
    BY <1>11 DEF Activated, LoopType
  <2>3. owed' \in [Identity -> Int] /\ last' \in [Identity -> Reply] /\ wants' = wants
    BY <1>11, <2>1, ReplyTyped DEF Activated
  <2>4. /\ generation \in Nat /\ sessions \in [Identity -> Binding \cup {None}]
        /\ activeKey \in Key \cup {None} /\ superseded \subseteq Key
    BY DEF TypeOK
  <2>5. kept \in [Identity -> Binding \cup {None}]
    BY <2>4
  <2>6. CASE activeKey = None
    <3>1. /\ sessions' = Bind(sessions, loop.id, loop.key, generation)
          /\ UNCHANGED <<superseded, generation>>
      BY <1>11, <2>6 DEF Activated
    <3>2. sessions' \in [Identity -> Binding \cup {None}]
      BY <2>1, <2>4, <3>1, BindTyped
    <3> QED
      BY <1>11, <2>1, <2>2, <2>3, <3>1, <3>2 DEF Activated, TypeOK
  <2>7. CASE activeKey # None
    <3>1. /\ generation' = generation + 1
          /\ sessions' = Bind(kept, loop.id, loop.key, generation + 1)
          /\ superseded' = superseded \cup {activeKey}
      BY <1>11, <2>7 DEF Activated
    <3>2. generation' \in Nat /\ superseded' \subseteq Key
      BY <2>4, <2>7, <3>1
    <3> HIDE DEF kept
    <3>3. sessions' \in [Identity -> Binding \cup {None}]
      BY <2>1, <2>4, <2>5, <3>1, BindTyped
    <3> QED
      BY <1>11, <2>1, <2>2, <2>3, <3>2, <3>3 DEF Activated, TypeOK
  <2> QED
    BY <2>6, <2>7
<1>12. ASSUME Unbound PROVE TypeOK'
  <2>1. Head1.id \in Identity /\ queue' \in Seq(Request) /\ Len(queue') <= QUEUE_MAX
    BY <1>12, TakeTyped DEF Unbound, Kinds
  <2>2. owed' \in [Identity -> Int] /\ last' \in [Identity -> Reply] /\ wants' = wants
    BY <1>12, <2>1, ReplyTyped DEF Unbound
  <2> QED
    BY <1>12, <2>1, <2>2 DEF Unbound, TypeOK
<1>13. ASSUME Infer PROVE TypeOK'
  <2>1. Head1.id \in Identity /\ queue' \in Seq(Request) /\ Len(queue') <= QUEUE_MAX
    BY <1>13, TakeTyped DEF Infer, Kinds
  <2>2. loop' \in LoopType
    BY <1>13, <2>1 DEF Infer, LoopType
  <2> QED
    BY <1>13, <2>1, <2>2 DEF Infer, TypeOK
<1>14. ASSUME Inferred PROVE TypeOK'
  <2>1. loop.id \in Identity /\ loop' \in LoopType
    BY <1>14 DEF Inferred, TypeOK, LoopType, Idle
  <2>2. serving \in Key \cup {None} /\ answer \in [frame: Nat, of: Nat, by: Key \cup {None}]
    BY DEF TypeOK
  <2>3. /\ serving' \in Key \cup {None}
        /\ answer' \in [frame: Nat, of: Nat, by: Key \cup {None}]
    BY <1>14, <2>2 DEF Inferred, Worker!Answer, Worker!Refuse, Worker!NoResult, Worker!Asked
  <2>4. answer'.by \in Key \cup {None}
    BY <2>3
  <2>5. owed' \in [Identity -> Int] /\ last' \in [Identity -> Reply] /\ wants' = wants
    BY <1>14, <2>1, <2>4, ReplyTyped DEF Inferred
  <2>6. sessions' \in [Identity -> Binding \cup {None}]
    BY <1>14, <2>1, TouchTyped DEF Inferred
  <2> QED
    BY <1>14, <2>1, <2>3, <2>5, <2>6 DEF Inferred, TypeOK
<1>15. ASSUME WorkerLost PROVE TypeOK'
  BY <1>15 DEF WorkerLost, TypeOK, Worker!Lose
<1>16. ASSUME NEW k \in Key, AdminActivate(k) PROVE TypeOK'
  BY <1>16 DEF AdminActivate, TypeOK, Worker!Activate
<1>17. ASSUME NEW k \in Key, ProbeStarts(k) \/ ProbeSkipped(k) PROVE TypeOK'
  BY <1>17 DEF ProbeStarts, ProbeSkipped, TypeOK
<1>18. ASSUME ProbeEnds PROVE TypeOK'
  BY <1>18 DEF ProbeEnds, TypeOK
<1>19. CASE UNCHANGED vars
  BY <1>19 DEF vars, TypeOK
<1> QED
  BY <1>1, <1>2, <1>3, <1>4, <1>5, <1>6, <1>7, <1>8, <1>9, <1>10, <1>11, <1>12, <1>13,
     <1>14, <1>15, <1>16, <1>17, <1>18, <1>19 DEF Next, LoopStep

(* Every table, queue and field of the frontend keeps its shape, in        *)
(* whatever order the receiving task, the worker task, the admin threads   *)
(* and the compiles take their steps.                                      *)
THEOREM TypeCorrect == Spec => []TypeOK
BY InitTyped, NextTyped, PTL DEF Spec

(***************************************************************************)
(* Bindings.  A binding is made either to the active artifact at once, or  *)
(* after an activation, for the key the loop kept across its awaits; so    *)
(* the inductive invariant adds what that key is.                          *)
(***************************************************************************)

Switching == {"activating", "refused", "activated"}

(* The key under activation is the one its client transferred.             *)
LoopWants == loop.at \in Switching => loop.key = wants[loop.id]

BindInv == TypeOK /\ BindingsMatch /\ LoopWants

SameBindings ==
    \A i \in Identity :
        /\ sessions'[i] = None <=> sessions[i] = None
        /\ sessions[i] # None => /\ sessions'[i].key = sessions[i].key
                                 /\ sessions'[i].gen = sessions[i].gen

(* Using a binding, or letting it grow old, leaves what it binds alone.    *)
LEMMA TouchSame ==
    ASSUME TypeOK, NEW i \in Identity,
           Touch(i) \/ Quiesce(i) \/ UNCHANGED sessions
    PROVE  SameBindings
<1>1. sessions \in [Identity -> Binding \cup {None}]
  BY DEF TypeOK
<1>2. \A b \in Binding : b # None
  BY FrontendAssumption
<1>3. CASE Touch(i)
  <2>1. CASE sessions[i] = None
    BY <1>1, <1>3, <2>1 DEF Touch, SameBindings
  <2>2. CASE sessions[i] # None
    <3>1. sessions' = [sessions EXCEPT ![i] = [sessions[i] EXCEPT !.recent = TRUE]]
      BY <1>1, <1>3, <2>2 DEF Touch
    <3>2. /\ [sessions[i] EXCEPT !.recent = TRUE] \in Binding
          /\ [sessions[i] EXCEPT !.recent = TRUE].key = sessions[i].key
          /\ [sessions[i] EXCEPT !.recent = TRUE].gen = sessions[i].gen
      BY <1>1, <2>2 DEF Binding
    <3> QED
      BY <1>1, <1>2, <2>2, <3>1, <3>2 DEF SameBindings
  <2> QED
    BY <2>1, <2>2
<1>4. CASE Quiesce(i)
  <2>1. /\ sessions[i] # None
        /\ sessions' = [sessions EXCEPT ![i] = [sessions[i] EXCEPT !.recent = FALSE]]
    BY <1>1, <1>4 DEF Quiesce
  <2>2. /\ [sessions[i] EXCEPT !.recent = FALSE] \in Binding
        /\ [sessions[i] EXCEPT !.recent = FALSE].key = sessions[i].key
        /\ [sessions[i] EXCEPT !.recent = FALSE].gen = sessions[i].gen
    BY <1>1, <2>1 DEF Binding
  <2> QED
    BY <1>1, <1>2, <2>1, <2>2 DEF SameBindings
<1>5. CASE UNCHANGED sessions
  BY <1>5 DEF SameBindings
<1> QED
  BY <1>3, <1>4, <1>5

(* A step that rebinds nobody keeps the bindings right.                    *)
LEMMA SameMatch ==
    ASSUME BindInv, SameBindings, UNCHANGED <<wants, generation, activeKey>>
    PROVE  BindingsMatch'
BY DEF BindInv, BindingsMatch, Current, SameBindings

(* The steps that neither bind nor switch.                                 *)
LEMMA SameStep ==
    ASSUME BindInv, SameBindings, UNCHANGED <<wants, generation, activeKey>>,
           loop' = loop \/ loop'.at \notin Switching
           \/ (/\ loop.at \in Switching /\ loop'.key = loop.key /\ loop'.id = loop.id)
    PROVE  BindingsMatch' /\ LoopWants'
<1>1. BindingsMatch'
  BY SameMatch
<1>2. LoopWants'
  BY DEF BindInv, LoopWants
<1> QED
  BY <1>1, <1>2

(* A fresh binding to the model the client wants, in generation g.         *)
LEMMA BindMatch ==
    ASSUME BindInv, NEW table \in [Identity -> Binding \cup {None}], NEW i \in Identity,
           wants[i] = activeKey', wants' = wants, activeKey' \in Key,
           generation' \in Nat,
           sessions' = Bind(table, i, activeKey', generation'),
           \A j \in Identity : table[j] # None =>
               /\ table[j].key = wants[j] /\ table[j].gen <= generation'
               /\ table[j].gen = generation' => table[j].key = activeKey'
    PROVE  BindingsMatch'
<1> DEFINE b == [key |-> activeKey', gen |-> generation', recent |-> TRUE]
<1>1. b \in Binding /\ b.key = activeKey' /\ b.gen = generation'
  BY DEF Binding
<1>2. sessions' = [table EXCEPT ![i] = b]
  BY DEF Bind
<1>3. sessions'[i] = b /\ \A j \in Identity : j # i => sessions'[j] = table[j]
  BY <1>2
<1> HIDE DEF b
<1>4. \A j \in Identity :
          /\ Current(j)' => sessions'[j].key = activeKey'
          /\ sessions'[j] # None => sessions'[j].key = wants[j] /\ sessions'[j].gen <= generation'
  <2> TAKE j \in Identity
  <2>1. CASE j = i
    BY <1>1, <1>3, <2>1
  <2>2. CASE j # i
    BY <1>3, <2>2 DEF Current
  <2> QED
    BY <2>1, <2>2
<1> QED
  BY <1>4 DEF BindingsMatch

(* No step breaks the inductive invariant behind BindingsMatch.            *)
LEMMA NextBound == BindInv /\ [Next]_vars => BindingsMatch' /\ LoopWants'
<1> SUFFICES ASSUME BindInv, [Next]_vars PROVE BindingsMatch' /\ LoopWants'
  OBVIOUS
<1> USE DEF clients, frontend, worker
<1>0. TypeOK /\ BindingsMatch /\ LoopWants
  BY DEF BindInv
<1>1. ASSUME NEW i \in Identity, Quiesce(i) PROVE BindingsMatch' /\ LoopWants'
  <2>1. SameBindings
    BY <1>0, <1>1, TouchSame
  <2> QED
    BY <1>1, <2>1, SameStep DEF Quiesce
<1>2. ASSUME UNCHANGED <<wants, sessions, generation, activeKey>>,
             loop' = loop \/ loop'.at \notin Switching
             \/ (/\ loop.at \in Switching /\ loop'.key = loop.key /\ loop'.id = loop.id)
      PROVE  BindingsMatch' /\ LoopWants'
  <2>1. SameBindings
    BY <1>2 DEF SameBindings
  <2> QED
    BY <1>2, <2>1, SameStep
<1>3. ASSUME NEW i \in Identity, NEW kind \in Kinds, Receive(i, kind)
      PROVE  BindingsMatch' /\ LoopWants'
  BY <1>2, <1>3 DEF Receive
<1>4. ASSUME Expired PROVE BindingsMatch' /\ LoopWants'
  BY <1>2, <1>4 DEF Expired, ReplyModel, ReplyFrame
<1>5. ASSUME ModelRequest PROVE BindingsMatch' /\ LoopWants'
  <2>1. Head1.id \in Identity
    BY <1>0, <1>5, TakeTyped DEF ModelRequest, Kinds
  <2>2. SameBindings
    BY <1>0, <1>5, <2>1, TouchSame DEF ModelRequest
  <2>3. UNCHANGED <<wants, generation, activeKey, loop>>
    BY <1>5 DEF ModelRequest, ReplyModel
  <2> QED
    BY <2>2, <2>3, SameStep
<1>6. ASSUME NotPrepared \/ Unbound PROVE BindingsMatch' /\ LoopWants'
  BY <1>2, <1>6 DEF NotPrepared, Unbound, ReplyModel, ReplyFrame
<1>7. ASSUME IngestRaises \/ Infer PROVE BindingsMatch' /\ LoopWants'
  BY <1>2, <1>7 DEF IngestRaises, Infer, Switching
<1>8. ASSUME Prepared PROVE BindingsMatch' /\ LoopWants'
  <2> DEFINE i == Head1.id
             k == wants[i]
  <2>1. i \in Identity /\ loop = Idle
    BY <1>0, <1>8, TakeTyped DEF Prepared, Kinds
  <2>2. k \in Key
    BY <1>0, <2>1 DEF TypeOK
  <2>3. (activeKey = k /\ Bound(i, k)) \/ InUse(i) \/ TryActivate(i, k)
    BY <1>8 DEF Prepared
  <2>4. UNCHANGED <<generation, activeKey>>
    BY <1>8 DEF Prepared
  <2>5. k = wants[i]
    OBVIOUS
  <2> HIDE DEF i, k
  <2>6. CASE activeKey = k /\ Bound(i, k)
    <3>1. /\ sessions' = Bind(sessions, i, activeKey', generation')
          /\ UNCHANGED <<wants, loop>>
      BY <2>4, <2>6 DEF Bound, ReplyModel
    <3>2. \A j \in Identity : sessions[j] # None =>
               /\ sessions[j].key = wants[j] /\ sessions[j].gen <= generation'
               /\ sessions[j].gen = generation' => sessions[j].key = activeKey'
      BY <1>0, <2>4 DEF BindingsMatch, Current
    <3>3. sessions \in [Identity -> Binding \cup {None}] /\ generation' \in Nat
      BY <1>0, <2>4 DEF TypeOK
    <3>4. BindingsMatch'
      BY <2>1, <2>2, <2>4, <2>5, <2>6, <3>1, <3>2, <3>3, BindMatch
    <3>5. LoopWants'
      BY <1>0, <3>1 DEF LoopWants
    <3> QED
      BY <3>4, <3>5
  <2>7. CASE InUse(i)
    BY <1>2, <2>4, <2>7 DEF InUse, ReplyModel
  <2>8. CASE TryActivate(i, k)
    <3>1. CASE lease = None
      <4>1. /\ loop' = [at |-> "activating", id |-> i, key |-> k]
            /\ UNCHANGED <<wants, sessions>>
        BY <2>8, <3>1 DEF TryActivate
      <4>2. SameBindings
        BY <4>1 DEF SameBindings
      <4>3. BindingsMatch'
        BY <2>4, <4>1, <4>2, SameMatch
      <4>4. LoopWants'
        BY <2>5, <4>1 DEF LoopWants
      <4> QED
        BY <4>3, <4>4
    <3>2. CASE lease # None
      BY <1>2, <2>4, <2>8, <3>2 DEF TryActivate, ReplyModel
    <3> QED
      BY <3>1, <3>2
  <2> QED
    BY <2>3, <2>6, <2>7, <2>8
<1>9. ASSUME Swapped \/ Refused PROVE BindingsMatch' /\ LoopWants'
  <2>1. loop.at = "activating" /\ UNCHANGED <<wants, sessions, generation, activeKey>>
    BY <1>9 DEF Swapped, Refused
  <2>2. loop \in [at: Switching, id: Identity, key: Key]
    BY <1>0, <2>1 DEF TypeOK, LoopType, Idle, Switching
  <2>3. \E at \in {"activated", "refused"} : loop' = [loop EXCEPT !.at = at]
    BY <1>9 DEF Swapped, Refused
  <2>4. loop'.key = loop.key /\ loop'.id = loop.id
    BY <2>2, <2>3
  <2> QED
    BY <1>2, <2>1, <2>4 DEF Switching
<1>10. ASSUME ActivationFailed PROVE BindingsMatch' /\ LoopWants'
  BY <1>2, <1>10 DEF ActivationFailed, ReplyModel, Idle, Switching
<1>11. ASSUME Activated PROVE BindingsMatch' /\ LoopWants'
  <2> DEFINE kept == [i \in Identity |-> IF Current(i) THEN None ELSE sessions[i]]
  <2>1. loop.id \in Identity /\ loop.key \in Key
    BY <1>0, <1>11 DEF Activated, TypeOK, LoopType, Idle
  <2>2. loop.key = wants[loop.id]
    BY <1>0, <1>11 DEF Activated, LoopWants, Switching
  <2>3. activeKey' = loop.key /\ wants' = wants /\ loop' = Idle
    BY <1>11 DEF Activated, ReplyModel
  <2>4. /\ generation \in Nat /\ sessions \in [Identity -> Binding \cup {None}]
        /\ activeKey \in Key \cup {None}
    BY <1>0 DEF TypeOK
  <2>5. LoopWants'
    BY <2>3 DEF LoopWants, Idle, Switching
  <2>6. \A j \in Identity : sessions[j] # None =>
             /\ sessions[j].key = wants[j] /\ sessions[j].gen <= generation
             /\ sessions[j].key \in Key /\ sessions[j].gen \in Nat
             /\ sessions[j].gen = generation => sessions[j].key = activeKey
    BY <1>0, <2>4 DEF BindingsMatch, Current, Binding
  <2>7. CASE activeKey = None
    <3>1. sessions' = Bind(sessions, loop.id, activeKey', generation') /\ generation' = generation
      BY <1>11, <2>3, <2>7 DEF Activated
    <3>2. \A j \in Identity : sessions[j] # None => sessions[j].gen # generation
      BY <2>6, <2>7, FrontendAssumption
    <3>3. BindingsMatch'
      BY <2>1, <2>2, <2>3, <2>4, <2>6, <3>1, <3>2, BindMatch
    <3> QED
      BY <2>5, <3>3
  <2>8. CASE activeKey # None
    <3>1. /\ generation' = generation + 1
          /\ sessions' = Bind(kept, loop.id, activeKey', generation')
      BY <1>11, <2>3, <2>8 DEF Activated
    <3>2. kept \in [Identity -> Binding \cup {None}]
      BY <2>4
    <3>3. \A j \in Identity : kept[j] # None =>
               /\ kept[j].key = wants[j] /\ kept[j].gen <= generation'
               /\ kept[j].gen = generation' => kept[j].key = activeKey'
      BY <2>4, <2>6, <3>1 DEF Current
    <3> HIDE DEF kept
    <3>4. BindingsMatch'
      BY <2>1, <2>2, <2>3, <2>4, <3>1, <3>2, <3>3, BindMatch
    <3> QED
      BY <2>5, <3>4
  <2> QED
    BY <2>7, <2>8
<1>12. ASSUME Inferred PROVE BindingsMatch' /\ LoopWants'
  <2>1. loop.id \in Identity
    BY <1>0, <1>12 DEF Inferred, TypeOK, LoopType, Idle
  <2>2. SameBindings
    BY <1>0, <1>12, <2>1, TouchSame DEF Inferred
  <2>3. UNCHANGED <<wants, generation, activeKey>> /\ loop'.at \notin Switching
    BY <1>12 DEF Inferred, ReplyFrame, Idle, Switching
  <2> QED
    BY <2>2, <2>3, SameStep
<1>13. ASSUME WorkerLost \/ ProbeEnds PROVE BindingsMatch' /\ LoopWants'
  BY <1>2, <1>13 DEF WorkerLost, ProbeEnds
<1>14. ASSUME NEW k \in Key, AdminActivate(k) \/ ProbeStarts(k) \/ ProbeSkipped(k)
       PROVE  BindingsMatch' /\ LoopWants'
  BY <1>2, <1>14 DEF AdminActivate, ProbeStarts, ProbeSkipped
<1>15. CASE UNCHANGED vars
  BY <1>2, <1>15 DEF vars
<1> QED
  BY <1>1, <1>3, <1>4, <1>5, <1>6, <1>7, <1>8, <1>9, <1>10, <1>11, <1>12, <1>13, <1>14,
     <1>15 DEF Next, LoopStep

(* Over any sequence of transfers, switches and answers, a binding of the  *)
(* current generation is to the active artifact, and to the bytes its own  *)
(* client transferred.                                                     *)
THEOREM Bindings == Spec => []BindingsMatch
<1>1. Init => BindInv
  <2> SUFFICES ASSUME Init PROVE BindInv
    OBVIOUS
  <2>1. BindingsMatch /\ LoopWants
    BY DEF Init, BindingsMatch, Current, LoopWants, Idle, Switching
  <2> QED
    BY <2>1, InitTyped DEF BindInv
<1>2. BindInv /\ [Next]_vars => BindInv'
  BY NextTyped, NextBound DEF BindInv
<1>3. BindInv => BindingsMatch
  BY DEF BindInv
<1> QED
  BY <1>1, <1>2, <1>3, PTL DEF Spec

(***************************************************************************)
(* Whose result a client gets.  The binding is checked before the await;   *)
(* what makes the check good after it is that the worker task is the only  *)
(* one to switch, and is awaiting.  So the theorem is about a service that *)
(* no operator switches, and whose activations do not fail half-way.       *)
(***************************************************************************)

(* The inference under way is for a binding of the current generation ...  *)
InferBound == loop.at = "infer" => Current(loop.id)

(* ... and what serves is the active artifact, or the one being activated. *)
ServingKnown ==
    /\ loop.at = "activated" => serving = loop.key
    /\ loop.at # "activated" => serving \in {None, activeKey}

Right    == RightModel /\ InferBound /\ ServingKnown
RightInv == BindInv /\ Right

(* The results the clients hold are those they held, or none.              *)
SameResults == \A i \in Identity : last'[i].by \in {None, last[i].by}

(* A reply that names no result leaves every client with a result of its own model.*)
LEMMA ReplySame ==
    ASSUME TypeOK, NEW i \in Identity, NEW loaded \in BOOLEAN,
           ReplyModel(i, loaded) \/ ReplyFrame(i, None) \/ UNCHANGED last
    PROVE  SameResults
<1>1. last \in [Identity -> Reply]
  BY DEF TypeOK
<1>2. /\ [last[i] EXCEPT !.loaded = loaded].by = last[i].by
      /\ [last[i] EXCEPT !.by = None].by = None
  BY <1>1 DEF Reply
<1>3. CASE ReplyModel(i, loaded)
  <2>1. last' = [last EXCEPT ![i] = [last[i] EXCEPT !.loaded = loaded]]
    BY <1>1, <1>3 DEF ReplyModel
  <2> QED  BY <1>1, <1>2, <2>1 DEF SameResults
<1>4. CASE ReplyFrame(i, None)
  <2>1. last' = [last EXCEPT ![i] = [last[i] EXCEPT !.by = None]]
    BY <1>1, <1>4 DEF ReplyFrame
  <2> QED  BY <1>1, <1>2, <2>1 DEF SameResults
<1>5. CASE UNCHANGED last
  BY <1>5 DEF SameResults
<1> QED
  BY <1>3, <1>4, <1>5

(* A step that sends no reply keeps RightModel.                            *)
LEMMA SameRight ==
    ASSUME RightInv, SameResults, wants' = wants
    PROVE  RightModel'
BY DEF RightInv, Right, RightModel, SameResults

(* Steps that leave the worker task where it is.                           *)
LEMMA QuietStep ==
    ASSUME RightInv, SameResults, SameBindings,
           UNCHANGED <<wants, generation, activeKey, loop>>,
           serving' = serving \/ (serving' = None /\ loop.at # "activated"),
           loop.at = "infer" => loop.id \in Identity
    PROVE  Right'
<1>1. RightModel'
  BY SameRight
<1>2. InferBound'
  BY DEF RightInv, Right, InferBound, Current, SameBindings
<1>3. ServingKnown'
  BY DEF RightInv, Right, ServingKnown
<1> QED
  BY <1>1, <1>2, <1>3 DEF Right

(* Steps of the worker task that switch nothing and start no inference.    *)
LEMMA PlainStep ==
    ASSUME RightInv, SameResults, UNCHANGED <<wants, activeKey, serving>>,
           loop.at # "activated", loop'.at \notin {"infer", "activated"}
    PROVE  Right'
<1>1. RightModel'
  BY SameRight
<1> QED
  BY <1>1 DEF RightInv, Right, InferBound, ServingKnown

(* No step breaks the inductive invariant behind RightModel.               *)
LEMMA NextRight ==
    ASSUME ~AdminActivates, "record" \notin Faults, RightInv, [Next]_vars
    PROVE  Right'
<1> USE DEF clients, frontend, worker
<1>0. TypeOK /\ BindingsMatch /\ LoopWants /\ Right
  BY DEF RightInv, BindInv
<1>a. loop.at = "infer" => loop.id \in Identity
  BY <1>0 DEF TypeOK, LoopType, Idle
<1>b. sessions \in [Identity -> Binding \cup {None}] /\ last \in [Identity -> Reply]
  BY <1>0 DEF TypeOK
<1>1. ASSUME NEW i \in Identity, Quiesce(i) PROVE Right'
  <2>1. SameBindings
    BY <1>0, <1>1, TouchSame
  <2>2. SameResults /\ UNCHANGED <<wants, generation, activeKey, loop, serving>>
    BY <1>1 DEF Quiesce, SameResults
  <2> QED
    BY <1>a, <2>1, <2>2, QuietStep
<1>2. ASSUME NEW i \in Identity, NEW kind \in Kinds, Receive(i, kind) PROVE Right'
  <2>1. SameBindings /\ UNCHANGED <<wants, generation, activeKey, loop, serving>>
    BY <1>2 DEF Receive, SameBindings
  <2>2. last' = last \/ last' = [last EXCEPT ![i] = [loaded |-> @.loaded /\ kind = "infer",
                                                     by |-> None]]
    BY <1>2 DEF Receive
  <2>3. SameResults
    BY <1>b, <2>2 DEF SameResults
  <2> QED
    BY <1>a, <2>1, <2>3, QuietStep
<1>3. ASSUME Expired PROVE Right'
  <2>1. PICK kind \in Kinds :
          /\ Takes(kind)
          /\ ReplyFrame(Head1.id, None) \/ ReplyModel(Head1.id, FALSE)
    BY <1>3 DEF Expired
  <2>2. Head1.id \in Identity /\ loop = Idle
    BY <1>0, <2>1, TakeTyped
  <2>3. SameResults /\ wants' = wants
    BY <1>0, <2>1, <2>2, ReplySame DEF ReplyModel, ReplyFrame
  <2> QED
    BY <1>3, <2>2, <2>3, PlainStep DEF Expired, Idle
<1>4. ASSUME ModelRequest PROVE Right'
  <2>1. PICK loaded \in BOOLEAN : ReplyModel(Head1.id, loaded)
    BY <1>4 DEF ModelRequest, Current
  <2>2. Head1.id \in Identity /\ loop = Idle
    BY <1>0, <1>4, TakeTyped DEF ModelRequest, Kinds
  <2>3. SameResults /\ wants' = wants
    BY <1>0, <2>1, <2>2, ReplySame DEF ReplyModel
  <2> QED
    BY <1>4, <2>2, <2>3, PlainStep DEF ModelRequest, Idle
<1>5. ASSUME NotPrepared \/ Unbound PROVE Right'
  <2>1. Head1.id \in Identity /\ loop = Idle
    BY <1>0, <1>5, TakeTyped DEF NotPrepared, Unbound, Kinds
  <2>2. SameResults /\ wants' = wants
    BY <1>0, <1>5, <2>1, ReplySame DEF NotPrepared, Unbound, ReplyModel, ReplyFrame
  <2>3. UNCHANGED <<activeKey, serving, loop>>
    BY <1>5 DEF NotPrepared, Unbound
  <2>4. loop.at # "activated" /\ loop'.at \notin {"infer", "activated"}
    BY <2>1, <2>3 DEF Idle
  <2> QED
    BY <2>2, <2>3, <2>4, PlainStep
<1>6. ASSUME IngestRaises PROVE Right'
  <2>1. loop = Idle
    BY <1>0, <1>6, TakeTyped DEF IngestRaises, Kinds
  <2>2. SameResults
    BY <1>6 DEF IngestRaises, SameResults
  <2> QED
    BY <1>6, <2>1, <2>2, PlainStep DEF IngestRaises, Idle
<1>7. ASSUME Infer PROVE Right'
  <2>1. Head1.id \in Identity /\ loop = Idle
    BY <1>0, <1>7, TakeTyped DEF Infer, Kinds
  <2>2. SameResults /\ wants' = wants
    BY <1>7 DEF Infer, SameResults
  <2>3. RightModel'
    BY <2>2, SameRight
  <2>4. InferBound'
    BY <1>7 DEF Infer, InferBound, Current
  <2>5. ServingKnown'
    BY <1>0, <1>7, <2>1 DEF Infer, Right, ServingKnown, Idle
  <2> QED
    BY <2>3, <2>4, <2>5 DEF Right
<1>8. ASSUME Prepared PROVE Right'
  <2>1. Head1.id \in Identity /\ loop = Idle
    BY <1>0, <1>8, TakeTyped DEF Prepared, Kinds
  <2>2. UNCHANGED <<activeKey, serving>>
    BY <1>8 DEF Prepared
  <2>3. PICK k : Bound(Head1.id, k) \/ InUse(Head1.id) \/ TryActivate(Head1.id, k)
    BY <1>8 DEF Prepared
  <2>4. SameResults /\ wants' = wants
    <3>1. wants' = wants /\ (\/ ReplyModel(Head1.id, TRUE) \/ ReplyModel(Head1.id, FALSE)
                             \/ UNCHANGED last)
      BY <2>3 DEF Bound, InUse, TryActivate, ReplyModel
    <3> QED
      BY <1>0, <2>1, <3>1, ReplySame
  <2>5. loop'.at \notin {"infer", "activated"}
    <3>1. loop' = loop \/ loop'.at = "activating"
      <4>1. CASE TryActivate(Head1.id, k) /\ lease = None
        <5>1. loop' = [at |-> "activating", id |-> Head1.id, key |-> k]
          BY <4>1 DEF TryActivate
        <5> QED
          BY <5>1
      <4>2. CASE ~(TryActivate(Head1.id, k) /\ lease = None)
        BY <2>3, <4>2 DEF Bound, InUse, TryActivate
      <4> QED
        BY <4>1, <4>2
    <3> QED
      BY <2>1, <3>1 DEF Idle
  <2> QED
    BY <2>1, <2>2, <2>4, <2>5, PlainStep DEF Idle
<1>9. ASSUME Swapped PROVE Right'
  <2>1. loop \in [at: Switching, id: Identity, key: Key]
    BY <1>0, <1>9 DEF Swapped, TypeOK, LoopType, Idle, Switching
  <2>2. loop' = [loop EXCEPT !.at = "activated"]
    BY <1>9 DEF Swapped
  <2>3. loop'.at = "activated" /\ loop'.key = loop.key
    BY <2>1, <2>2
  <2>4. serving' = loop.key /\ wants' = wants /\ SameResults
    BY <1>9 DEF Swapped, Worker!Activate, SameResults
  <2>5. RightModel'
    BY <2>4, SameRight
  <2> QED
    BY <2>3, <2>4, <2>5 DEF Right, InferBound, ServingKnown
<1>10. ASSUME Refused PROVE Right'
  <2>1. loop \in [at: Switching, id: Identity, key: Key] /\ loop.at = "activating"
    BY <1>0, <1>10 DEF Refused, TypeOK, LoopType, Idle, Switching
  <2>2. loop'.at = "refused"
    BY <1>10, <2>1 DEF Refused
  <2>3. SameResults
    BY <1>10 DEF Refused, SameResults
  <2> QED
    BY <1>10, <2>1, <2>2, <2>3, PlainStep DEF Refused
<1>11. ASSUME ActivationFailed PROVE Right'
  <2>1. loop.id \in Identity
    BY <1>0, <1>11 DEF ActivationFailed, TypeOK, LoopType, Idle
  <2>2. SameResults /\ wants' = wants
    BY <1>0, <1>11, <2>1, ReplySame DEF ActivationFailed, ReplyModel
  <2> QED
    BY <1>11, <2>2, PlainStep DEF ActivationFailed, Idle
<1>12. ASSUME Activated PROVE Right'
  <2>1. loop.id \in Identity
    BY <1>0, <1>12 DEF Activated, TypeOK, LoopType, Idle
  <2>2. SameResults /\ wants' = wants
    BY <1>0, <1>12, <2>1, ReplySame DEF Activated, ReplyModel
  <2>3. RightModel'
    BY <2>2, SameRight
  <2>4. serving' = activeKey' /\ loop' = Idle
    BY <1>0, <1>12 DEF Activated, Right, ServingKnown
  <2> QED
    BY <2>3, <2>4 DEF Right, InferBound, ServingKnown, Idle
<1>13. ASSUME Inferred PROVE Right'
  <2>1. /\ loop.id \in Identity /\ loop' = Idle /\ wants' = wants
        /\ activeKey' = activeKey /\ loop.at = "infer"
    BY <1>a, <1>13 DEF Inferred, ReplyFrame
  <2>2. serving' = serving /\ answer'.by \in {None, serving}
    BY <1>13 DEF Inferred, Worker!Answer, Worker!Refuse, Worker!NoResult
  <2>3. Current(loop.id) /\ serving \in {None, activeKey}
    BY <1>0, <2>1 DEF Right, InferBound, ServingKnown
  <2>4. activeKey = wants[loop.id]
    BY <1>0, <2>1, <2>3 DEF BindingsMatch, Current
  <2>5. last' = [last EXCEPT ![loop.id] = [last[loop.id] EXCEPT !.by = answer'.by]]
    BY <1>b, <1>13, <2>1 DEF Inferred, ReplyFrame
  <2>6. [last[loop.id] EXCEPT !.by = answer'.by].by \in {None, wants[loop.id]}
    BY <1>b, <2>1, <2>2, <2>3, <2>4 DEF Reply
  <2>7. RightModel'
    BY <1>0, <1>b, <2>1, <2>5, <2>6 DEF Right, RightModel
  <2> QED
    BY <2>1, <2>2, <2>3, <2>7 DEF Right, InferBound, ServingKnown, Idle
<1>14. ASSUME WorkerLost \/ ProbeEnds PROVE Right'
  <2>1. SameBindings /\ SameResults /\ UNCHANGED <<wants, generation, activeKey, loop>>
    BY <1>14 DEF WorkerLost, ProbeEnds, SameBindings, SameResults
  <2>2. serving' = serving \/ (serving' = None /\ loop.at # "activated")
    BY <1>14 DEF WorkerLost, ProbeEnds, Worker!Lose
  <2> QED
    BY <1>a, <2>1, <2>2, QuietStep
<1>15. ASSUME NEW k \in Key, ProbeStarts(k) \/ ProbeSkipped(k) PROVE Right'
  <2>1. SameBindings /\ SameResults /\ UNCHANGED <<wants, generation, activeKey, loop, serving>>
    BY <1>15 DEF ProbeStarts, ProbeSkipped, SameBindings, SameResults
  <2> QED
    BY <1>a, <2>1, QuietStep
<1>16. ASSUME NEW k \in Key, AdminActivate(k) PROVE Right'
  BY <1>16 DEF AdminActivate
<1>17. CASE UNCHANGED vars
  <2>1. SameBindings /\ SameResults /\ UNCHANGED <<wants, generation, activeKey, loop, serving>>
    BY <1>17 DEF vars, SameBindings, SameResults
  <2> QED
    BY <1>a, <2>1, QuietStep
<1> QED
  BY <1>1, <1>2, <1>3, <1>4, <1>5, <1>6, <1>7, <1>8, <1>9, <1>10, <1>11, <1>12, <1>13,
     <1>14, <1>15, <1>16, <1>17 DEF Next, LoopStep

(* While no operator switches models and no activation fails after its     *)
(* swap, a client only ever gets results of the model whose bytes it       *)
(* transferred, although its binding was checked before the await: what    *)
(* _handle_infer and _handle_prepared rely on.                             *)
THEOREM RightResults ==
    ASSUME ~AdminActivates, "record" \notin Faults
    PROVE  Spec => []RightModel
<1>1. Init => RightInv
  <2> SUFFICES ASSUME Init PROVE RightInv
    OBVIOUS
  <2>1. BindingsMatch /\ LoopWants
    BY DEF Init, BindingsMatch, Current, LoopWants, Idle, Switching
  <2>2. Right
    BY DEF Init, Worker!Init, Right, RightModel, InferBound, ServingKnown, Idle
  <2> QED
    BY <2>1, <2>2, InitTyped DEF RightInv, BindInv
<1>2. RightInv /\ [Next]_vars => RightInv'
  BY NextTyped, NextBound, NextRight DEF RightInv, BindInv
<1>3. RightInv => RightModel
  BY DEF RightInv, Right
<1> QED
  BY <1>1, <1>2, <1>3, PTL DEF Spec

(***************************************************************************)
(* When the model is switched.                                             *)
(***************************************************************************)

(* What was quiescent when the activation began is so while it lasts.      *)
QuietInv == loop.at \in Switching /\ activeKey # None => Quiescent

(* Only the steps of the worker task begin an activation or end one.       *)
LEMMA NextQuiet ==
    ASSUME TypeOK, QuietInv, [Next]_vars
    PROVE  QuietInv' /\ (generation' # generation => Quiescent)
<1> DEFINE Goal == QuietInv' /\ (generation' # generation => Quiescent)
<1> SUFFICES Goal
  OBVIOUS
<1> USE DEF clients, frontend, worker
<1>1. ASSUME NEW i \in Identity, Quiesce(i) PROVE Goal
  <2>1. sessions' = [sessions EXCEPT ![i] = [sessions[i] EXCEPT !.recent = FALSE]]
    BY <1>1 DEF Quiesce, TypeOK
  <2>2. sessions \in [Identity -> Binding \cup {None}] /\ sessions[i] \in Binding
    BY <1>1 DEF Quiesce, TypeOK
  <2>3. /\ [sessions[i] EXCEPT !.recent = FALSE].gen = sessions[i].gen
        /\ [sessions[i] EXCEPT !.recent = FALSE].recent = FALSE
    BY <2>2 DEF Binding
  <2>4. UNCHANGED <<loop, activeKey, generation>> /\ sessions[i] # None
    BY <1>1 DEF Quiesce
  <2>5. \A j \in Identity : sessions'[j] = sessions[j] \/ sessions'[j].recent = FALSE
    BY <2>1, <2>2, <2>3
  <2>6. \A j \in Identity : j # i => sessions'[j] = sessions[j]
    BY <2>1, <2>2
  <2>7. Quiescent => Quiescent'
    BY <2>4, <2>5, <2>6 DEF Quiescent, Current
  <2> QED
    BY <2>4, <2>7 DEF QuietInv
<1>2. ASSUME UNCHANGED <<sessions, generation, activeKey>>,
             loop' = loop \/ loop'.at \notin Switching
             \/ (loop.at \in Switching /\ loop'.at \in Switching)
      PROVE  Goal
  BY <1>2 DEF QuietInv, Quiescent, Current
<1>3. ASSUME loop' = loop, loop = Idle, UNCHANGED <<generation, activeKey>>
      PROVE  Goal
  BY <1>3 DEF QuietInv, Idle, Switching
<1>4. ASSUME NEW i \in Identity, NEW kind \in Kinds, Receive(i, kind) PROVE Goal
  BY <1>2, <1>4 DEF Receive
<1>5. ASSUME Expired \/ NotPrepared \/ Unbound PROVE Goal
  BY <1>2, <1>5 DEF Expired, NotPrepared, Unbound
<1>6. ASSUME ModelRequest PROVE Goal
  <2>1. loop = Idle
    BY <1>6, TakeTyped DEF ModelRequest, Kinds
  <2> QED
    BY <1>3, <1>6, <2>1 DEF ModelRequest
<1>7. ASSUME IngestRaises \/ Infer PROVE Goal
  BY <1>2, <1>7 DEF IngestRaises, Infer, Switching
<1>8. ASSUME Prepared PROVE Goal
  <2>1. loop = Idle /\ UNCHANGED <<generation, activeKey>>
    BY <1>8, TakeTyped DEF Prepared, Kinds
  <2>2. PICK i, k : \/ Bound(i, k) \/ InUse(i)
                    \/ (TryActivate(i, k) /\ (activeKey = None \/ Quiescent))
    BY <1>8 DEF Prepared
  <2>3. CASE Bound(i, k) \/ InUse(i)
    <3>1. loop' = loop
      BY <2>3 DEF Bound, InUse
    <3> QED
      BY <1>3, <2>1, <3>1
  <2>4. CASE TryActivate(i, k) /\ (activeKey = None \/ Quiescent)
    <3>1. sessions' = sessions
      BY <2>4 DEF TryActivate
    <3> QED
      BY <2>1, <2>4, <3>1 DEF QuietInv, Quiescent, Current
  <2> QED
    BY <2>2, <2>3, <2>4
<1>9. ASSUME Swapped \/ Refused PROVE Goal
  <2>1. /\ loop \in [at: Switching, id: Identity, key: Key]
        /\ UNCHANGED <<sessions, generation, activeKey>>
    BY <1>9 DEF Swapped, Refused, TypeOK, LoopType, Idle, Switching
  <2>2. \E at \in {"activated", "refused"} : loop' = [loop EXCEPT !.at = at]
    BY <1>9 DEF Swapped, Refused
  <2>3. loop'.at \in Switching
    BY <2>1, <2>2 DEF Switching
  <2> QED
    BY <1>2, <2>1, <2>3
<1>10. ASSUME ActivationFailed PROVE Goal
  BY <1>2, <1>10 DEF ActivationFailed, Idle, Switching
<1>11. ASSUME Activated PROVE Goal
  <2>1. loop' = Idle /\ loop.at \in Switching
    BY <1>11 DEF Activated, Switching
  <2>2. generation' # generation => activeKey # None
    BY <1>11 DEF Activated
  <2> QED
    BY <2>1, <2>2 DEF QuietInv, Idle, Switching
<1>12. ASSUME Inferred PROVE Goal
  BY <1>12 DEF Inferred, QuietInv, Idle, Switching
<1>13. ASSUME WorkerLost \/ ProbeEnds PROVE Goal
  BY <1>2, <1>13 DEF WorkerLost, ProbeEnds
<1>14. ASSUME NEW k \in Key, AdminActivate(k) \/ ProbeStarts(k) \/ ProbeSkipped(k)
       PROVE  Goal
  BY <1>2, <1>14 DEF AdminActivate, ProbeStarts, ProbeSkipped
<1>15. CASE UNCHANGED vars
  BY <1>2, <1>15 DEF vars
<1> HIDE DEF Goal
<1> QED
  BY <1>1, <1>4, <1>5, <1>6, <1>7, <1>8, <1>9, <1>10, <1>11, <1>12, <1>13, <1>14, <1>15
  DEF Next, LoopStep

(* A model is superseded only when none of its clients has used it for     *)
(* QUIESCENCE_S, although has_active_traffic is asked before the awaits of *)
(* the activation and the switch made after them.                          *)
THEOREM QuietSwitch == Spec => SwitchWhenQuiescent
<1>1. Init => QuietInv
  BY DEF Init, QuietInv, Idle, Switching
<1>2. TypeOK /\ QuietInv /\ [Next]_vars => QuietInv'
  BY NextQuiet
<1>3. TypeOK /\ QuietInv /\ [Next]_vars => [generation' # generation => Quiescent]_vars
  BY NextQuiet
<1> QED
  BY <1>1, <1>2, <1>3, TypeCorrect, PTL DEF Spec, SwitchWhenQuiescent
(***************************************************************************)
(* One reply to each request.  OneReply counts; what is inductive is that  *)
(* a client has at most one request, in the queue or in the hands of the   *)
(* worker task, and that it is owed a reply exactly when it has one.       *)
(***************************************************************************)

Waits(i) == \E n \in 1..Len(queue) : queue[n].id = i

Holds(i) == Busy /\ loop.id = i

OnceQueued == \A m, n \in 1..Len(queue) : queue[m].id = queue[n].id => m = n

OwedOnce ==
    \A i \in Identity : /\ ~(Waits(i) /\ Holds(i))
                        /\ owed[i] = IF Waits(i) \/ Holds(i) THEN 1 ELSE 0

ReplyInv == loop.at # "dead" => OnceQueued /\ OwedOnce

(* A request that is received goes to the end of the queue.                *)
LEMMA ReceiveKeepsOne ==
    ASSUME TypeOK, ReplyInv, loop.at # "dead", NEW i \in Identity, NEW kind \in Kinds,
           owed[i] = 0, queue' = Append(queue, [id |-> i, kind |-> kind]),
           owed' = [owed EXCEPT ![i] = @ + 1], UNCHANGED loop
    PROVE  ReplyInv'
<1>1. queue \in Seq(Request) /\ owed \in [Identity -> Int] /\ Len(queue) \in Nat
  BY DEF TypeOK
<1>2. ~Waits(i) /\ ~Holds(i)
  BY DEF ReplyInv, OwedOnce
<1>3. /\ Len(queue') = Len(queue) + 1 /\ queue'[Len(queue) + 1].id = i
      /\ \A n \in 1..Len(queue) : queue'[n] = queue[n]
  BY <1>1
<1>4. OnceQueued'
  BY <1>1, <1>2, <1>3 DEF ReplyInv, OnceQueued, Waits
<1>5. \A j \in Identity : (Waits(j)' <=> Waits(j) \/ j = i) /\ (Holds(j)' <=> Holds(j))
  <2>1. \A j \in Identity : Waits(j) => Waits(j)'
    BY <1>1, <1>3 DEF Waits
  <2>2. Waits(i)'
    BY <1>1, <1>3 DEF Waits
  <2>3. \A j \in Identity : Waits(j)' => Waits(j) \/ j = i
    BY <1>1, <1>3 DEF Waits
  <2> QED
    BY <2>1, <2>2, <2>3 DEF Holds, Busy
<1>6. \A j \in Identity : owed'[j] = IF j = i THEN 1 ELSE owed[j]
  BY <1>1
<1>7. OwedOnce'
  BY <1>2, <1>5, <1>6 DEF ReplyInv, OwedOnce
<1> QED
  BY <1>4, <1>7 DEF ReplyInv

(* The request the worker task takes was its client's only one.            *)
LEMMA TakenWasOne ==
    ASSUME TypeOK, ReplyInv, NEW kind \in Kinds, Takes(kind)
    PROVE  /\ loop = Idle /\ Head1.id \in Identity /\ OnceQueued /\ OnceQueued' /\ OwedOnce
           /\ Waits(Head1.id)
           /\ \A j \in Identity : /\ Waits(j)' <=> Waits(j) /\ j # Head1.id
                                  /\ ~Holds(j)
<1>1. /\ queue \in Seq(Request) /\ queue # <<>> /\ queue' = Tail(queue) /\ loop = Idle
      /\ Head1.id \in Identity
  BY TakeTyped DEF TypeOK, Takes
<1>2. OnceQueued /\ OwedOnce /\ ~Busy
  BY <1>1 DEF ReplyInv, Idle, Busy
<1>3. /\ Len(queue) \in Nat /\ Len(queue) > 0 /\ Head1 = queue[1]
      /\ Len(queue') = Len(queue) - 1
      /\ \A n \in 1..Len(queue) - 1 : queue'[n] = queue[n + 1]
  BY <1>1 DEF Head1
<1>4. OnceQueued'
  <2> SUFFICES ASSUME NEW m \in 1..Len(queue) - 1, NEW n \in 1..Len(queue) - 1,
                      queue[m + 1].id = queue[n + 1].id
               PROVE  m = n
    BY <1>3 DEF OnceQueued
  <2>1. m + 1 \in 1..Len(queue) /\ n + 1 \in 1..Len(queue)
    BY <1>3
  <2>2. m + 1 = n + 1
    BY <1>2, <2>1 DEF OnceQueued
  <2> QED
    BY <2>2
<1>5. ASSUME NEW j \in Identity PROVE Waits(j)' <=> Waits(j) /\ j # Head1.id
  <2>1. ASSUME Waits(j)' PROVE Waits(j) /\ j # Head1.id
    <3>1. PICK n \in 1..Len(queue) - 1 : queue[n + 1].id = j
      BY <1>3, <2>1 DEF Waits
    <3>2. n + 1 \in 1..Len(queue) /\ 1 \in 1..Len(queue) /\ n + 1 # 1
      BY <1>3
    <3> QED
      BY <1>2, <1>3, <3>1, <3>2 DEF OnceQueued, Waits
  <2>2. ASSUME Waits(j), j # Head1.id PROVE Waits(j)'
    <3>1. PICK n \in 1..Len(queue) : queue[n].id = j
      BY <2>2 DEF Waits
    <3>2. n - 1 \in 1..Len(queue) - 1 /\ (n - 1) + 1 = n
      BY <1>3, <2>2, <3>1
    <3> QED
      BY <1>3, <3>1, <3>2 DEF Waits
  <2> QED
    BY <2>1, <2>2
<1>6. Waits(Head1.id)
  <2> 1 \in 1..Len(queue)
    BY <1>3
  <2> QED
    BY <1>3 DEF Waits
<1> QED
  BY <1>1, <1>2, <1>4, <1>5, <1>6 DEF Holds

(* A reply in the place where the request was taken ...                    *)
LEMMA AnsweredAtOnce ==
    ASSUME TypeOK, ReplyInv, NEW kind \in Kinds, Takes(kind), UNCHANGED loop,
           owed' = [owed EXCEPT ![Head1.id] = @ - 1]
    PROVE  ReplyInv'
<1>1. \A j \in Identity : owed'[j] = IF j = Head1.id THEN owed[j] - 1 ELSE owed[j]
  BY DEF TypeOK
<1>2. \A j \in Identity : ~Holds(j)'
  BY TakenWasOne DEF Holds, Busy
<1>3. OwedOnce'
  BY <1>1, <1>2, TakenWasOne DEF OwedOnce
<1> QED
  BY <1>3, TakenWasOne DEF ReplyInv

(* ... the request goes into the hands of the task ...                     *)
LEMMA TakenInHand ==
    ASSUME TypeOK, ReplyInv, NEW kind \in Kinds, Takes(kind), UNCHANGED owed,
           loop'.at \in {"activating", "infer"}, loop'.id = Head1.id
    PROVE  ReplyInv'
<1>1. \A j \in Identity : Holds(j)' <=> j = Head1.id
  BY DEF Holds, Busy
<1>2. OwedOnce'
  BY <1>1, TakenWasOne DEF OwedOnce
<1> QED
  BY <1>2, TakenWasOne DEF ReplyInv

(* ... and is answered after its awaits.                                   *)
LEMMA AnsweredFromHand ==
    ASSUME TypeOK, ReplyInv, Busy, UNCHANGED queue, loop' = Idle,
           owed' = [owed EXCEPT ![loop.id] = @ - 1]
    PROVE  ReplyInv'
<1>1. loop.id \in Identity /\ loop.at # "dead"
  BY DEF TypeOK, LoopType, Busy, Idle
<1>2. \A j \in Identity : owed'[j] = IF j = loop.id THEN owed[j] - 1 ELSE owed[j]
  BY <1>1 DEF TypeOK
<1>3. \A j \in Identity : ~Holds(j)' /\ (Waits(j)' <=> Waits(j))
  BY DEF Holds, Busy, Waits, Idle
<1>4. OwedOnce'
  BY <1>1, <1>2, <1>3 DEF ReplyInv, OwedOnce, Holds
<1>5. OnceQueued'
  BY <1>1 DEF ReplyInv, OnceQueued
<1> QED
  BY <1>4, <1>5 DEF ReplyInv

(* A step that moves no request and sends no reply.                        *)
LEMMA NothingAnswered ==
    ASSUME ReplyInv, UNCHANGED <<queue, owed>>,
           \/ UNCHANGED loop
           \/ Busy /\ Busy' /\ loop'.id = loop.id
    PROVE  ReplyInv'
<1>1. \A j \in Identity : (Holds(j)' <=> Holds(j)) /\ (Waits(j)' <=> Waits(j))
  BY DEF Holds, Busy, Waits
<1>2. loop'.at # "dead" => loop.at # "dead"
  BY DEF Busy
<1> QED
  BY <1>1, <1>2 DEF ReplyInv, OwedOnce, OnceQueued

(* Every step of the frontend answers the request it ends, and no other.   *)
LEMMA NextReplies == TypeOK /\ ReplyInv /\ [Next]_vars => ReplyInv'
<1> SUFFICES ASSUME TypeOK, ReplyInv, [Next]_vars PROVE ReplyInv'
  OBVIOUS
<1> USE DEF clients, frontend, worker
<1>1. ASSUME NEW i \in Identity, Quiesce(i) PROVE ReplyInv'
  BY <1>1, NothingAnswered DEF Quiesce
<1>2. ASSUME NEW i \in Identity, NEW kind \in Kinds, Receive(i, kind) PROVE ReplyInv'
  <2>1. CASE loop.at = "dead"
    BY <1>2, <2>1 DEF Receive, ReplyInv
  <2>2. CASE loop.at # "dead" /\ UNCHANGED <<owed, queue>>
    BY <1>2, <2>2, NothingAnswered DEF Receive
  <2>3. CASE loop.at # "dead" /\ ~UNCHANGED <<owed, queue>>
    BY <1>2, <2>3, ReceiveKeepsOne DEF Receive
  <2> QED
    BY <2>1, <2>2, <2>3
<1>3. CASE Expired
  BY <1>3, AnsweredAtOnce DEF Expired, ReplyFrame, ReplyModel
<1>4. CASE ModelRequest
  <2> "available" \in Kinds
    BY DEF Kinds
  <2> QED
    BY <1>4, AnsweredAtOnce DEF ModelRequest, ReplyModel
<1>5. CASE NotPrepared
  <2> "transfer" \in Kinds
    BY DEF Kinds
  <2> QED
    BY <1>5, AnsweredAtOnce DEF NotPrepared, ReplyModel
<1>6. CASE IngestRaises
  BY <1>6 DEF IngestRaises, ReplyInv
<1>7. CASE Prepared
  <2> "transfer" \in Kinds
    BY DEF Kinds
  <2>1. \/ UNCHANGED loop /\ owed' = [owed EXCEPT ![Head1.id] = @ - 1]
        \/ UNCHANGED owed /\ loop' = [at |-> "activating", id |-> Head1.id,
                                     key |-> wants[Head1.id]]
    BY <1>7 DEF Prepared, Bound, InUse, TryActivate, ReplyModel
  <2> QED
    BY <1>7, <2>1, AnsweredAtOnce, TakenInHand DEF Prepared
<1>8. CASE Swapped \/ Refused
  <2>1. /\ loop \in [at: {"activating"}, id: Identity, key: Key]
        /\ \E at \in {"activated", "refused"} : loop' = [loop EXCEPT !.at = at]
        /\ UNCHANGED <<queue, owed>>
    BY <1>8 DEF Swapped, Refused, TypeOK, LoopType, Idle
  <2> QED
    BY <2>1, NothingAnswered DEF Busy
<1>9. CASE ActivationFailed
  BY <1>9, AnsweredFromHand DEF ActivationFailed, ReplyModel, Busy
<1>10. CASE Activated
  BY <1>10, AnsweredFromHand DEF Activated, ReplyModel, Busy
<1>11. CASE Unbound
  <2> "infer" \in Kinds
    BY DEF Kinds
  <2> QED
    BY <1>11, AnsweredAtOnce DEF Unbound, ReplyFrame
<1>12. CASE Infer
  <2> "infer" \in Kinds
    BY DEF Kinds
  <2> QED
    BY <1>12, TakenInHand DEF Infer
<1>13. CASE Inferred
  BY <1>13, AnsweredFromHand DEF Inferred, ReplyFrame, Busy
<1>14. CASE WorkerLost \/ ProbeEnds
  BY <1>14, NothingAnswered DEF WorkerLost, ProbeEnds
<1>15. ASSUME NEW k \in Key, AdminActivate(k) \/ ProbeStarts(k) \/ ProbeSkipped(k)
       PROVE  ReplyInv'
  BY <1>15, NothingAnswered DEF AdminActivate, ProbeStarts, ProbeSkipped
<1>16. CASE UNCHANGED vars
  BY <1>16, NothingAnswered DEF vars
<1> QED
  BY <1>1, <1>2, <1>3, <1>4, <1>5, <1>6, <1>7, <1>8, <1>9, <1>10, <1>11, <1>12, <1>13,
     <1>14, <1>15, <1>16
  DEF Next, LoopStep

(* What is counted is 0 or 1.                                              *)
LEMMA CountsOnce ==
    ASSUME TypeOK, OnceQueued, OwedOnce, NEW i \in Identity
    PROVE  owed[i] = Pending(i)
<1> DEFINE Mine == {n \in 1..Len(queue) : queue[n].id = i}
<1>1. Waits(i) => Cardinality(Mine) = 1
  <2> SUFFICES ASSUME Waits(i) PROVE Cardinality(Mine) = 1
    OBVIOUS
  <2>1. PICK n \in 1..Len(queue) : queue[n].id = i
    BY DEF Waits
  <2>2. Mine = {n}
    BY <2>1 DEF OnceQueued
  <2> QED
    BY <2>2, FS_Singleton
<1>2. ~Waits(i) => Cardinality(Mine) = 0
  BY FS_EmptySet DEF Waits
<1>3. Pending(i) = Cardinality(Mine) + (IF Holds(i) THEN 1 ELSE 0)
  BY DEF Pending, Holds
<1> HIDE DEF Mine
<1> QED
  BY <1>1, <1>2, <1>3 DEF OwedOnce

(* Whatever branch a request takes - refused, expired, in use, activated   *)
(* or refused after an await - its client gets one reply, as long as the   *)
(* worker task lives (_worker_loop and the handlers' early returns).       *)
THEOREM RepliesOnce == Spec => []OneReply
<1>1. Init => ReplyInv
  BY DEF Init, ReplyInv, OnceQueued, OwedOnce, Waits, Holds, Busy, Idle
<1>2. TypeOK /\ ReplyInv => OneReply
  BY CountsOnce DEF ReplyInv, OneReply
<1> QED
  BY <1>1, <1>2, NextReplies, TypeCorrect, PTL DEF Spec

=============================================================================
