-------------------------- MODULE ResidentWorker_proof --------------------------
(***************************************************************************)
(* Proofs about the resident worker, for any number of keys, children,     *)
(* frames and deaths, and any combination of faults.                       *)
(***************************************************************************)
EXTENDS ResidentWorker, TLAPS

ChildType == [state: {"unborn", "up", "stuck", "dead"},
              model: Key \cup {None}, gen: Nat, peer: BOOLEAN,
              inbox: Seq(Requests), outbox: Seq(Replies)]

(* Where the holder of the lock is, and what it holds there.               *)
Shaped ==
    /\ op.at = "idle" => op = Idle
    /\ op.at \in {"spawn", "load", "publish", "infer"} => op.why = "none"
    /\ op.at \in {"spawn", "load"} => op.key \in Key
    /\ op.at \in {"retire", "reap"} =>
         /\ op.child \in mine
         /\ op.why \in {"refused", "rollback", "replaced", "lost", "stop"}
         /\ op.why \in {"refused", "replaced"} => op.child # worker
         /\ op.why = "rollback" => op.child = worker
    /\ op.at = "restore" => op.why = "rollback"
    /\ op.at = "inhibit" => op.why \in {"none", "refused", "lost", "rollback"}
    /\ op.at = "stop" => op.why \in {"none", "stop"}
    /\ op.at = "infer" => worker # 0
    /\ op.why \in {"lost", "stop"} => worker = 0
    /\ op.infer => op.at = "infer" \/ op.why = "lost"
    /\ op.at = "publish" \/ (op.why = "rollback" /\ op.at # "inhibit")
         => worker \in mine /\ op.old # worker
    /\ op.why = "rollback" /\ op.at = "inhibit"
         => worker = op.old /\ workerKey = op.oldKey /\ workerGen = op.oldGen

(* The processes of this life of the daemon.                               *)
Known ==
    /\ orphans \subseteq mine
    /\ \A c \in mine : child[c].state # "unborn"
    /\ daemon = "down" => worker = 0 /\ mine = {} /\ op = Idle

(* No frame is answered, or asked about, before it is sent.                *)
Past(p, n) ==
    /\ \A i \in 1..Len(p.inbox) : p.inbox[i].frame <= n
    /\ \A i \in 1..Len(p.outbox) : p.outbox[i].of <= n

Sent == \A c \in Child : Past(child[c], Asked)

(* Without deadlines a stream holds at most the exchange under way, which  *)
(* is that of the frame n when waiting; what a process that hangs or is    *)
(* dead has not read, it never will.                                       *)
Orderly(p, waiting, n) ==
    IF waiting
    THEN /\ \/ p.outbox = <<>>
            \/ /\ Len(p.outbox) = 1
               /\ p.outbox[1].type = "RESULT" /\ p.outbox[1].code = "OK" => p.outbox[1].of = n
         /\ p.state = "up" /\ p.inbox # <<>> =>
              /\ p.outbox = <<>> /\ Len(p.inbox) = 1
              /\ p.inbox[1].type = "INFER" /\ p.inbox[1].frame = n
    ELSE p.outbox = <<>> /\ (p.state = "up" => p.inbox = <<>>)

(* The process p can be asked, and answers with the model k.               *)
Answers(p, k, g, waiting, n) ==
    /\ k \in Key
    /\ p.peer /\ p.model = k /\ p.gen = g
    /\ \A i \in 1..Len(p.inbox) : p.inbox[i].type # "LOAD"
    /\ \A i \in 1..Len(p.outbox) :
         p.outbox[i].type = "RESULT" /\ p.outbox[i].code = "OK" => p.outbox[i].by = k
    /\ Timeouts = {} => Orderly(p, waiting, n)

Serves(c, k, g) ==
    IF c = 0 THEN k = None
    ELSE c \in mine /\ c \notin orphans /\ Answers(child[c], k, g, op.at = "infer", Asked)

(* A child between the spawn and the reply to its LOAD.                    *)
Confirms(p, k, g) ==
    /\ p.peer
    /\ \/ p.inbox = <<Load(k, g)>> /\ p.outbox = <<>>
       \/ /\ p.inbox = <<>> /\ p.outbox = <<Status("OK")>>
          /\ p.model = k /\ p.gen = g
       \/ p.inbox = <<>> /\ p.outbox = <<Status("INVALID_MODEL")>>
       \/ p.state = "dead" /\ p.inbox = <<>> /\ p.outbox = <<>>

Loading(c, k, g) ==
    c \in mine /\ c \notin orphans /\ c # worker /\ Confirms(child[c], k, g)

Broken == op.why = "rollback" /\ op.at \in {"reap", "restore"}

Residents ==
    /\ ~Broken => Serves(worker, workerKey, workerGen)
    /\ Switching => Serves(op.old, op.oldKey, op.oldGen)
    /\ op.at = "load" => Loading(op.child, op.key, workerGen + 1)

(* The row of the registry is the one that serves.                         *)
Published ==
    IF Switching THEN op.old # 0 => active = [key |-> op.oldKey, gen |-> op.oldGen]
    ELSE worker # 0 => active = [key |-> workerKey, gen |-> workerGen]

(* Every live child is in the hands of somebody who will not forget it.    *)
Tracked ==
    daemon = "up" /\ "stop" \notin {op.at, op.why} =>
        \A c \in mine : Alive(c) =>
            \/ c \in orphans
            \/ c = worker /\ op.at # "restore"
            \/ c = op.child /\ op.at \in {"load", "retire", "reap"}
            \/ c = op.old /\ Switching

WorkerInv == /\ TypeOK /\ Shaped /\ Known /\ Sent /\ Residents /\ Published /\ Tracked

USE ResidentWorkerAssumption DEF Child

(***************************************************************************)
(* What a step does to the processes.                                      *)

LEMMA IdleIs ==
    /\ Idle \in OpType
    /\ Idle.at = "idle" /\ Idle.why = "none" /\ Idle.key = None /\ Idle.child = 0
    /\ Idle.old = 0 /\ Idle.oldKey = None /\ Idle.oldGen = 0
    /\ Idle.safety = FALSE /\ Idle.infer = FALSE
BY DEF Idle, OpType

LEMMA UnbornIs ==
    /\ Unborn \in ChildType
    /\ Unborn.state = "unborn" /\ Unborn.model = None /\ Unborn.gen = 0
    /\ Unborn.peer = FALSE /\ Unborn.inbox = <<>> /\ Unborn.outbox = <<>>
BY DEF Unborn, ChildType

LEMMA BornIs ==
    ASSUME NEW k \in Key, NEW g \in Nat
    PROVE  /\ Born(k, g) \in ChildType
           /\ Born(k, g).state = "up" /\ Born(k, g).peer
           /\ Born(k, g).inbox = <<Load(k, g)>> /\ Born(k, g).outbox = <<>>
<1>1. Load(k, g) \in Requests
  BY DEF Load, Requests
<1>2. <<Load(k, g)>> \in Seq(Requests)
  BY <1>1
<1> QED
  BY <1>2, UnbornIs DEF Born, ChildType

LEMMA Messages ==
    /\ \A f \in 0..MaxFrames, g \in Nat : Infer(f, g) \in Requests
    /\ Shutdown \in Requests /\ Partial \in Requests
    /\ CutReply \in Replies
    /\ \A code \in {"OK", "INVALID_MODEL", "INVALID_ARGS"} : Status(code) \in Replies
    /\ \A of \in 0..MaxFrames, by \in Key \cup {None} : Result("OK", of, by) \in Replies
    /\ \A code \in {"INVALID_ARGS", "DEVICE_FAULT"} : Result(code, 0, None) \in Replies
<1>1. /\ \A f \in 0..MaxFrames, g \in Nat : Infer(f, g) \in Requests
      /\ Shutdown \in Requests /\ Partial \in Requests
  BY DEF Infer, Shutdown, Partial, Requests
<1>2. /\ CutReply \in Replies
      /\ \A code \in {"OK", "INVALID_MODEL", "INVALID_ARGS"} : Status(code) \in Replies
  BY DEF CutReply, Status, Replies
<1>3. /\ \A of \in 0..MaxFrames, by \in Key \cup {None} : Result("OK", of, by) \in Replies
      /\ \A code \in {"INVALID_ARGS", "DEVICE_FAULT"} : Result(code, 0, None) \in Replies
  BY DEF Result, Replies
<1> QED
  BY <1>1, <1>2, <1>3

LEMMA NothingIs == <<>> \in Seq(Requests) /\ <<>> \in Seq(Replies)
OBVIOUS

LEMMA EmptyIs ==
    /\ \A s \in Seq(Requests) : s = <<>> <=> Len(s) = 0
    /\ \A s \in Seq(Replies) : s = <<>> <=> Len(s) = 0
OBVIOUS

(* Only the process c changes ...                                          *)
Only(c) ==
    /\ child' \in [Child -> ChildType]
    /\ \A d \in Child \ {c} : child'[d] = child[d]

(* ... and it keeps all but its streams.                                   *)
Still(c) ==
    /\ Only(c)
    /\ child'[c].state = child[c].state /\ child'[c].peer = child[c].peer
    /\ child'[c].model = child[c].model /\ child'[c].gen = child[c].gen

LEMMA ReadIs ==
    ASSUME TypeOK, NEW c \in Child, child[c].outbox # <<>>, Read(c)
    PROVE  /\ Still(c)
           /\ child'[c].inbox = child[c].inbox
           /\ child'[c].outbox = Tail(child[c].outbox)
           /\ Head(child[c].outbox) = child[c].outbox[1]
           /\ child[c].outbox[1] \in Replies
<1>1. child \in [Child -> ChildType] /\ child[c] \in ChildType
  BY DEF TypeOK, ChildType
<1>2. /\ Tail(child[c].outbox) \in Seq(Replies) /\ child[c].outbox[1] \in Replies
      /\ Head(child[c].outbox) = child[c].outbox[1]
  BY <1>1 DEF ChildType
<1>3. Still(c) /\ child'[c].inbox = child[c].inbox
               /\ child'[c].outbox = Tail(child[c].outbox)
  BY <1>1, <1>2 DEF Read, Still, Only, ChildType
<1> QED
  BY <1>2, <1>3

LEMMA PutIs ==
    ASSUME TypeOK, worker \in Child, NEW m \in Requests, Put(m)
    PROVE  /\ Still(worker)
           /\ child'[worker].inbox = Append(child[worker].inbox, m)
           /\ child'[worker].outbox = child[worker].outbox
<1>1. child \in [Child -> ChildType] /\ child[worker] \in ChildType
  BY DEF TypeOK, ChildType
<1>2. Append(child[worker].inbox, m) \in Seq(Requests)
  BY <1>1 DEF ChildType
<1> QED
  BY <1>1, <1>2 DEF Put, Still, Only, ChildType

(* A step of the child's loop: the process p takes a message and is q.     *)
Handles(p, q, replies) ==
    /\ p.state = "up" /\ p.inbox # <<>>
    /\ q.state \in {"up", "dead"} /\ q.peer = p.peer
    /\ Len(q.inbox) = Len(p.inbox) - 1
    /\ \A i \in 1..Len(q.inbox) : q.inbox[i] = p.inbox[i + 1] \/ q.inbox[i] = Partial
    /\ q.outbox = IF p.peer THEN p.outbox \o replies ELSE p.outbox
    /\ p.inbox[1].type = "LOAD" =>
         \/ replies = <<Status("OK")>> /\ q.model = p.inbox[1].key /\ q.gen = p.inbox[1].gen
         \/ replies = <<Status("INVALID_MODEL")>>
    /\ p.inbox[1].type # "LOAD" => q.model = p.model /\ q.gen = p.gen
    /\ p.inbox[1].type = "INFER" => Len(replies) = 1
    /\ \A i \in 1..Len(replies) :
         /\ replies[i].of \in {0, p.inbox[1].frame}
         /\ replies[i].type = "RESULT" /\ replies[i].code = "OK" =>
              /\ p.inbox[1].type # "LOAD" => replies[i].by = p.model
              /\ p.inbox[1].type = "INFER" => replies[i].of = p.inbox[1].frame

LEMMA TakenIs ==
    ASSUME TypeOK, NEW c \in Child, NEW new \in ChildType, new.inbox # <<>>,
           new.outbox = child[c].outbox,
           NEW replies \in Seq(Replies), Taken(c, new, replies)
    PROVE  /\ Only(c)
           /\ child'[c].state = new.state /\ child'[c].peer = new.peer
           /\ child'[c].model = new.model /\ child'[c].gen = new.gen
           /\ child'[c].inbox = Tail(new.inbox)
           /\ child'[c].outbox = IF child[c].peer THEN child[c].outbox \o replies
                                                  ELSE child[c].outbox
<1>1. child \in [Child -> ChildType] /\ child[c] \in ChildType
  BY DEF TypeOK, ChildType
<1>2. /\ Tail(new.inbox) \in Seq(Requests) /\ child[c].outbox \in Seq(Replies)
      /\ child[c].outbox \o replies \in Seq(Replies)
  BY <1>1 DEF ChildType
<1>3. CASE child[c].peer
  <2>1. child' = [child EXCEPT ![c] = [new EXCEPT !.inbox = Tail(new.inbox),
                                                  !.outbox = child[c].outbox \o replies]]
    BY <1>3 DEF Taken
  <2> QED
    BY <1>1, <1>2, <1>3, <2>1 DEF Only, ChildType
<1>4. CASE ~child[c].peer
  <2>1. child' = [child EXCEPT ![c] = [new EXCEPT !.inbox = Tail(new.inbox),
                                                  !.outbox = child[c].outbox]]
    BY <1>4 DEF Taken
  <2> QED
    BY <1>1, <1>2, <1>4, <2>1 DEF Only, ChildType
<1> QED
  BY <1>3, <1>4

(* What is said of one reply, and of the tail of a sequence of requests.   *)
LEMMA OneReplyIs ==
    ASSUME NEW r \in Replies
    PROVE  <<r>> \in Seq(Replies) /\ Len(<<r>>) = 1 /\ <<r>>[1] = r
OBVIOUS

LEMMA TailIs ==
    ASSUME NEW s \in Seq(Requests), s # <<>>
    PROVE  /\ Tail(s) \in Seq(Requests) /\ Len(Tail(s)) = Len(s) - 1
           /\ \A i \in 1..Len(Tail(s)) : Tail(s)[i] = s[i + 1]
           /\ Head(s) = s[1] /\ s[1] \in Requests
OBVIOUS

LEMMA TakeLoadIs ==
    ASSUME TypeOK, NEW c \in Child, child[c].state = "up", child[c].inbox # <<>>,
           child[c].inbox[1].type = "LOAD", TakeLoad(c, child[c].inbox[1])
    PROVE  Only(c) /\ \E replies \in Seq(Replies) : Handles(child[c], child'[c], replies)
<1> DEFINE p == child[c]
           m == p.inbox[1]
<1>1. p \in ChildType /\ p.inbox \in Seq(Requests) /\ m \in Requests
  BY DEF TypeOK, ChildType
<1>2. m.key \in Key \cup {None} /\ m.gen \in Nat
  BY <1>1 DEF Requests
<1>3. ASSUME NEW code \in {"OK", "INVALID_MODEL"}
      PROVE  /\ <<Status(code)>> \in Seq(Replies) /\ Len(<<Status(code)>>) = 1
             /\ <<Status(code)>>[1].type = "STATUS" /\ <<Status(code)>>[1].of = 0
  <2>1. Status(code) \in Replies /\ Status(code).type = "STATUS" /\ Status(code).of = 0
    BY Messages DEF Status
  <2> QED
    BY <2>1, OneReplyIs
<1>4. CASE Taken(c, [p EXCEPT !.model = m.key, !.gen = m.gen], <<Status("OK")>>)
  <2> DEFINE new == [p EXCEPT !.model = m.key, !.gen = m.gen]
  <2>1. /\ new \in ChildType /\ new.inbox = p.inbox /\ new.outbox = p.outbox
        /\ new.state = p.state /\ new.peer = p.peer
        /\ new.model = m.key /\ new.gen = m.gen
    BY <1>1, <1>2 DEF ChildType
  <2>2. Taken(c, new, <<Status("OK")>>)
    BY <1>4
  <2> HIDE DEF new
  <2>3. /\ Only(c) /\ child'[c].state = new.state /\ child'[c].peer = new.peer
        /\ child'[c].model = new.model /\ child'[c].gen = new.gen
        /\ child'[c].inbox = Tail(new.inbox)
        /\ child'[c].outbox = IF p.peer THEN p.outbox \o <<Status("OK")>> ELSE p.outbox
    BY <1>3, <2>1, <2>2, TakenIs
  <2>4. /\ Len(Tail(p.inbox)) = Len(p.inbox) - 1
        /\ \A i \in 1..Len(Tail(p.inbox)) : Tail(p.inbox)[i] = p.inbox[i + 1]
    BY <1>1, TailIs
  <2>5. \A i \in 1..Len(<<Status("OK")>>) : i = 1
    BY <1>3
  <2>6. Handles(p, child'[c], <<Status("OK")>>)
    BY <1>3, <2>1, <2>3, <2>4, <2>5 DEF Handles
  <2> QED
    BY <1>3, <2>3, <2>6
<1>5. CASE Taken(c, [p EXCEPT !.model = None], <<Status("INVALID_MODEL")>>)
  <2> DEFINE new == [p EXCEPT !.model = None]
  <2>1. /\ new \in ChildType /\ new.inbox = p.inbox /\ new.outbox = p.outbox
        /\ new.state = p.state /\ new.peer = p.peer
    BY <1>1 DEF ChildType
  <2>2. Taken(c, new, <<Status("INVALID_MODEL")>>)
    BY <1>5
  <2> HIDE DEF new
  <2>3. /\ Only(c) /\ child'[c].state = new.state /\ child'[c].peer = new.peer
        /\ child'[c].inbox = Tail(new.inbox)
        /\ child'[c].outbox = IF p.peer THEN p.outbox \o <<Status("INVALID_MODEL")>>
                                        ELSE p.outbox
    BY <1>3, <2>1, <2>2, TakenIs
  <2>4. /\ Len(Tail(p.inbox)) = Len(p.inbox) - 1
        /\ \A i \in 1..Len(Tail(p.inbox)) : Tail(p.inbox)[i] = p.inbox[i + 1]
    BY <1>1, TailIs
  <2>5. \A i \in 1..Len(<<Status("INVALID_MODEL")>>) : i = 1
    BY <1>3
  <2>6. Handles(p, child'[c], <<Status("INVALID_MODEL")>>)
    BY <1>3, <2>1, <2>3, <2>4, <2>5 DEF Handles
  <2> QED
    BY <1>3, <2>3, <2>6
<1> QED
  BY <1>4, <1>5 DEF TakeLoad

(* Taking a message without touching the model.                            *)
LEMMA TakeRestIs ==
    ASSUME TypeOK, NEW c \in Child, child[c].state = "up", child[c].inbox # <<>>,
           child[c].inbox[1].type # "LOAD",
           NEW new \in ChildType, new.state \in {"up", "dead"},
           new.peer = child[c].peer, new.model = child[c].model, new.gen = child[c].gen,
           new.outbox = child[c].outbox, Len(new.inbox) = Len(child[c].inbox),
           \A i \in 2..Len(new.inbox) :
               new.inbox[i] = child[c].inbox[i] \/ new.inbox[i] = Partial,
           NEW replies \in Seq(Replies), Taken(c, new, replies),
           child[c].inbox[1].type = "INFER" => Len(replies) = 1,
           \A i \in 1..Len(replies) :
             /\ replies[i].of \in {0, child[c].inbox[1].frame}
             /\ replies[i].type = "RESULT" /\ replies[i].code = "OK" =>
                  /\ replies[i].by = child[c].model
                  /\ child[c].inbox[1].type = "INFER"
                        => replies[i].of = child[c].inbox[1].frame
    PROVE  Only(c) /\ Handles(child[c], child'[c], replies)
<1>1. /\ child[c] \in ChildType /\ child[c].inbox \in Seq(Requests)
      /\ new.inbox \in Seq(Requests)
  BY DEF TypeOK, ChildType
<1>2. new.inbox # <<>>
  BY <1>1, EmptyIs
<1>3. /\ Only(c)
      /\ child'[c].state = new.state /\ child'[c].peer = new.peer
      /\ child'[c].model = new.model /\ child'[c].gen = new.gen
      /\ child'[c].inbox = Tail(new.inbox)
      /\ child'[c].outbox = IF child[c].peer THEN child[c].outbox \o replies
                                             ELSE child[c].outbox
  BY <1>2, TakenIs
<1>4. /\ Len(Tail(new.inbox)) = Len(child[c].inbox) - 1
      /\ Len(child[c].inbox) \in Nat
  <2>1. Len(Tail(new.inbox)) = Len(new.inbox) - 1
    BY <1>1, <1>2, TailIs
  <2>2. Len(child[c].inbox) \in Nat
    BY <1>1
  <2> QED
    BY <2>1, <2>2
<1>5. ASSUME NEW i \in 1..Len(Tail(new.inbox))
      PROVE  \/ Tail(new.inbox)[i] = child[c].inbox[i + 1]
             \/ Tail(new.inbox)[i] = Partial
  <2>1. Tail(new.inbox)[i] = new.inbox[i + 1]
    BY <1>1, <1>2, TailIs
  <2>2. i + 1 \in 2..Len(new.inbox)
    BY <1>4
  <2> QED
    BY <2>1, <2>2
<1>6. Handles(child[c], child'[c], replies)
  BY <1>3, <1>4, <1>5 DEF Handles
<1> QED
  BY <1>3, <1>6

LEMMA TakeInferIs ==
    ASSUME TypeOK, NEW c \in Child, child[c].state = "up", child[c].inbox # <<>>,
           child[c].inbox[1].type = "INFER", TakeInfer(c, child[c].inbox[1])
    PROVE  Only(c) /\ \E replies \in Seq(Replies) : Handles(child[c], child'[c], replies)
<1> DEFINE p == child[c]
           m == p.inbox[1]
<1>1. p \in ChildType /\ p.inbox \in Seq(Requests) /\ m \in Requests
  BY DEF TypeOK, ChildType
<1>2. PICK r \in Replies :
          /\ Taken(c, p, <<r>>) /\ r.of \in {0, m.frame}
          /\ r.type = "RESULT" /\ r.code = "OK" => r.of = m.frame /\ r.by = p.model
  <2>1. CASE Taken(c, p, <<Result("INVALID_ARGS", 0, None)>>)
    BY <2>1, Messages DEF Result
  <2>2. CASE Taken(c, p, <<Result("DEVICE_FAULT", 0, None)>>)
    BY <2>2, Messages DEF Result
  <2>3. CASE Taken(c, p, <<Result("OK", m.frame, p.model)>>)
    <3>1. m.frame \in 0..MaxFrames /\ p.model \in Key \cup {None}
      BY <1>1 DEF Requests, ChildType
    <3>2. Result("OK", m.frame, p.model) \in Replies
      BY <3>1, Messages
    <3> QED
      BY <2>3, <3>2 DEF Result
  <2> QED
    BY <2>1, <2>2, <2>3 DEF TakeInfer
<1>3. <<r>> \in Seq(Replies) /\ Len(<<r>>) = 1 /\ <<r>>[1] = r
  BY OneReplyIs
<1>4. \A i \in 1..Len(<<r>>) : <<r>>[i] = r
  BY <1>3
<1>5. Len(p.inbox) \in Nat
  BY <1>1
<1> HIDE DEF m
<1>6. Only(c) /\ Handles(p, child'[c], <<r>>)
  BY <1>1, <1>2, <1>3, <1>4, <1>5, TakeRestIs DEF ChildType, m
<1> QED
  BY <1>3, <1>6

LEMMA TakeShutdownIs ==
    ASSUME TypeOK, NEW c \in Child, child[c].state = "up", child[c].inbox # <<>>,
           child[c].inbox[1].type = "SHUTDOWN",
           Taken(c, [child[c] EXCEPT !.state = "dead"], <<>>)
    PROVE  Only(c) /\ \E replies \in Seq(Replies) : Handles(child[c], child'[c], replies)
<1> DEFINE new == [child[c] EXCEPT !.state = "dead"]
<1>1. child[c] \in ChildType
  BY DEF TypeOK, ChildType
<1>2. /\ new \in ChildType /\ new.state = "dead" /\ new.inbox = child[c].inbox
      /\ new.outbox = child[c].outbox /\ new.peer = child[c].peer
      /\ new.model = child[c].model /\ new.gen = child[c].gen
  BY <1>1 DEF ChildType
<1>3. Taken(c, new, <<>>) /\ <<>> \in Seq(Replies) /\ Len(<<>>) = 0
  OBVIOUS
<1> HIDE DEF new
<1>4. /\ new.inbox # <<>> /\ Len(new.inbox) \in Nat
      /\ Tail(new.inbox) = Tail(child[c].inbox)
  BY <1>1, <1>2 DEF ChildType
<1>5. /\ Only(c) /\ child'[c].state = "dead" /\ child'[c].peer = child[c].peer
      /\ child'[c].model = child[c].model /\ child'[c].gen = child[c].gen
      /\ child'[c].inbox = Tail(child[c].inbox)
      /\ child'[c].outbox = IF child[c].peer THEN child[c].outbox \o <<>>
                                             ELSE child[c].outbox
  BY <1>2, <1>3, <1>4, TakenIs
<1>6. /\ Len(Tail(child[c].inbox)) = Len(child[c].inbox) - 1
      /\ \A i \in 1..Len(Tail(child[c].inbox)) :
           Tail(child[c].inbox)[i] = child[c].inbox[i + 1]
  BY <1>1, TailIs DEF ChildType
<1>7. Only(c) /\ Handles(child[c], child'[c], <<>>)
  BY <1>3, <1>5, <1>6 DEF Handles
<1> QED
  BY <1>3, <1>7

LEMMA TakePartialIs ==
    ASSUME TypeOK, NEW c \in Child, child[c].state = "up", child[c].inbox # <<>>,
           child[c].inbox[1].type = "partial", TakePartial(c)
    PROVE  Only(c) /\ \E replies \in Seq(Replies) : Handles(child[c], child'[c], replies)
<1> DEFINE new == [child[c] EXCEPT !.inbox[2] = Partial]
           ok  == Result("OK", 0, child[c].model)
           bad == Status("INVALID_ARGS")
<1>1. /\ child[c] \in ChildType /\ child[c].inbox \in Seq(Requests)
      /\ Len(child[c].inbox) \in Nat
  BY DEF TypeOK, ChildType
<1>2. [child[c].inbox EXCEPT ![2] = Partial] \in Seq(Requests)
  <2> DEFINE s == child[c].inbox
             t == [s EXCEPT ![2] = Partial]
  <2>1. s \in [1..Len(s) -> Requests] /\ Partial \in Requests
    BY <1>1, Messages
  <2>2. t \in [1..Len(s) -> Requests]
    BY <2>1
  <2> QED
    BY <1>1, <2>2
<1>3. /\ new \in ChildType /\ new.inbox = [child[c].inbox EXCEPT ![2] = Partial]
      /\ new.outbox = child[c].outbox /\ new.peer = child[c].peer
      /\ new.state = "up" /\ new.model = child[c].model /\ new.gen = child[c].gen
  BY <1>1, <1>2 DEF ChildType
<1>4. /\ Len(new.inbox) = Len(child[c].inbox)
      /\ \A i \in 2..Len(new.inbox) :
           new.inbox[i] = child[c].inbox[i] \/ new.inbox[i] = Partial
  BY <1>1, <1>3
<1>5. /\ ok \in Replies /\ ok.of = 0 /\ ok.by = child[c].model
      /\ bad \in Replies /\ bad.of = 0 /\ bad.type = "STATUS"
  <2>1. child[c].model \in Key \cup {None}
    BY <1>1 DEF ChildType
  <2>2. ok \in Replies /\ bad \in Replies
    BY <2>1, Messages
  <2> QED
    BY <2>2 DEF Result, Status
<1>6. PICK replies \in Spliced(c) : Taken(c, new, replies)
  BY DEF TakePartial
<1> HIDE DEF ok, bad, new
<1>7. replies \in {<<>>, <<bad>>, <<ok>>, <<ok, bad>>}
  BY <1>6 DEF Spliced, ok, bad
<1>8. /\ replies \in Seq(Replies)
      /\ \A i \in 1..Len(replies) : replies[i] \in {ok, bad}
  <2>1. CASE replies = <<>>
    BY <2>1
  <2>2. CASE replies = <<bad>>
    BY <1>5, <2>2
  <2>3. CASE replies = <<ok>>
    BY <1>5, <2>3
  <2>4. CASE replies = <<ok, bad>>
    BY <1>5, <2>4
  <2> QED
    BY <1>7, <2>1, <2>2, <2>3, <2>4
<1>9. Only(c) /\ Handles(child[c], child'[c], replies)
  BY <1>3, <1>4, <1>5, <1>6, <1>8, TakeRestIs
<1> QED
  BY <1>8, <1>9

LEMMA TakeIs ==
    ASSUME TypeOK, NEW c \in Child, Take(c)
    PROVE  Only(c) /\ \E replies \in Seq(Replies) : Handles(child[c], child'[c], replies)
<1>1. child[c].inbox \in Seq(Requests) /\ child[c].state = "up" /\ child[c].inbox # <<>>
  BY DEF Take, TypeOK, ChildType
<1>2. Head(child[c].inbox) = child[c].inbox[1]
  BY <1>1, TailIs
<1> DEFINE m == child[c].inbox[1]
<1>3. CASE m.type = "LOAD" /\ TakeLoad(c, m)
  BY <1>1, <1>3, TakeLoadIs
<1>4. CASE m.type = "INFER" /\ TakeInfer(c, m)
  BY <1>1, <1>4, TakeInferIs
<1>5. CASE m.type = "SHUTDOWN" /\ Taken(c, [child[c] EXCEPT !.state = "dead"], <<>>)
  BY <1>1, <1>5, TakeShutdownIs
<1>6. CASE m.type = "partial" /\ TakePartial(c)
  BY <1>1, <1>6, TakePartialIs
<1> QED
  BY <1>2, <1>3, <1>4, <1>5, <1>6 DEF Take

LEMMA RetireSendIs ==
    ASSUME TypeOK, op.child \in Child, RetireSend
    PROVE  /\ Only(op.child)
           /\ child'[op.child].state = child[op.child].state
           /\ \/ child'[op.child].inbox = child[op.child].inbox
              \/ child'[op.child].inbox = Append(child[op.child].inbox, Shutdown)
           /\ child'[op.child].outbox = <<>>
<1> DEFINE p == child[op.child]
<1>1. child \in [Child -> ChildType] /\ p \in ChildType
  BY DEF TypeOK, ChildType
<1>2. Append(p.inbox, Shutdown) \in Seq(Requests) /\ p.inbox \in Seq(Requests)
  BY <1>1, Messages DEF ChildType
<1>3. PICK in \in {p.inbox, Append(p.inbox, Shutdown)} :
          child' = [child EXCEPT ![op.child] = [p EXCEPT !.peer = FALSE, !.outbox = <<>>,
                                                         !.inbox = in]]
  <2>1. CASE Alive(op.child) /\ p.peer
    BY <1>1, <2>1 DEF RetireSend, ChildType
  <2>2. CASE ~(Alive(op.child) /\ p.peer)
    BY <1>1, <2>2 DEF RetireSend, ChildType
  <2> QED
    BY <2>1, <2>2
<1> QED
  BY <1>1, <1>2, <1>3, NothingIs DEF Only, ChildType

LEMMA SpawnIs ==
    ASSUME TypeOK, op.key \in Key, NEW c \in Child, Spawn(c)
    PROVE  /\ Only(c)
           /\ child'[c].state = "up" /\ child'[c].peer
           /\ child'[c].inbox = <<Load(op.key, workerGen + 1)>> /\ child'[c].outbox = <<>>
<1>1. child \in [Child -> ChildType] /\ workerGen + 1 \in Nat
  BY DEF TypeOK, ChildType
<1> QED
  BY <1>1, BornIs DEF Spawn, Only

(* The state of the process c is s, and the rest of it what it was, but    *)
(* for the requests it has not read when it ends.                          *)
Turns(c, s) ==
    /\ Only(c)
    /\ child'[c].state = s /\ child'[c].peer = child[c].peer
    /\ child'[c].model = child[c].model /\ child'[c].gen = child[c].gen
    /\ child'[c].inbox = IF s = "dead" THEN <<>> ELSE child[c].inbox
    /\ child'[c].outbox = child[c].outbox

LEMMA StuckIs ==
    ASSUME TypeOK, NEW c \in Child, child' = [child EXCEPT ![c].state = "stuck"]
    PROVE  Turns(c, "stuck")
<1>1. child \in [Child -> ChildType] /\ child[c] \in ChildType
  BY DEF TypeOK, ChildType
<1> QED
  BY <1>1 DEF Turns, Only, ChildType

LEMMA EndsIs ==
    ASSUME TypeOK, NEW c \in Child, Ends(c)
    PROVE  Turns(c, "dead")
<1>1. child \in [Child -> ChildType] /\ child[c] \in ChildType
  BY DEF TypeOK, ChildType
<1>2. [child[c] EXCEPT !.state = "dead", !.inbox = <<>>] \in ChildType
  BY <1>1, NothingIs DEF ChildType
<1>3. child' = [child EXCEPT ![c] = [child[c] EXCEPT !.state = "dead", !.inbox = <<>>]]
  BY <1>1 DEF Ends
<1> QED
  BY <1>1, <1>2, <1>3 DEF Turns, Only, ChildType

LEMMA ReceiveCutIs ==
    ASSUME TypeOK, worker \in Child, ReceiveCut
    PROVE  /\ Still(worker)
           /\ child'[worker].inbox = child[worker].inbox
           /\ child'[worker].outbox = <<CutReply>> \o Tail(child[worker].outbox)
<1>1. child \in [Child -> ChildType] /\ child[worker] \in ChildType
  BY DEF TypeOK, ChildType
<1>2. <<CutReply>> \in Seq(Replies)
  BY Messages, OneReplyIs
<1>3. Tail(child[worker].outbox) \in Seq(Replies)
  BY <1>1 DEF ReceiveCut, Replied, ChildType
<1>4. <<CutReply>> \o Tail(child[worker].outbox) \in Seq(Replies)
  BY <1>2, <1>3
<1> QED
  BY <1>1, <1>4 DEF ReceiveCut, Still, Only, ChildType

LEMMA GoneIs ==
    ASSUME TypeOK, Gone
    PROVE  /\ child' \in [Child -> ChildType]
           /\ \A c \in Child :
                /\ child'[c].state = child[c].state
                /\ child'[c].inbox = child[c].inbox /\ child'[c].outbox = <<>>
<1>1. child \in [Child -> ChildType]
  BY DEF TypeOK, ChildType
<1>2. ASSUME NEW p \in ChildType
      PROVE  /\ [p EXCEPT !.peer = FALSE, !.outbox = <<>>] \in ChildType
             /\ [p EXCEPT !.peer = FALSE, !.outbox = <<>>].state = p.state
             /\ [p EXCEPT !.peer = FALSE, !.outbox = <<>>].inbox = p.inbox
             /\ [p EXCEPT !.peer = FALSE, !.outbox = <<>>].outbox = <<>>
  BY NothingIs DEF ChildType
<1>3. child' = [c \in Child |-> [child[c] EXCEPT !.peer = FALSE, !.outbox = <<>>]]
  BY DEF Gone
<1> QED
  BY <1>1, <1>2, <1>3

(***************************************************************************)
(* What the steps of a process leave true of its streams.                  *)

LEMMA PastHandled ==
    ASSUME NEW p \in ChildType, NEW q \in ChildType, NEW replies \in Seq(Replies),
           NEW n \in Nat, Handles(p, q, replies), Past(p, n)
    PROVE  Past(q, n)
<1>1. /\ p.inbox \in Seq(Requests) /\ p.outbox \in Seq(Replies)
      /\ q.inbox \in Seq(Requests) /\ q.outbox \in Seq(Replies)
      /\ Len(p.inbox) \in Nat /\ Len(p.inbox) # 0
  BY EmptyIs DEF ChildType, Handles
<1>2. p.inbox[1].frame <= n
  BY <1>1 DEF Past
<1>3. ASSUME NEW i \in 1..Len(q.inbox) PROVE q.inbox[i].frame <= n
  <2>1. i + 1 \in 1..Len(p.inbox) /\ (q.inbox[i] = p.inbox[i + 1] \/ q.inbox[i] = Partial)
    BY <1>1 DEF Handles
  <2> QED
    BY <2>1 DEF Past, Partial
<1>4. \A i \in 1..Len(replies) : replies[i].of <= n
  BY <1>2 DEF Handles
<1>5. ASSUME NEW i \in 1..Len(q.outbox) PROVE q.outbox[i].of <= n
  <2>1. CASE q.outbox = p.outbox
    BY <2>1 DEF Past
  <2>2. CASE q.outbox = p.outbox \o replies
    <3>1. \/ i \in 1..Len(p.outbox) /\ q.outbox[i] = p.outbox[i]
          \/ i - Len(p.outbox) \in 1..Len(replies)
             /\ q.outbox[i] = replies[i - Len(p.outbox)]
      BY <1>1, <2>2
    <3> QED
      BY <1>4, <3>1 DEF Past
  <2> QED
    BY <2>1, <2>2 DEF Handles
<1> QED
  BY <1>3, <1>5 DEF Past

LEMMA AnswersHandled ==
    ASSUME NEW p \in ChildType, NEW q \in ChildType, NEW replies \in Seq(Replies),
           NEW k, NEW g, NEW waiting, NEW n,
           Handles(p, q, replies), Answers(p, k, g, waiting, n)
    PROVE  Answers(q, k, g, waiting, n)
<1>1. /\ p.inbox \in Seq(Requests) /\ p.outbox \in Seq(Replies)
      /\ q.inbox \in Seq(Requests) /\ q.outbox \in Seq(Replies)
      /\ Len(p.inbox) \in Nat /\ Len(p.inbox) # 0
  BY EmptyIs DEF ChildType, Handles
<1>2. p.inbox[1].type # "LOAD" /\ p.peer
  BY <1>1 DEF Answers
<1>3. k \in Key /\ q.peer /\ q.model = k /\ q.gen = g
  BY <1>2 DEF Answers, Handles
<1>4. ASSUME NEW i \in 1..Len(q.inbox) PROVE q.inbox[i].type # "LOAD"
  <2>1. i + 1 \in 1..Len(p.inbox) /\ (q.inbox[i] = p.inbox[i + 1] \/ q.inbox[i] = Partial)
    BY <1>1 DEF Handles
  <2> QED
    BY <2>1 DEF Answers, Partial
<1>5. q.outbox = p.outbox \o replies
  BY <1>2 DEF Handles
<1>6. ASSUME NEW i \in 1..Len(q.outbox),
             q.outbox[i].type = "RESULT", q.outbox[i].code = "OK"
      PROVE  q.outbox[i].by = k
  <2>1. \/ i \in 1..Len(p.outbox) /\ q.outbox[i] = p.outbox[i]
        \/ i - Len(p.outbox) \in 1..Len(replies)
           /\ q.outbox[i] = replies[i - Len(p.outbox)]
    BY <1>1, <1>5
  <2> QED
    BY <1>2, <1>6, <2>1 DEF Answers, Handles
<1>7. Timeouts = {} => Orderly(q, waiting, n)
  <2> SUFFICES ASSUME Timeouts = {} PROVE Orderly(q, waiting, n)
    OBVIOUS
  <2>1. waiting /\ p.outbox = <<>> /\ Len(p.inbox) = 1
        /\ p.inbox[1].type = "INFER" /\ p.inbox[1].frame = n
    BY DEF Answers, Orderly, Handles
  <2>2. Len(q.inbox) = 0 /\ q.inbox = <<>>
    BY <1>1, <2>1, EmptyIs DEF Handles
  <2>3. q.outbox = replies /\ Len(replies) = 1
    BY <1>5, <2>1 DEF Handles
  <2>4. replies[1].type = "RESULT" /\ replies[1].code = "OK" => replies[1].of = n
    BY <2>1, <2>3 DEF Handles
  <2> QED
    BY <2>1, <2>2, <2>3, <2>4 DEF Orderly
<1> QED
  BY <1>3, <1>4, <1>6, <1>7 DEF Answers

LEMMA ConfirmsHandled ==
    ASSUME NEW p \in ChildType, NEW q \in ChildType, NEW replies \in Seq(Replies),
           NEW k, NEW g, Handles(p, q, replies), Confirms(p, k, g)
    PROVE  Confirms(q, k, g)
<1>1. q.inbox \in Seq(Requests) /\ replies \in Seq(Replies)
  BY DEF ChildType
<1>2. p.peer /\ p.inbox = <<Load(k, g)>> /\ p.outbox = <<>>
  BY DEF Confirms, Handles
<1>3. Len(p.inbox) = 1 /\ p.inbox[1] = Load(k, g)
  BY <1>2
<1>4. Load(k, g).type = "LOAD" /\ Load(k, g).key = k /\ Load(k, g).gen = g
  BY DEF Load
<1>5. Len(q.inbox) = 0 /\ q.inbox = <<>>
  BY <1>1, <1>3, EmptyIs DEF Handles
<1>6. q.peer /\ q.outbox = replies
  BY <1>1, <1>2 DEF Handles
<1>7. \/ replies = <<Status("OK")>> /\ q.model = k /\ q.gen = g
      \/ replies = <<Status("INVALID_MODEL")>>
  BY <1>3, <1>4 DEF Handles
<1> QED
  BY <1>5, <1>6, <1>7 DEF Confirms

LEMMA PastLater ==
    ASSUME NEW p \in ChildType, NEW n \in Nat, NEW m \in Nat, n <= m, Past(p, n)
    PROVE  Past(p, m)
<1>1. p.inbox \in Seq(Requests) /\ p.outbox \in Seq(Replies)
  BY DEF ChildType
<1>2. ASSUME NEW i \in 1..Len(p.inbox) PROVE p.inbox[i].frame <= m
  <2>1. p.inbox[i] \in Requests
    BY <1>1
  <2>2. p.inbox[i].frame \in Nat
    BY <2>1 DEF Requests
  <2> QED
    BY <2>2 DEF Past
<1>3. ASSUME NEW i \in 1..Len(p.outbox) PROVE p.outbox[i].of <= m
  <2>1. p.outbox[i] \in Replies
    BY <1>1
  <2>2. p.outbox[i].of \in Nat
    BY <2>1 DEF Replies
  <2> QED
    BY <2>2 DEF Past
<1> QED
  BY <1>2, <1>3 DEF Past

LEMMA PastRead ==
    ASSUME NEW p \in ChildType, NEW q \in ChildType, NEW m \in Nat, Past(p, m),
           p.outbox # <<>>, q.inbox = p.inbox,
           q.outbox = Tail(p.outbox) \/ q.outbox = <<CutReply>> \o Tail(p.outbox)
    PROVE  Past(q, m)
<1>1. p.outbox \in Seq(Replies) /\ Len(p.outbox) \in Nat
  BY DEF ChildType
<1>2. /\ Tail(p.outbox) \in Seq(Replies) /\ Len(Tail(p.outbox)) = Len(p.outbox) - 1
      /\ \A i \in 1..Len(Tail(p.outbox)) : Tail(p.outbox)[i] = p.outbox[i + 1]
  BY <1>1, EmptyIs
<1>3. \A i \in 1..Len(Tail(p.outbox)) : i + 1 \in 1..Len(p.outbox)
  BY <1>1, <1>2
<1>4. \A i \in 1..Len(Tail(p.outbox)) : Tail(p.outbox)[i].of <= m
  BY <1>2, <1>3 DEF Past
<1>5. CASE q.outbox = <<CutReply>> \o Tail(p.outbox)
  <2>1. <<CutReply>> \in Seq(Replies) /\ Len(<<CutReply>>) = 1 /\ <<CutReply>>[1] = CutReply
    BY Messages, OneReplyIs
  <2>2. CutReply.of <= m
    BY DEF CutReply
  <2>3. ASSUME NEW i \in 1..Len(q.outbox) PROVE q.outbox[i].of <= m
    <3>1. \/ i = 1 /\ q.outbox[i] = CutReply
          \/ i - 1 \in 1..Len(Tail(p.outbox)) /\ q.outbox[i] = Tail(p.outbox)[i - 1]
      BY <1>2, <1>5, <2>1
    <3>2. CASE i = 1 /\ q.outbox[i] = CutReply
      BY <2>2, <3>2
    <3>3. CASE /\ i - 1 \in 1..Len(Tail(p.outbox))
               /\ q.outbox[i] = Tail(p.outbox)[i - 1]
      BY <1>4, <3>3
    <3> QED
      BY <3>1, <3>2, <3>3
  <2> QED
    BY <2>3 DEF Past
<1> QED
  BY <1>4, <1>5 DEF Past

LEMMA PastPut ==
    ASSUME NEW p \in ChildType, NEW q \in ChildType, NEW m \in Nat, Past(p, m),
           NEW r \in Requests, r.frame <= m,
           q.inbox = Append(p.inbox, r), q.outbox \in {p.outbox, <<>>}
    PROVE  Past(q, m)
<1>1. p.inbox \in Seq(Requests) /\ Len(p.inbox) \in Nat
  BY DEF ChildType
<1>2. ASSUME NEW i \in 1..Len(q.inbox) PROVE q.inbox[i].frame <= m
  BY <1>1 DEF Past
<1> QED
  BY <1>2 DEF Past

(* What the process p, which can be asked, becomes: asked the frame n, ... *)
LEMMA AnswersAsked ==
    ASSUME NEW p \in ChildType, NEW q \in ChildType, NEW k, NEW g, NEW l, NEW n, NEW h,
           Answers(p, k, g, FALSE, l), p.state \in {"up", "stuck"},
           q.state = p.state, q.peer = p.peer, q.model = p.model, q.gen = p.gen,
           q.outbox = p.outbox, q.inbox = Append(p.inbox, Infer(n, h)),
           Infer(n, h) \in Requests
    PROVE  Answers(q, k, g, TRUE, n)
<1>1. p.inbox \in Seq(Requests) /\ Len(p.inbox) \in Nat
  BY DEF ChildType
<1>2. Infer(n, h).type = "INFER" /\ Infer(n, h).frame = n
  BY DEF Infer
<1>3. \A i \in 1..Len(q.inbox) : q.inbox[i].type # "LOAD"
  BY <1>1, <1>2 DEF Answers
<1>4. Timeouts = {} => Orderly(q, TRUE, n)
  <2> SUFFICES ASSUME Timeouts = {} PROVE Orderly(q, TRUE, n)
    OBVIOUS
  <2>1. p.outbox = <<>> /\ (p.state = "up" => p.inbox = <<>>)
    BY DEF Answers, Orderly
  <2>2. p.inbox = <<>> => Len(q.inbox) = 1 /\ q.inbox[1] = Infer(n, h)
    BY <1>1
  <2> QED
    BY <1>2, <2>1, <2>2 DEF Orderly
<1> QED
  BY <1>3, <1>4 DEF Answers

(* ... read, when it was asked or not, ...                                 *)
LEMMA AnswersRead ==
    ASSUME NEW p \in ChildType, NEW q \in ChildType, NEW k, NEW g, NEW waiting, NEW n, NEW l,
           Answers(p, k, g, waiting, n), p.outbox # <<>>,
           q.state = p.state, q.peer = p.peer, q.model = p.model, q.gen = p.gen,
           q.inbox = p.inbox, q.outbox = Tail(p.outbox)
    PROVE  Answers(q, k, g, FALSE, l)
<1>1. /\ p.inbox \in Seq(Requests) /\ p.outbox \in Seq(Replies)
      /\ Len(p.outbox) \in Nat /\ Len(p.outbox) # 0
  BY EmptyIs DEF ChildType
<1>2. /\ q.outbox \in Seq(Replies) /\ Len(q.outbox) = Len(p.outbox) - 1
      /\ \A i \in 1..Len(q.outbox) : q.outbox[i] = p.outbox[i + 1]
  BY <1>1
<1>3. \A i \in 1..Len(q.outbox) : i + 1 \in 1..Len(p.outbox)
  BY <1>1, <1>2
<1>4. \A i \in 1..Len(q.outbox) :
         q.outbox[i].type = "RESULT" /\ q.outbox[i].code = "OK" => q.outbox[i].by = k
  BY <1>2, <1>3 DEF Answers
<1>5. Timeouts = {} => Orderly(q, FALSE, l)
  <2> SUFFICES ASSUME Timeouts = {} PROVE Orderly(q, FALSE, l)
    OBVIOUS
  <2>1. Len(p.outbox) = 1 /\ (p.state = "up" => p.inbox = <<>>)
    BY DEF Answers, Orderly
  <2>2. q.outbox = <<>>
    BY <1>2, <2>1, EmptyIs
  <2> QED
    BY <2>1, <2>2 DEF Orderly
<1> QED
  BY <1>4, <1>5 DEF Answers

(* ... not read by the deadline, ...                                       *)
LEMMA AnswersLate ==
    ASSUME NEW p \in ChildType, NEW k, NEW g, NEW waiting, NEW n, NEW l,
           Answers(p, k, g, waiting, n),
           ~waiting \/ Timeouts # {} \/ (p.outbox = <<>> /\ p.state # "up")
    PROVE  Answers(p, k, g, FALSE, l)
BY DEF Answers, Orderly

(* ... when it is gone, or sleeps in the driver, ...                       *)
LEMMA AnswersTurned ==
    ASSUME NEW p \in ChildType, NEW q \in ChildType, NEW k, NEW g, NEW waiting, NEW n,
           Answers(p, k, g, waiting, n), q.state # "up",
           q.peer = p.peer, q.model = p.model, q.gen = p.gen,
           q.inbox \in {p.inbox, <<>>}, q.outbox = p.outbox
    PROVE  Answers(q, k, g, waiting, n)
BY DEF Answers, Orderly

(* ... and when a request, or the reading of a reply, is cut short.        *)
LEMMA AnswersCut ==
    ASSUME NEW p \in ChildType, NEW q \in ChildType, NEW k, NEW g, NEW waiting, NEW n, NEW l,
           Answers(p, k, g, waiting, n), Timeouts # {},
           q.peer = p.peer, q.model = p.model, q.gen = p.gen,
           \/ q.inbox = Append(p.inbox, Partial) /\ q.outbox = p.outbox
           \/ p.outbox # <<>> /\ q.inbox = p.inbox
              /\ q.outbox = <<CutReply>> \o Tail(p.outbox)
    PROVE  Answers(q, k, g, FALSE, l)
<1>1. p.inbox \in Seq(Requests) /\ p.outbox \in Seq(Replies) /\ Len(p.outbox) \in Nat
  BY DEF ChildType
<1>2. CASE q.inbox = Append(p.inbox, Partial) /\ q.outbox = p.outbox
  <2>1. \A i \in 1..Len(q.inbox) : q.inbox[i].type # "LOAD"
    BY <1>1, <1>2 DEF Answers, Partial
  <2> QED
    BY <1>2, <2>1 DEF Answers
<1>3. CASE p.outbox # <<>> /\ q.inbox = p.inbox
           /\ q.outbox = <<CutReply>> \o Tail(p.outbox)
  <2>1. /\ Tail(p.outbox) \in Seq(Replies) /\ Len(Tail(p.outbox)) = Len(p.outbox) - 1
        /\ \A i \in 1..Len(Tail(p.outbox)) : Tail(p.outbox)[i] = p.outbox[i + 1]
    BY <1>1, <1>3, EmptyIs
  <2>2. <<CutReply>> \in Seq(Replies) /\ Len(<<CutReply>>) = 1 /\ <<CutReply>>[1] = CutReply
    BY Messages, OneReplyIs
  <2>3. ASSUME NEW i \in 1..Len(q.outbox),
               q.outbox[i].type = "RESULT", q.outbox[i].code = "OK"
        PROVE  q.outbox[i].by = k
    <3>1. \/ i = 1 /\ q.outbox[i] = CutReply
          \/ i - 1 \in 1..Len(Tail(p.outbox)) /\ q.outbox[i] = Tail(p.outbox)[i - 1]
      BY <1>3, <2>1, <2>2
    <3>2. CutReply.type # "RESULT"
      BY DEF CutReply
    <3>3. i \in 1..Len(p.outbox) /\ q.outbox[i] = p.outbox[i]
      BY <1>1, <2>1, <2>3, <3>1, <3>2
    <3> QED
      BY <2>3, <3>3 DEF Answers
  <2> QED
    BY <1>3, <2>3 DEF Answers
<1> QED
  BY <1>2, <1>3

(* A child that has confirmed the LOAD, once the reply is read.            *)
LEMMA AnswersConfirmed ==
    ASSUME NEW p \in ChildType, NEW q \in ChildType, NEW k \in Key, NEW g, NEW l,
           Confirms(p, k, g), p.outbox # <<>>, p.outbox[1] = Status("OK"),
           q.peer = p.peer, q.model = p.model, q.gen = p.gen,
           q.inbox = p.inbox, q.outbox = Tail(p.outbox)
    PROVE  Answers(q, k, g, FALSE, l)
<1>1. Status("INVALID_MODEL").code = "INVALID_MODEL" /\ Status("OK").code = "OK"
  BY DEF Status
<1>2. /\ p.inbox = <<>> /\ p.outbox = <<Status("OK")>> /\ p.model = k /\ p.gen = g
      /\ p.peer
  BY <1>1 DEF Confirms
<1>3. q.outbox = <<>>
  BY <1>2
<1> QED
  BY <1>2, <1>3 DEF Answers, Orderly

(***************************************************************************)
(* The invariant: what is true of one process that a step leaves alone.    *)

USE DEF fields, registry, life, At

(* The holder of the lock is, or is not, in an exchange about a frame.     *)
SameExchange ==
    \/ op.at # "infer" /\ op'.at # "infer"
    \/ op.at = "infer" /\ op'.at = "infer" /\ answer' = answer

LEMMA ServesKept ==
    ASSUME NEW c, NEW k, NEW g, Serves(c, k, g), SameExchange,
           c # 0 => child'[c] = child[c] /\ c \in mine' /\ c \notin orphans'
    PROVE  IF c = 0 THEN k = None
           ELSE c \in mine' /\ c \notin orphans'
                /\ Answers(child'[c], k, g, op'.at = "infer", answer'.frame + 1)
<1>1. CASE op.at # "infer" /\ op'.at # "infer"
  BY <1>1 DEF Serves, Answers, Orderly
<1>2. CASE op.at = "infer" /\ op'.at = "infer" /\ answer' = answer
  BY <1>2 DEF Serves, Asked
<1> QED
  BY <1>1, <1>2 DEF SameExchange

LEMMA SentKept ==
    ASSUME TypeOK, Sent, child' = child, answer'.frame \in Nat,
           answer'.frame >= answer.frame
    PROVE  Sent'
<1>1. child \in [Child -> ChildType] /\ answer.frame \in Nat
  BY DEF TypeOK, ChildType
<1>2. ASSUME NEW c \in Child PROVE Past(child'[c], answer'.frame + 1)
  <2>1. child[c] \in ChildType /\ Past(child[c], answer.frame + 1)
    BY <1>1 DEF Sent, Asked
  <2>2. answer.frame + 1 \in Nat /\ answer'.frame + 1 \in Nat
        /\ answer.frame + 1 <= answer'.frame + 1
    BY <1>1
  <2> QED
    BY <2>1, <2>2, PastLater
<1> QED
  BY <1>2 DEF Sent, Asked

LEMMA NoResultIs ==
    ASSUME TypeOK
    PROVE  /\ NoResult(Asked) \in [frame: Nat, of: 0..MaxFrames, by: Key \cup {None}]
           /\ NoResult(Asked).frame = answer.frame + 1 /\ answer.frame \in Nat
           /\ NoResult(Asked).by = None
BY DEF TypeOK, NoResult, Asked

LEMMA ActivateKeeps ==
    ASSUME WorkerInv, NEW k \in Key, Activate(k)
    PROVE  WorkerInv'
<1> USE DEF WorkerInv
<1>1. /\ op' \in OpType /\ op'.at \in {"spawn", "inhibit"} /\ op'.why = "none" /\ op'.key = k
      /\ op'.child = 0 /\ op'.old = 0 /\ op'.oldKey = None /\ op'.oldGen = 0
      /\ op'.safety = FALSE /\ op'.infer = FALSE
  <2>1. PICK at \in {"spawn", "inhibit"} : op' = [Idle EXCEPT !.at = at, !.key = k]
    BY DEF Activate
  <2> QED
    BY <2>1, IdleIs DEF OpType
<1>2. TypeOK'
  BY <1>1 DEF Activate, TypeOK
<1>3. Shaped'
  BY <1>1 DEF Activate, TypeOK, Shaped, Known
<1>4. Known'
  BY <1>1 DEF Activate, Known, TypeOK
<1>5. Sent'
  BY NoResultIs, SentKept DEF Activate
<1>6. Residents'
  BY <1>1, ServesKept DEF Activate, Residents, Serves, Loading, Broken, Switching, SameExchange, Asked, Shaped, Known
<1>7. Published'
  BY <1>1 DEF Activate, Published, Switching, Shaped
<1>8. Tracked'
  BY <1>1 DEF Activate, Tracked, Switching, Alive, Shaped
<1> QED
  BY <1>2, <1>3, <1>4, <1>5, <1>6, <1>7, <1>8

LEMMA SpawnFailsKeeps ==
    ASSUME WorkerInv, SpawnFails
    PROVE  WorkerInv'
<1> USE DEF WorkerInv
<1>1. /\ op' \in OpType /\ op'.at = "inhibit" /\ op'.why = op.why /\ op'.key = op.key
      /\ op'.child = op.child /\ op'.old = op.old /\ op'.oldKey = op.oldKey /\ op'.oldGen = op.oldGen
      /\ op'.safety = op.safety /\ op'.infer = op.infer
  BY IdleIs DEF SpawnFails, TypeOK, OpType
<1>2. TypeOK'
  BY <1>1 DEF SpawnFails, TypeOK
<1>3. Shaped'
  BY <1>1 DEF SpawnFails, TypeOK, Shaped, Known
<1>4. Known'
  BY <1>1 DEF SpawnFails, Known, TypeOK
<1>5. Sent'
  BY NoResultIs, SentKept DEF SpawnFails
<1>6. Residents'
  BY <1>1, ServesKept DEF SpawnFails, Residents, Serves, Loading, Broken, Switching, SameExchange, Asked, Shaped, Known
<1>7. Published'
  BY <1>1 DEF SpawnFails, Published, Switching, Shaped
<1>8. Tracked'
  BY <1>1 DEF SpawnFails, Tracked, Switching, Alive, Shaped
<1> QED
  BY <1>2, <1>3, <1>4, <1>5, <1>6, <1>7, <1>8

LEMMA PublishFailsKeeps ==
    ASSUME WorkerInv, PublishFails
    PROVE  WorkerInv'
<1> USE DEF WorkerInv
<1>1. /\ op' \in OpType /\ op'.at = "retire" /\ op'.why = "rollback" /\ op'.key = op.key
      /\ op'.child = worker /\ op'.old = op.old /\ op'.oldKey = op.oldKey /\ op'.oldGen = op.oldGen
      /\ op'.safety = op.safety /\ op'.infer = op.infer
  BY IdleIs DEF PublishFails, TypeOK, OpType, Retire
<1>2. TypeOK'
  BY <1>1 DEF PublishFails, TypeOK
<1>3. Shaped'
  BY <1>1 DEF PublishFails, TypeOK, Shaped, Known
<1>4. Known'
  BY <1>1 DEF PublishFails, Known, TypeOK
<1>5. Sent'
  BY NoResultIs, SentKept DEF PublishFails
<1>6. Residents'
  BY <1>1, ServesKept DEF PublishFails, Residents, Serves, Loading, Broken, Switching, SameExchange, Asked, Shaped, Known
<1>7. Published'
  BY <1>1 DEF PublishFails, Published, Switching, Shaped
<1>8. Tracked'
  BY <1>1 DEF PublishFails, Tracked, Switching, Alive, Shaped
<1> QED
  BY <1>2, <1>3, <1>4, <1>5, <1>6, <1>7, <1>8

LEMMA RestoreKeeps ==
    ASSUME WorkerInv, Restore
    PROVE  WorkerInv'
<1> USE DEF WorkerInv
<1>1. /\ op' \in OpType /\ op'.at = "inhibit" /\ op'.why = op.why /\ op'.key = op.key
      /\ op'.child = op.child /\ op'.old = op.old /\ op'.oldKey = op.oldKey /\ op'.oldGen = op.oldGen
      /\ op'.safety = op.safety /\ op'.infer = op.infer
  BY IdleIs DEF Restore, TypeOK, OpType
<1>2. TypeOK'
  BY <1>1 DEF Restore, TypeOK, OpType
<1>3. Shaped'
  BY <1>1 DEF Restore, TypeOK, Shaped, Known
<1>4. Known'
  BY <1>1 DEF Restore, Known, TypeOK
<1>5. Sent'
  BY NoResultIs, SentKept DEF Restore
<1>6. Residents'
  BY <1>1, ServesKept DEF Restore, Residents, Serves, Loading, Broken, Switching, SameExchange, Asked, Shaped, Known
<1>7. Published'
  BY <1>1 DEF Restore, Published, Switching, Shaped
<1>8. Tracked'
  BY <1>1 DEF Restore, Tracked, Switching, Alive, Shaped
<1> QED
  BY <1>2, <1>3, <1>4, <1>5, <1>6, <1>7, <1>8

LEMMA InhibitKeeps ==
    ASSUME WorkerInv, Inhibit
    PROVE  WorkerInv'
<1> USE DEF WorkerInv
<1>1. /\ op' \in OpType /\ op'.at = "idle" /\ op'.why = "none" /\ op'.key = None
      /\ op'.child = 0 /\ op'.old = 0 /\ op'.oldKey = None /\ op'.oldGen = 0
      /\ op'.safety = FALSE /\ op'.infer = FALSE
  BY IdleIs DEF Inhibit, TypeOK, OpType
<1>2. TypeOK'
  BY <1>1, NoResultIs DEF Inhibit, TypeOK
<1>3. Shaped'
  BY <1>1 DEF Inhibit, TypeOK, Shaped, Known
<1>4. Known'
  BY <1>1 DEF Inhibit, Known, TypeOK
<1>5. Sent'
  BY NoResultIs, SentKept DEF Inhibit
<1>6. Residents'
  BY <1>1, ServesKept DEF Inhibit, Residents, Serves, Loading, Broken, Switching, SameExchange, Asked, Shaped, Known
<1>7. Published'
  BY <1>1 DEF Inhibit, Published, Switching, Shaped
<1>8. Tracked'
  BY <1>1 DEF Inhibit, Tracked, Switching, Alive, Shaped
<1> QED
  BY <1>2, <1>3, <1>4, <1>5, <1>6, <1>7, <1>8

LEMMA StopKeeps ==
    ASSUME WorkerInv, Stop
    PROVE  WorkerInv'
<1> USE DEF WorkerInv
<1>1. /\ op' \in OpType /\ op'.at = "stop" /\ op'.why = "none" /\ op'.key = None
      /\ op'.child = 0 /\ op'.old = 0 /\ op'.oldKey = None /\ op'.oldGen = 0
      /\ op'.safety = FALSE /\ op'.infer = FALSE
  BY IdleIs DEF Stop, TypeOK, OpType
<1>2. TypeOK'
  BY <1>1 DEF Stop, TypeOK
<1>3. Shaped'
  BY <1>1 DEF Stop, TypeOK, Shaped, Known
<1>4. Known'
  BY <1>1 DEF Stop, Known, TypeOK
<1>5. Sent'
  BY NoResultIs, SentKept DEF Stop
<1>6. Residents'
  BY <1>1, ServesKept DEF Stop, Residents, Serves, Loading, Broken, Switching, SameExchange, Asked, Shaped, Known
<1>7. Published'
  BY <1>1 DEF Stop, Published, Switching, Shaped
<1>8. Tracked'
  BY <1>1 DEF Stop, Tracked, Switching, Alive, Shaped
<1> QED
  BY <1>2, <1>3, <1>4, <1>5, <1>6, <1>7, <1>8

LEMMA StopDoneKeeps ==
    ASSUME WorkerInv, StopDone
    PROVE  WorkerInv'
<1> USE DEF WorkerInv
<1>1. /\ op' \in OpType /\ op'.at = "idle" /\ op'.why = "none" /\ op'.key = None
      /\ op'.child = 0 /\ op'.old = 0 /\ op'.oldKey = None /\ op'.oldGen = 0
      /\ op'.safety = FALSE /\ op'.infer = FALSE
  BY IdleIs DEF StopDone, TypeOK, OpType
<1>2. TypeOK'
  BY <1>1 DEF StopDone, TypeOK
<1>3. Shaped'
  BY <1>1 DEF StopDone, TypeOK, Shaped, Known
<1>4. Known'
  BY <1>1 DEF StopDone, Known, TypeOK
<1>5. Sent'
  BY NoResultIs, SentKept DEF StopDone
<1>6. Residents'
  BY <1>1, ServesKept DEF StopDone, Residents, Serves, Loading, Broken, Switching, SameExchange, Asked, Shaped, Known
<1>7. Published'
  BY <1>1 DEF StopDone, Published, Switching, Shaped
<1>8. Tracked'
  BY <1>1 DEF StopDone, Tracked, Switching, Alive, Shaped
<1> QED
  BY <1>2, <1>3, <1>4, <1>5, <1>6, <1>7, <1>8

LEMMA BootKeeps ==
    ASSUME WorkerInv, Boot
    PROVE  WorkerInv'
<1> USE DEF WorkerInv
<1>1. /\ op' \in OpType /\ op'.at = op.at /\ op'.why = op.why /\ op'.key = op.key
      /\ op'.child = op.child /\ op'.old = op.old /\ op'.oldKey = op.oldKey /\ op'.oldGen = op.oldGen
      /\ op'.safety = op.safety /\ op'.infer = op.infer
  BY IdleIs DEF Boot, TypeOK, OpType
<1>2. TypeOK'
  BY <1>1 DEF Boot, TypeOK
<1>3. Shaped'
  BY <1>1 DEF Boot, TypeOK, Shaped, Known
<1>4. Known'
  BY <1>1 DEF Boot, Known, TypeOK
<1>5. Sent'
  BY NoResultIs, SentKept DEF Boot
<1>6. Residents'
  BY <1>1, ServesKept DEF Boot, Residents, Serves, Loading, Broken, Switching, SameExchange, Asked, Shaped, Known
<1>7. Published'
  BY <1>1 DEF Boot, Published, Switching, Shaped
<1>8. Tracked'
  BY DEF Boot, Known, Tracked
<1> QED
  BY <1>2, <1>3, <1>4, <1>5, <1>6, <1>7, <1>8

LEMMA RecoverKeeps ==
    ASSUME WorkerInv, Recover
    PROVE  WorkerInv'
<1> USE DEF WorkerInv
<1>1. /\ op' \in OpType /\ op'.at = op.at /\ op'.why = op.why /\ op'.key = op.key
      /\ op'.child = op.child /\ op'.old = op.old /\ op'.oldKey = op.oldKey /\ op'.oldGen = op.oldGen
      /\ op'.safety = op.safety /\ op'.infer = op.infer
  BY IdleIs DEF Recover, TypeOK, OpType
<1>2. TypeOK'
  BY <1>1 DEF Recover, TypeOK
<1>3. Shaped'
  BY <1>1 DEF Recover, TypeOK, Shaped, Known
<1>4. Known'
  BY <1>1 DEF Recover, Known, TypeOK
<1>5. Sent'
  BY NoResultIs, SentKept DEF Recover
<1>6. Residents'
  BY <1>1, ServesKept DEF Recover, Residents, Serves, Loading, Broken, Switching, SameExchange, Asked, Shaped, Known
<1>7. Published'
  BY <1>1 DEF Recover, Published, Switching, Shaped
<1>8. Tracked'
  BY <1>1 DEF Recover, Tracked, Switching, Alive, Shaped
<1> QED
  BY <1>2, <1>3, <1>4, <1>5, <1>6, <1>7, <1>8

LEMMA NoWorkerKeeps ==
    ASSUME WorkerInv, NoWorker
    PROVE  WorkerInv'
<1> USE DEF WorkerInv
<1>1. /\ op' \in OpType /\ op'.at = "idle" /\ op'.why = "none" /\ op'.key = None
      /\ op'.child = 0 /\ op'.old = 0 /\ op'.oldKey = None /\ op'.oldGen = 0
      /\ op'.safety = FALSE /\ op'.infer = FALSE
  BY IdleIs DEF NoWorker, TypeOK, OpType, Done, CanAsk
<1>2. TypeOK'
  BY <1>1, NoResultIs DEF NoWorker, Done, TypeOK
<1>3. Shaped'
  BY <1>1 DEF NoWorker, TypeOK, Shaped, Known, NoResult, Asked, Done, CanAsk
<1>4. Known'
  BY <1>1 DEF NoWorker, Known, TypeOK, NoResult, Asked, Done, CanAsk
<1>5. Sent'
  BY NoResultIs, SentKept DEF NoWorker, Done
<1>6. Residents'
  BY <1>1, ServesKept DEF NoWorker, Residents, Serves, Loading, Broken, Switching, SameExchange, Asked, Shaped, Known, NoResult, Asked, Done, CanAsk
<1>7. Published'
  BY <1>1 DEF NoWorker, Published, Switching, Shaped, NoResult, Asked, Done, CanAsk
<1>8. Tracked'
  BY <1>1 DEF NoWorker, Tracked, Switching, Alive, Shaped, NoResult, Asked, Done, CanAsk
<1> QED
  BY <1>2, <1>3, <1>4, <1>5, <1>6, <1>7, <1>8

LEMMA FoundDeadKeeps ==
    ASSUME WorkerInv, FoundDead
    PROVE  WorkerInv'
<1> USE DEF WorkerInv
<1>1. /\ op' \in OpType /\ op'.at = "retire" /\ op'.why = "lost" /\ op'.key = None
      /\ op'.child = worker /\ op'.old = 0 /\ op'.oldKey = None /\ op'.oldGen = 0
      /\ op'.safety \in BOOLEAN /\ op'.infer = TRUE
  BY IdleIs DEF FoundDead, TypeOK, OpType, Drop, CanAsk
<1>2. TypeOK'
  BY <1>1 DEF FoundDead, TypeOK, Drop, CanAsk
<1>3. Shaped'
  BY <1>1 DEF FoundDead, Shaped, Known, Residents, Broken, Serves, Drop, CanAsk
<1>4. Known'
  BY <1>1 DEF FoundDead, Known, TypeOK, Drop, CanAsk
<1>5. Sent'
  BY NoResultIs, SentKept DEF FoundDead, Drop
<1>6. Residents'
  BY <1>1, ServesKept DEF FoundDead, Residents, Serves, Loading, Broken, Switching, SameExchange, Asked, Shaped, Known, Drop, CanAsk
<1>7. Published'
  BY <1>1 DEF FoundDead, Published, Switching, Shaped, Drop, CanAsk
<1>8. Tracked'
  BY <1>1 DEF FoundDead, Tracked, Switching, Alive, Shaped, Drop, CanAsk
<1> QED
  BY <1>2, <1>3, <1>4, <1>5, <1>6, <1>7, <1>8

LEMMA SentOnly ==
    ASSUME TypeOK, Sent, NEW c \in Child, Only(c), answer'.frame \in Nat,
           answer'.frame >= answer.frame, Past(child'[c], answer'.frame + 1)
    PROVE  Sent'
<1>1. child \in [Child -> ChildType] /\ answer.frame \in Nat
  BY DEF TypeOK, ChildType
<1>2. ASSUME NEW d \in Child PROVE Past(child'[d], answer'.frame + 1)
  <2>1. child[d] \in ChildType /\ Past(child[d], answer.frame + 1)
    BY <1>1 DEF Sent, Asked
  <2>2. answer.frame + 1 \in Nat /\ answer'.frame + 1 \in Nat
        /\ answer.frame + 1 <= answer'.frame + 1
    BY <1>1
  <2>3. CASE d = c
    BY <2>3
  <2>4. CASE d # c
    <3>1. child'[d] = child[d]
      BY <2>4 DEF Only
    <3> QED
      BY <2>1, <2>2, <3>1, PastLater
  <2> QED
    BY <2>3, <2>4
<1> QED
  BY <1>2 DEF Sent, Asked

LEMMA PastStill ==
    ASSUME TypeOK, Sent, NEW c \in Child, Only(c), answer'.frame \in Nat,
           answer'.frame >= answer.frame
    PROVE  /\ Past(child[c], answer'.frame + 1)
           /\ child[c] \in ChildType /\ child'[c] \in ChildType
           /\ answer'.frame + 1 \in Nat
<1>1. /\ child[c] \in ChildType /\ child'[c] \in ChildType
      /\ answer.frame + 1 \in Nat /\ answer'.frame + 1 \in Nat
      /\ answer.frame + 1 <= answer'.frame + 1
  BY DEF TypeOK, ChildType, Only
<1>2. Past(child[c], answer.frame + 1)
  BY DEF Sent, Asked
<1> QED
  BY <1>1, <1>2, PastLater

LEMMA KnownKept ==
    ASSUME TypeOK, Known, NEW c \in Child, Only(c), daemon # "down",
           child[c].state # "unborn" => child'[c].state # "unborn",
           orphans' \subseteq mine, mine' = mine, daemon' = daemon
    PROVE  Known'
<1>1. ASSUME NEW d \in mine PROVE child'[d].state # "unborn"
  <2>1. d \in Child /\ child[d].state # "unborn"
    BY DEF TypeOK, Known
  <2> QED
    BY <2>1 DEF Only
<1> QED
  BY <1>1 DEF Known

LEMMA StutterKeeps ==
    ASSUME WorkerInv, UNCHANGED vars
    PROVE  WorkerInv'
<1> USE DEF WorkerInv, vars
<1>1. TypeOK'
  BY DEF TypeOK
<1>5. Shaped'
  BY DEF Shaped
<1>2. Known' /\ Sent'
  BY DEF Known, Sent, Asked
<1>3. Residents' /\ Published'
  BY DEF Residents, Published, Serves, Loading, Broken, Switching, Asked
<1>4. Tracked'
  BY DEF Tracked, Switching, Alive
<1> QED
  BY <1>1, <1>2, <1>3, <1>4, <1>5

LEMMA ReceiveFailsKeeps ==
    ASSUME WorkerInv, ReceiveFails
    PROVE  WorkerInv'
<1> USE DEF WorkerInv
<1>1. /\ op' \in OpType /\ op'.at = "retire" /\ op'.why = "lost" /\ op'.key = None
      /\ op'.child = worker /\ op'.old = 0 /\ op'.oldKey = None /\ op'.oldGen = 0
      /\ op'.safety = FALSE /\ op'.infer = TRUE
  BY IdleIs DEF ReceiveFails, TypeOK, OpType, Drop
<1>2. TypeOK'
  BY <1>1 DEF ReceiveFails, TypeOK, Drop
<1>3. Shaped'
  BY <1>1 DEF ReceiveFails, Shaped, Known, Residents, Broken, Serves, Drop
<1>4. Known'
  BY <1>1 DEF ReceiveFails, Known, TypeOK, Drop
<1>5. Sent'
  BY NoResultIs, SentKept DEF ReceiveFails, Drop
<1>6. Residents'
  BY <1>1, ServesKept DEF ReceiveFails, Residents, Serves, Loading, Broken, Switching, SameExchange, Asked, Shaped, Known, Drop
<1>7. Published'
  BY <1>1 DEF ReceiveFails, Published, Switching, Shaped, Drop
<1>8. Tracked'
  BY <1>1 DEF ReceiveFails, Tracked, Switching, Alive, Shaped, Drop
<1> QED
  BY <1>2, <1>3, <1>4, <1>5, <1>6, <1>7, <1>8

LEMMA StopNextKeeps ==
    ASSUME WorkerInv, StopNext
    PROVE  WorkerInv'
<1> USE DEF WorkerInv
<1>0. /\ op.at = "stop" /\ daemon # "down"
      /\ UNCHANGED <<child, daemon, deaths, mine, answer, active, inhibition>>
  BY DEF StopNext
<1>1. /\ op' \in OpType /\ op'.at = "retire" /\ op'.why = "stop"
      /\ op'.old = op.old /\ op'.infer = op.infer
      /\ op'.child \in mine
      /\ worker' = 0 /\ workerKey' = None /\ workerGen' \in Nat
      /\ orphans' \subseteq orphans
  <2>1. op.why \in {"none", "stop"}
    BY DEF StopNext, Shaped
  <2>2. CASE worker # 0
    <3>1. worker \in mine /\ worker \in 0..MaxChildren
      BY <2>1, <2>2 DEF Residents, Serves, Broken, TypeOK
    <3>2. op' = Retire(worker, "stop") /\ worker' = 0 /\ workerKey' = None
          /\ workerGen' = workerGen /\ orphans' = orphans
      BY <2>2 DEF StopNext
    <3> QED
      BY <3>1, <3>2 DEF Retire, TypeOK, OpType
  <2>3. CASE worker = 0
    <3>1. PICK c \in orphans : orphans' = orphans \ {c} /\ op' = Retire(c, "stop")
      BY <2>3 DEF StopNext
    <3>2. c \in mine /\ workerKey = None
      BY <2>1, <2>3 DEF Known, Residents, Serves, Broken
    <3>3. c \in 0..MaxChildren /\ worker' = 0 /\ workerKey' = None /\ workerGen' = workerGen
      BY <2>3, <3>1, <3>2 DEF StopNext, TypeOK
    <3> QED
      BY <3>1, <3>2, <3>3 DEF Retire, TypeOK, OpType
  <2> QED
    BY <2>2, <2>3
<1>2. TypeOK'
  BY <1>0, <1>1, SMTT(30) DEF TypeOK
<1>3. Shaped'
  BY <1>0, <1>1 DEF Shaped
<1>4. Known'
  BY <1>0, <1>1 DEF Known
<1>5. Sent'
  BY <1>0, NoResultIs, SentKept
<1>6. Residents'
  BY <1>0, <1>1 DEF Residents, Serves, Broken, Switching
<1>7. Published'
  BY <1>1 DEF Published, Switching
<1>8. Tracked'
  BY <1>1 DEF Tracked
<1> QED
  BY <1>2, <1>3, <1>4, <1>5, <1>6, <1>7, <1>8

LEMMA PublishKeeps ==
    ASSUME WorkerInv, Publish
    PROVE  WorkerInv'
<1> USE DEF WorkerInv
<1>1. /\ worker \in mine /\ worker # 0 /\ op.old # worker /\ op.why = "none"
      /\ Serves(worker, workerKey, workerGen) /\ workerKey \in Key
      /\ Serves(op.old, op.oldKey, op.oldGen) /\ (op.old # 0 => op.old \in mine)
  <2>1. worker \in mine /\ worker # 0 /\ op.old # worker /\ op.why = "none"
    BY DEF Publish, Shaped, TypeOK
  <2>2. Serves(worker, workerKey, workerGen) /\ Serves(op.old, op.oldKey, op.oldGen)
    BY <2>1 DEF Publish, Residents, Broken, Switching
  <2> QED
    BY <2>1, <2>2 DEF Serves, Answers
<1>2. /\ op' \in OpType /\ ~op'.infer
      /\ \/ op' = Idle /\ op'.at = "idle" /\ op'.why = "none" /\ op.old = 0
         \/ /\ op'.at = "retire" /\ op'.why = "replaced"
            /\ op'.child = op.old /\ op.old \in mine
  <2>1. ~op.infer
    BY <1>1 DEF Publish, Shaped
  <2> QED
    BY <1>1, <2>1, IdleIs DEF Publish, Retire, TypeOK, OpType
<1>3. TypeOK'
  BY <1>1, <1>2 DEF Publish, TypeOK
<1>4. Shaped'
  BY <1>1, <1>2 DEF Publish, Shaped
<1>5. Known'
  BY <1>2 DEF Publish, Known
<1>6. Sent'
  BY NoResultIs, SentKept DEF Publish
<1>7. Residents'
  BY <1>1, <1>2, ServesKept DEF Publish, Residents, Serves, Broken, Switching, SameExchange, Asked, Known
<1>8. Published'
  BY <1>2 DEF Publish, Published, Switching
<1>9. Tracked'
  <2>1. op.at = "publish" /\ UNCHANGED <<daemon, child, mine, orphans, worker>>
    BY DEF Publish
  <2>2. ASSUME daemon = "up", NEW c \in mine, Alive(c)
        PROVE  c \in orphans \/ c = worker \/ c = op.old
    BY <1>1, <2>1, <2>2 DEF Tracked
  <2>3. \A c \in mine : c # 0
    BY DEF TypeOK
  <2> QED
    BY <1>2, <2>1, <2>2, <2>3 DEF Tracked, Alive
<1> QED
  BY <1>3, <1>4, <1>5, <1>6, <1>7, <1>8, <1>9

LEMMA ReceiveLateKeeps ==
    ASSUME WorkerInv, ReceiveLate
    PROVE  WorkerInv'
<1> USE DEF WorkerInv
<1>1. op' = Idle /\ op' \in OpType /\ op'.at = "idle" /\ op'.why = "none" /\ ~op'.infer
  BY IdleIs DEF ReceiveLate, Done
<1>2. op.why = "none" /\ worker # 0
  BY DEF ReceiveLate, Shaped
<1>3. worker \in mine /\ worker \in Child /\ worker \notin orphans
      /\ Answers(child[worker], workerKey, workerGen, TRUE, Asked)
  BY <1>2 DEF ReceiveLate, Residents, Broken, Serves, TypeOK
<1>4. child[worker] \in ChildType
  BY <1>3 DEF TypeOK, ChildType
<1>5. Answers(child[worker], workerKey, workerGen, FALSE, answer'.frame + 1)
  BY <1>3, <1>4, AnswersLate DEF ReceiveLate, Replied
<1>6. TypeOK'
  BY <1>1, NoResultIs DEF ReceiveLate, Done, TypeOK
<1>7. Shaped'
  BY <1>1 DEF ReceiveLate, Done, Shaped
<1>8. Known'
  BY <1>1 DEF ReceiveLate, Done, Known
<1>9. Sent'
  BY NoResultIs, SentKept DEF ReceiveLate, Done
<1>10. Residents'
  BY <1>1, <1>3, <1>5 DEF ReceiveLate, Done, Residents, Serves, Broken, Switching, Asked
<1>11. Published'
  BY <1>1, <1>2 DEF ReceiveLate, Done, Published, Switching
<1>12. Tracked'
  BY <1>1, <1>2 DEF ReceiveLate, Done, Tracked, Alive, Switching
<1> QED
  BY <1>6, <1>7, <1>8, <1>9, <1>10, <1>11, <1>12

LEMMA SpawnKeeps ==
    ASSUME WorkerInv, NEW c \in Child, Spawn(c)
    PROVE  WorkerInv'
<1> USE DEF WorkerInv
<1>1. /\ op' \in OpType /\ op'.at = "load" /\ op'.why = "none" /\ op'.key = op.key
      /\ op'.child = c /\ op'.old = op.old /\ ~op'.infer /\ op.key \in Key /\ op.why = "none"
  <2>1. op.at = "spawn" /\ op' = [op EXCEPT !.at = "load", !.child = c]
    BY DEF Spawn
  <2>2. op \in OpType /\ c \in 0..MaxChildren
    BY DEF TypeOK
  <2>3. op.why = "none" /\ op.key \in Key /\ ~op.infer
    BY <2>1, <2>2 DEF Shaped, OpType
  <2> QED
    BY <2>1, <2>2, <2>3 DEF OpType
<1>2. /\ Only(c) /\ child'[c].state = "up" /\ child'[c].peer
      /\ child'[c].inbox = <<Load(op.key, workerGen + 1)>> /\ child'[c].outbox = <<>>
  BY <1>1, SpawnIs
<1>3. c \notin mine /\ c \notin orphans /\ c # worker
  <2>1. worker # 0 => worker \in mine
    BY <1>1 DEF Residents, Serves, Broken
  <2>2. c # 0
    OBVIOUS
  <2> QED
    BY <2>1, <2>2 DEF Spawn, Known
<1>4. TypeOK'
  BY <1>1, <1>2 DEF Spawn, TypeOK, Only, ChildType
<1>5. Shaped'
  BY <1>1 DEF Spawn, Shaped
<1>6. Known'
  BY <1>2 DEF Spawn, Known, Only
<1>7. Sent'
  <2>1. answer'.frame = answer.frame /\ answer.frame \in Nat
    BY DEF Spawn, TypeOK
  <2>2. Load(op.key, workerGen + 1).frame = 0
    BY DEF Load
  <2>3. \A i \in 1..Len(child'[c].inbox) : child'[c].inbox[i] = Load(op.key, workerGen + 1)
    BY <1>2
  <2>4. Past(child'[c], answer'.frame + 1)
    BY <1>2, <2>1, <2>2, <2>3 DEF Past
  <2> QED
    BY <1>2, <2>1, <2>4, SentOnly
<1>8. Residents'
  <2>1. Serves(worker, workerKey, workerGen) /\ ~Switching
    BY <1>1 DEF Spawn, Residents, Broken, Switching
  <2>2. worker # 0 => /\ child'[worker] = child[worker]
                      /\ worker \in mine' /\ worker \notin orphans'
    BY <1>2, <1>3, <2>1 DEF Spawn, Serves, Only, TypeOK
  <2>3. Serves(worker, workerKey, workerGen)'
    BY <1>1, <2>1, <2>2, ServesKept DEF Spawn, Serves, SameExchange, Asked
  <2>4. Loading(op.child, op.key, workerGen + 1)'
    BY <1>1, <1>2, <1>3 DEF Spawn, Loading, Confirms
  <2> QED
    BY <1>1, <2>3, <2>4 DEF Residents, Broken, Switching
<1>9. Published'
  BY <1>1 DEF Spawn, Published, Switching
<1>10. Tracked'
  BY <1>1, <1>2 DEF Spawn, Tracked, Switching, Alive, Only, TypeOK
<1> QED
  BY <1>4, <1>5, <1>6, <1>7, <1>8, <1>9, <1>10

LEMMA SwapKeeps ==
    ASSUME WorkerInv, Swap
    PROVE  WorkerInv'
<1> USE DEF WorkerInv
<1> DEFINE c == op.child
<1>1. /\ op' \in OpType /\ op'.at = "publish" /\ op'.why = "none" /\ op'.old = worker
      /\ op'.oldKey = workerKey /\ op'.oldGen = workerGen /\ ~op'.infer
      /\ op.why = "none" /\ op.key \in Key
  BY DEF Swap, Shaped, TypeOK, OpType
<1>2. /\ c \in mine /\ c \in Child /\ c \notin orphans /\ c # worker
      /\ Confirms(child[c], op.key, workerGen + 1)
  BY DEF Swap, Residents, Loading, TypeOK
<1>3. child[c].outbox # <<>> /\ Read(c) /\ Head(child[c].outbox) = Status("OK")
  BY DEF Swap
<1>4. /\ Still(c) /\ child'[c].inbox = child[c].inbox
      /\ child'[c].outbox = Tail(child[c].outbox) /\ child[c].outbox[1] = Status("OK")
  BY <1>2, <1>3, ReadIs
<1>5. /\ worker' = c /\ workerKey' = op.key /\ workerGen' = workerGen + 1
      /\ op.at = "load" /\ daemon # "down"
      /\ UNCHANGED <<orphans, daemon, deaths, mine, answer, active, inhibition>>
  BY DEF Swap
<1> HIDE DEF c
<1>6. TypeOK'
  <2>1. child' \in [Child -> ChildType]
    BY <1>4 DEF Still, Only
  <2>2. worker' \in 0..MaxChildren /\ workerKey' \in Key \cup {None} /\ workerGen' \in Nat
    BY <1>1, <1>2, <1>5 DEF TypeOK
  <2> QED
    BY <1>1, <1>5, <2>1, <2>2 DEF TypeOK, ChildType
<1>7. Shaped'
  BY <1>1, <1>2, <1>5 DEF Swap, Shaped
<1>8. Known'
  BY <1>2, <1>4, <1>5, KnownKept DEF Still, Known
<1>9. answer'.frame = answer.frame /\ answer.frame \in Nat
  BY DEF Swap, TypeOK
<1>10. Sent'
  <2>1. Past(child'[c], answer'.frame + 1)
    BY <1>2, <1>3, <1>4, <1>9, PastStill, PastRead DEF Still
  <2> QED
    BY <1>2, <1>4, <1>9, <2>1, SentOnly DEF Still
<1>11. Residents'
  <2>1. Serves(worker, workerKey, workerGen) /\ ~Switching /\ op.at # "infer"
    BY <1>1 DEF Swap, Residents, Broken, Switching
  <2>2. worker # 0 => /\ child'[worker] = child[worker]
                      /\ worker \in mine' /\ worker \notin orphans'
    BY <1>2, <1>4, <2>1 DEF Swap, Serves, Still, Only, TypeOK
  <2>3. Serves(op.old, op.oldKey, op.oldGen)'
    BY <1>1, <2>1, <2>2, ServesKept DEF Swap, Serves, SameExchange, Asked
  <2>4. child[c] \in ChildType /\ child'[c] \in ChildType
    BY <1>2, <1>4 DEF TypeOK, ChildType, Still, Only
  <2>5. Answers(child'[c], op.key, workerGen + 1, FALSE, answer'.frame + 1)
    BY <1>1, <1>2, <1>3, <1>4, <2>4, AnswersConfirmed DEF Still
  <2>6. Serves(worker, workerKey, workerGen)'
    <3>1. /\ (op'.at = "infer") = FALSE /\ c # 0
          /\ mine' = mine /\ orphans' = orphans
      BY <1>1, <1>2, <1>5
    <3> QED
      BY <1>2, <1>5, <2>5, <3>1 DEF Serves, Asked
  <2> QED
    BY <1>1, <2>3, <2>6 DEF Residents
<1>12. Published'
  BY <1>1 DEF Swap, Published, Switching
<1>13. Tracked'
  <2>1. daemon' = daemon /\ mine' = mine /\ orphans' = orphans /\ op.at = "load"
    BY DEF Swap
  <2>2. ASSUME daemon = "up", NEW d \in mine, Alive(d)
        PROVE  d \in orphans \/ d = worker \/ d = c
    BY <1>1, <2>1, <2>2 DEF Tracked, Switching, c
  <2>3. \A d \in mine : Alive(d)' => Alive(d)
    BY <1>2, <1>4 DEF Still, Only, Alive, TypeOK
  <2> QED
    BY <1>1, <1>5, <2>1, <2>2, <2>3 DEF Tracked, Switching
<1> QED
  BY <1>6, <1>7, <1>8, <1>10, <1>11, <1>12, <1>13

LEMMA LoadFailsKeeps ==
    ASSUME WorkerInv, LoadFails
    PROVE  WorkerInv'
<1> USE DEF WorkerInv
<1> DEFINE c == op.child
<1>1. /\ op' \in OpType /\ op'.at = "retire" /\ op'.why = "refused" /\ op'.child = c
      /\ op'.old = op.old /\ ~op'.infer /\ op.why = "none"
  BY DEF LoadFails, Retire, Shaped, TypeOK, OpType
<1>2. c \in mine /\ c \in Child /\ c \notin orphans /\ c # worker
  BY DEF LoadFails, Residents, Loading, TypeOK
<1>3. /\ op.at = "load" /\ daemon # "down"
      /\ UNCHANGED <<worker, workerKey, workerGen, orphans, daemon, deaths, mine, answer,
                     active, inhibition>>
  BY DEF LoadFails
<1>4. /\ Only(c) /\ child'[c].state = child[c].state
      /\ Past(child'[c], answer'.frame + 1)
  <2>1. answer'.frame = answer.frame /\ answer.frame \in Nat
    BY <1>3 DEF TypeOK
  <2>2. CASE child[c].outbox # <<>> /\ Read(c)
    <3>1. /\ Still(c) /\ child'[c].inbox = child[c].inbox
          /\ child'[c].outbox = Tail(child[c].outbox)
      BY <1>2, <2>2, ReadIs
    <3> QED
      BY <1>2, <2>1, <2>2, <3>1, PastStill, PastRead DEF Still
  <2>3. CASE UNCHANGED child
    <3>1. Only(c) /\ child'[c] = child[c]
      BY <1>2, <2>3 DEF Only, TypeOK, ChildType
    <3> QED
      BY <1>2, <2>1, <3>1, PastStill
  <2> QED
    BY <2>2, <2>3 DEF LoadFails
<1> HIDE DEF c
<1>5. TypeOK'
  BY <1>1, <1>3, <1>4 DEF TypeOK, Only, ChildType
<1>6. Shaped'
  BY <1>1, <1>2, <1>3 DEF Shaped
<1>7. Known'
  BY <1>2, <1>3, <1>4, KnownKept DEF Known
<1>8. Sent'
  <2>1. answer'.frame = answer.frame /\ answer.frame \in Nat
    BY <1>3 DEF TypeOK
  <2> QED
    BY <1>2, <1>4, <2>1, SentOnly
<1>9. Residents'
  <2>1. Serves(worker, workerKey, workerGen)
    BY <1>1, <1>3 DEF Residents, Broken
  <2>2. worker # 0 => /\ child'[worker] = child[worker]
                      /\ worker \in mine' /\ worker \notin orphans'
    BY <1>2, <1>3, <1>4, <2>1 DEF Serves, Only, TypeOK
  <2>3. Serves(worker, workerKey, workerGen)'
    BY <1>1, <1>3, <2>1, <2>2, ServesKept DEF Serves, SameExchange, Asked
  <2> QED
    BY <1>1, <2>3 DEF Residents, Switching
<1>10. Published'
  BY <1>1, <1>3 DEF Published, Switching
<1>11. Tracked'
  <2>1. \A d \in mine : Alive(d)' => Alive(d)
    BY <1>2, <1>4 DEF Only, Alive, TypeOK
  <2> QED
    BY <1>1, <1>3, <2>1 DEF Tracked, Switching, c
<1> QED
  BY <1>5, <1>6, <1>7, <1>8, <1>9, <1>10, <1>11

(* The worker, while it is the one that serves.                            *)
LEMMA WorkerServes ==
    ASSUME WorkerInv, worker # 0, op.why = "none"
    PROVE  /\ worker \in mine /\ worker \in Child /\ worker \notin orphans
           /\ child[worker] \in ChildType /\ child[worker].gen \in Nat
           /\ Answers(child[worker], workerKey, workerGen, op.at = "infer", Asked)
           /\ Past(child[worker], Asked)
<1>1. /\ worker \in mine /\ worker \notin orphans
      /\ Answers(child[worker], workerKey, workerGen, op.at = "infer", Asked)
  BY DEF WorkerInv, Residents, Broken, Serves
<1>2. worker \in Child /\ child[worker] \in ChildType /\ child[worker].gen \in Nat
  BY <1>1 DEF WorkerInv, TypeOK, ChildType
<1> QED
  BY <1>1, <1>2 DEF WorkerInv, Sent

LEMMA AskKeeps ==
    ASSUME WorkerInv, Ask
    PROVE  WorkerInv'
<1> USE DEF WorkerInv
<1>1. /\ op' = [Idle EXCEPT !.at = "infer", !.infer = TRUE]
      /\ op.at = "idle" /\ daemon = "up" /\ Asked <= MaxFrames /\ worker # 0 /\ Alive(worker)
      /\ Put(Infer(Asked, child[worker].gen))
      /\ UNCHANGED <<worker, workerKey, workerGen, orphans, daemon, deaths, mine, answer,
                     active, inhibition>>
  BY DEF Ask, CanAsk
<1>2. /\ op' \in OpType /\ op'.at = "infer" /\ op'.why = "none" /\ op'.infer
      /\ op'.child = 0 /\ op'.old = 0
  BY <1>1, IdleIs DEF OpType
<1>3. op.why = "none"
  BY <1>1, IdleIs DEF Shaped
<1>4. Asked \in 0..MaxFrames /\ answer.frame \in Nat /\ Asked = answer.frame + 1
  BY <1>1 DEF TypeOK, Asked
<1>5. Infer(Asked, child[worker].gen) \in Requests
      /\ Infer(Asked, child[worker].gen).frame = Asked
  BY <1>1, <1>3, <1>4, WorkerServes, Messages DEF Infer
<1>6. /\ Still(worker)
      /\ child'[worker].inbox = Append(child[worker].inbox, Infer(Asked, child[worker].gen))
      /\ child'[worker].outbox = child[worker].outbox
  BY <1>1, <1>3, <1>5, WorkerServes, PutIs
<1>7. TypeOK'
  BY <1>1, <1>2, <1>6 DEF TypeOK, Still, Only, ChildType
<1>8. Shaped'
  BY <1>1, <1>2 DEF Shaped
<1>9. worker \in Child /\ child'[worker] \in ChildType
  BY <1>1, <1>3, <1>6, WorkerServes DEF Still, Only
<1>10. Known'
  BY <1>1, <1>6, <1>9, KnownKept DEF Still, Known
<1>11. Sent'
  <2>1. answer'.frame = answer.frame /\ Asked \in Nat
    BY <1>1, <1>4
  <2>2. Past(child'[worker], Asked)
    <3>1. child[worker] \in ChildType /\ Past(child[worker], Asked)
      BY <1>1, <1>3, WorkerServes
    <3>2. Infer(Asked, child[worker].gen).frame <= Asked
      BY <1>4, <1>5
    <3> QED
      BY <1>5, <1>6, <1>9, <2>1, <3>1, <3>2, PastPut
  <2> QED
    BY <1>4, <1>6, <1>9, <2>1, <2>2, SentOnly DEF Still
<1>12. Residents'
  <2>1. Answers(child[worker], workerKey, workerGen, FALSE, Asked)
    BY <1>1, <1>3, WorkerServes
  <2>2. Answers(child'[worker], workerKey, workerGen, TRUE, Asked)
    BY <1>1, <1>3, <1>5, <1>6, <1>9, <2>1, WorkerServes, AnswersAsked DEF Still, Alive
  <2>3. Serves(worker, workerKey, workerGen)'
    BY <1>1, <1>2, <1>3, <2>2, WorkerServes DEF Serves, Asked
  <2> QED
    BY <1>2, <2>3 DEF Residents, Switching
<1>13. Published'
  BY <1>1, <1>2, <1>3 DEF Published, Switching
<1>14. Tracked'
  <2>1. \A d \in mine : Alive(d)' => Alive(d)
    BY <1>6, <1>9 DEF Still, Only, Alive, TypeOK
  <2> QED
    BY <1>1, <1>2, <1>3, <2>1 DEF Tracked, Switching
<1> QED
  BY <1>7, <1>8, <1>10, <1>11, <1>12, <1>13, <1>14

(* An answer that leaves the worker, whose streams may have changed.       *)
LEMMA DoneKeeps ==
    ASSUME WorkerInv, NEW result, Done(result), worker # 0, op.why = "none",
           op.at \in {"idle", "infer"}, daemon # "down",
           result \in [frame: Nat, of: 0..MaxFrames, by: Key \cup {None}],
           result.frame = Asked, Only(worker),
           child'[worker].state = child[worker].state,
           Past(child'[worker], Asked + 1),
           Answers(child'[worker], workerKey, workerGen, FALSE, Asked + 1)
    PROVE  WorkerInv'
<1> USE DEF WorkerInv
<1>1. /\ op' = Idle /\ answer' = result
      /\ UNCHANGED <<worker, workerKey, workerGen, orphans, daemon, deaths, mine,
                     active, inhibition>>
  BY DEF Done
<1>2. op' \in OpType /\ op'.at = "idle" /\ op'.why = "none" /\ ~op'.infer
  BY <1>1, IdleIs
<1>3. worker \in mine /\ worker \in Child /\ worker \notin orphans
  BY WorkerServes
<1>4. TypeOK'
  BY <1>1, <1>2 DEF TypeOK, Only, ChildType
<1>5. Shaped'
  BY <1>1, <1>2 DEF Shaped
<1>6. Known'
  BY <1>1, <1>3, KnownKept DEF Known
<1>7. Sent'
  <2>1. /\ answer'.frame = answer.frame + 1 /\ answer.frame \in Nat
        /\ answer'.frame + 1 = Asked + 1
    BY <1>1 DEF TypeOK, Asked
  <2> QED
    BY <1>3, <2>1, SentOnly
<1>8. Residents'
  <2>1. Serves(worker, workerKey, workerGen)'
    BY <1>1, <1>2, <1>3 DEF Serves, Asked
  <2> QED
    BY <1>2, <2>1 DEF Residents, Switching
<1>9. Published'
  BY <1>1, <1>2 DEF Published, Switching
<1>10. Tracked'
  <2>1. \A d \in mine : Alive(d)' => Alive(d)
    BY <1>3 DEF Only, Alive, TypeOK
  <2> QED
    BY <1>1, <1>2, <2>1 DEF Tracked, Switching
<1> QED
  BY <1>4, <1>5, <1>6, <1>7, <1>8, <1>9, <1>10

(* A worker that is given up, after a reply is read or before.             *)
LEMMA DropKeeps ==
    ASSUME WorkerInv, NEW safety \in BOOLEAN, Drop(safety), worker # 0, op.why = "none",
           op.at \in {"idle", "infer"}, daemon # "down", Only(worker),
           child'[worker].state = child[worker].state,
           Past(child'[worker], Asked)
    PROVE  WorkerInv'
<1> USE DEF WorkerInv
<1>1. /\ op' = [Idle EXCEPT !.at = "retire", !.child = worker, !.why = "lost",
                            !.safety = safety, !.infer = TRUE]
      /\ worker' = 0 /\ workerKey' = None
      /\ UNCHANGED <<workerGen, orphans, daemon, deaths, mine, answer, active, inhibition>>
  BY DEF Drop
<1>2. /\ op' \in OpType /\ op'.at = "retire" /\ op'.why = "lost" /\ op'.child = worker
      /\ op'.old = 0 /\ op'.infer
  <2>1. worker \in 0..MaxChildren
    BY DEF TypeOK
  <2> QED
    BY <1>1, <2>1, IdleIs DEF OpType
<1>3. worker \in mine /\ worker \in Child
  BY WorkerServes
<1>4. TypeOK'
  <2>1. child' \in [Child -> ChildType] /\ 0 \in 0..MaxChildren
    BY DEF Only
  <2> QED
    BY <1>1, <1>2, <2>1 DEF TypeOK, ChildType
<1>5. Shaped'
  BY <1>1, <1>2, <1>3 DEF Shaped
<1>6. Known'
  BY <1>1, <1>3, KnownKept DEF Known
<1>7. Sent'
  <2>1. answer'.frame = answer.frame /\ answer.frame \in Nat /\ answer'.frame + 1 = Asked
    BY <1>1 DEF TypeOK, Asked
  <2> QED
    BY <1>3, <2>1, SentOnly
<1>8. Residents'
  BY <1>1, <1>2 DEF Residents, Switching, Serves
<1>9. Published'
  BY <1>1, <1>2 DEF Published, Switching
<1>10. Tracked'
  <2>1. \A d \in mine : Alive(d)' => Alive(d)
    BY <1>3 DEF Only, Alive, TypeOK
  <2> QED
    BY <1>1, <1>2, <2>1 DEF Tracked, Switching
<1> QED
  BY <1>4, <1>5, <1>6, <1>7, <1>8, <1>9, <1>10

LEMMA ReceiveKeeps ==
    ASSUME WorkerInv, Receive
    PROVE  WorkerInv'
<1> DEFINE r == Head(child[worker].outbox)
<1>1. op.at = "infer" /\ daemon # "down" /\ child[worker].outbox # <<>> /\ Read(worker)
  BY DEF Receive, Replied
<1>2. worker # 0 /\ op.why = "none"
  BY <1>1 DEF WorkerInv, Shaped
<1>3. TypeOK /\ Sent /\ worker \in Child /\ child[worker] \in ChildType
  BY <1>2, WorkerServes DEF WorkerInv
<1>4. /\ Still(worker) /\ child'[worker].inbox = child[worker].inbox
      /\ child'[worker].outbox = Tail(child[worker].outbox)
      /\ r = child[worker].outbox[1] /\ r \in Replies
  BY <1>1, <1>3, ReadIs
<1>5. Only(worker) /\ child'[worker].state = child[worker].state
      /\ child'[worker] \in ChildType
  BY <1>3, <1>4 DEF Still, Only
<1>6. Asked \in Nat /\ Asked + 1 \in Nat /\ Asked <= Asked + 1
  BY <1>3, NoResultIs DEF Asked
<1>7. Past(child'[worker], Asked)
  BY <1>1, <1>2, <1>3, <1>4, <1>5, <1>6, WorkerServes, PastRead
<1>8. CASE Drop(FALSE) \/ Drop(TRUE)
  BY <1>1, <1>2, <1>5, <1>7, <1>8, DropKeeps
<1>9. CASE \/ Done([frame |-> Asked, of |-> r.of, by |-> r.by])
           \/ Done(NoResult(Asked))
  <2>1. PICK result \in [frame: Nat, of: 0..MaxFrames, by: Key \cup {None}] :
            Done(result) /\ result.frame = Asked
    <3>1. NoResult(Asked).frame = Asked
      BY DEF NoResult
    <3>2. r.of \in 0..MaxFrames /\ r.by \in Key \cup {None}
      BY <1>4 DEF Replies
    <3> HIDE DEF r
    <3> QED
      BY <1>3, <1>6, <1>9, <3>1, <3>2, NoResultIs
  <2>2. Past(child'[worker], Asked + 1)
    BY <1>5, <1>6, <1>7, PastLater
  <2>3. Answers(child'[worker], workerKey, workerGen, FALSE, Asked + 1)
    BY <1>1, <1>2, <1>3, <1>4, <1>5, WorkerServes, AnswersRead DEF Still
  <2> QED
    BY <1>1, <1>2, <1>5, <2>1, <2>2, <2>3, DoneKeeps
<1> QED
  BY <1>8, <1>9 DEF Receive

LEMMA ReceiveCutKeeps ==
    ASSUME WorkerInv, ReceiveCut
    PROVE  WorkerInv'
<1>1. /\ op.at = "infer" /\ daemon # "down" /\ child[worker].outbox # <<>>
      /\ Timeouts # {} /\ Done(NoResult(Asked))
  BY DEF ReceiveCut, Replied
<1>2. worker # 0 /\ op.why = "none"
  BY <1>1 DEF WorkerInv, Shaped
<1>3. TypeOK /\ worker \in Child /\ child[worker] \in ChildType
  BY <1>2, WorkerServes DEF WorkerInv
<1>4. /\ Still(worker) /\ child'[worker].inbox = child[worker].inbox
      /\ child'[worker].outbox = <<CutReply>> \o Tail(child[worker].outbox)
  BY <1>3, ReceiveCutIs
<1>5. Only(worker) /\ child'[worker].state = child[worker].state
      /\ child'[worker] \in ChildType
  BY <1>3, <1>4 DEF Still, Only
<1>6. Asked \in Nat /\ Asked + 1 \in Nat /\ Asked <= Asked + 1
  BY <1>3, NoResultIs DEF Asked
<1>7. Past(child'[worker], Asked)
  BY <1>1, <1>2, <1>3, <1>4, <1>5, <1>6, WorkerServes, PastRead
<1>8. Past(child'[worker], Asked + 1)
  BY <1>5, <1>6, <1>7, PastLater
<1>9. Answers(child'[worker], workerKey, workerGen, FALSE, Asked + 1)
  BY <1>1, <1>2, <1>3, <1>4, <1>5, WorkerServes, AnswersCut DEF Still
<1>10. NoResult(Asked).frame = Asked
  BY DEF NoResult
<1> QED
  BY <1>1, <1>2, <1>3, <1>5, <1>8, <1>9, <1>10, NoResultIs, DoneKeeps

LEMMA SendCutKeeps ==
    ASSUME WorkerInv, SendCut
    PROVE  WorkerInv'
<1>1. /\ op.at = "idle" /\ daemon # "down" /\ worker # 0 /\ Timeouts # {}
      /\ Put(Partial) /\ Done(NoResult(Asked))
  BY DEF SendCut, CanAsk
<1>2. op.why = "none"
  BY <1>1, IdleIs DEF WorkerInv, Shaped
<1>3. TypeOK /\ worker \in Child /\ child[worker] \in ChildType /\ Partial \in Requests
  BY <1>1, <1>2, WorkerServes, Messages DEF WorkerInv
<1>4. /\ Still(worker) /\ child'[worker].inbox = Append(child[worker].inbox, Partial)
      /\ child'[worker].outbox = child[worker].outbox
  BY <1>1, <1>3, PutIs
<1>5. Only(worker) /\ child'[worker].state = child[worker].state
      /\ child'[worker] \in ChildType
  BY <1>3, <1>4 DEF Still, Only
<1>6. Asked \in Nat /\ Asked + 1 \in Nat /\ Asked <= Asked + 1
  BY <1>3, NoResultIs DEF Asked
<1>7. Past(child'[worker], Asked)
  <2>1. Partial.frame <= Asked
    BY <1>6 DEF Partial
  <2> QED
    BY <1>1, <1>2, <1>3, <1>4, <1>5, <1>6, <2>1, WorkerServes, PastPut
<1>8. Past(child'[worker], Asked + 1)
  BY <1>5, <1>6, <1>7, PastLater
<1>9. Answers(child'[worker], workerKey, workerGen, FALSE, Asked + 1)
  BY <1>1, <1>2, <1>3, <1>4, <1>5, WorkerServes, AnswersCut DEF Still
<1>10. NoResult(Asked).frame = Asked
  BY DEF NoResult
<1> QED
  BY <1>1, <1>2, <1>3, <1>5, <1>8, <1>9, <1>10, NoResultIs, DoneKeeps

(* A process that is being retired, and is not the one that serves.        *)
LEMMA Retired ==
    ASSUME WorkerInv, op.at \in {"retire", "reap"}
    PROVE  /\ op.child \in mine /\ op.child \in Child /\ child[op.child] \in ChildType
           /\ op.why \in {"refused", "rollback", "replaced", "lost", "stop"}
           /\ op.why # "rollback" => ~Switching /\ worker # op.child
                                     /\ Serves(worker, workerKey, workerGen)
           /\ op.why = "rollback" => Switching /\ op.old # op.child
                                     /\ Serves(op.old, op.oldKey, op.oldGen)
<1> USE DEF WorkerInv
<1>1. /\ op.child \in mine /\ op.child \in Child
      /\ op.why \in {"refused", "rollback", "replaced", "lost", "stop"}
  BY DEF Shaped, TypeOK
<1>2. child[op.child] \in ChildType
  BY <1>1 DEF TypeOK, ChildType
<1>3. CASE op.why # "rollback"
  <2>1. worker # op.child
    BY <1>1, <1>3 DEF Shaped
  <2> QED
    BY <1>1, <1>2, <1>3, <2>1 DEF Residents, Broken, Switching
<1>4. CASE op.why = "rollback"
  <2>1. op.child = worker /\ op.old # worker
    BY <1>4 DEF Shaped
  <2> QED
    BY <1>1, <1>2, <1>4, <2>1 DEF Residents, Switching
<1> QED
  BY <1>3, <1>4

LEMMA RetireSendKeeps ==
    ASSUME WorkerInv, RetireSend
    PROVE  WorkerInv'
<1> USE DEF WorkerInv
<1>1. /\ op.at = "retire" /\ daemon # "down" /\ op' = [op EXCEPT !.at = "reap"]
      /\ UNCHANGED <<worker, workerKey, workerGen, orphans, daemon, deaths, mine, answer,
                     active, inhibition>>
  BY DEF RetireSend
<1>2. /\ op' \in OpType /\ op'.at = "reap" /\ op'.why = op.why /\ op'.child = op.child
      /\ op'.old = op.old /\ op'.oldKey = op.oldKey /\ op'.oldGen = op.oldGen
      /\ op'.infer = op.infer
  BY <1>1 DEF TypeOK, OpType
<1>3. /\ Only(op.child) /\ child'[op.child].state = child[op.child].state
      /\ \/ child'[op.child].inbox = child[op.child].inbox
         \/ child'[op.child].inbox = Append(child[op.child].inbox, Shutdown)
      /\ child'[op.child].outbox = <<>>
      /\ op.child \in Child
  BY <1>1, Retired, RetireSendIs
<1>4. \A d \in Child : child'[d].state = child[d].state
  BY <1>3 DEF Only
<1>5. TypeOK'
  BY <1>1, <1>2, <1>3 DEF TypeOK, Only, ChildType
<1>6. Shaped'
  BY <1>1, <1>2 DEF Shaped
<1>7. Known'
  <2>1. \A d \in mine : child'[d].state # "unborn"
    BY <1>4 DEF Known, TypeOK
  <2> QED
    BY <1>1, <2>1 DEF Known
<1>8. Sent'
  <2>1. /\ answer'.frame = answer.frame /\ answer.frame \in Nat
        /\ Shutdown.frame <= answer'.frame + 1 /\ Shutdown \in Requests
    BY <1>1, NoResultIs, Messages DEF Shutdown
  <2>2. /\ Past(child[op.child], answer'.frame + 1)
        /\ child[op.child] \in ChildType /\ child'[op.child] \in ChildType
        /\ answer'.frame + 1 \in Nat
    BY <1>3, <2>1, PastStill
  <2>3. Past(child'[op.child], answer'.frame + 1)
    <3>1. CASE child'[op.child].inbox = child[op.child].inbox
      BY <1>3, <2>2, <3>1 DEF Past
    <3>2. CASE child'[op.child].inbox = Append(child[op.child].inbox, Shutdown)
      BY <1>3, <2>1, <2>2, <3>2, PastPut
    <3> QED
      BY <1>3, <3>1, <3>2
  <2> QED
    BY <1>3, <2>1, <2>3, SentOnly
<1>9. Residents'
  <2>1. SameExchange
    BY <1>1, <1>2 DEF SameExchange
  <2>2. CASE op.why # "rollback"
    <3>1. worker # op.child /\ Serves(worker, workerKey, workerGen)
      BY <1>1, <2>2, Retired
    <3>2. worker # 0 => child'[worker] = child[worker]
                        /\ worker \in mine' /\ worker \notin orphans'
      BY <1>1, <1>3, <3>1 DEF Serves, Only, TypeOK
    <3>3. Serves(worker, workerKey, workerGen)'
      BY <1>1, <2>1, <3>1, <3>2, ServesKept DEF Serves, Asked
    <3> QED
      BY <1>2, <2>2, <3>3 DEF Residents, Switching
  <2>3. CASE op.why = "rollback"
    <3>1. op.old # op.child /\ Serves(op.old, op.oldKey, op.oldGen)
      BY <1>1, <2>3, Retired
    <3>2. op.old # 0 => child'[op.old] = child[op.old]
                        /\ op.old \in mine' /\ op.old \notin orphans'
      BY <1>1, <1>3, <3>1 DEF Serves, Only, TypeOK
    <3>3. Serves(op.old, op.oldKey, op.oldGen)'
      BY <1>1, <1>2, <2>1, <3>1, <3>2, ServesKept DEF Serves, Asked
    <3> QED
      BY <1>2, <2>3, <3>3 DEF Residents, Broken
  <2> QED
    BY <2>2, <2>3
<1>10. Published'
  BY <1>1, <1>2 DEF Published, Switching
<1>11. Tracked'
  <2>1. \A d \in mine : Alive(d)' <=> Alive(d)
    BY <1>4 DEF Alive, TypeOK
  <2> QED
    BY <1>1, <1>2, <2>1 DEF Tracked, Switching
<1> QED
  BY <1>5, <1>6, <1>7, <1>8, <1>9, <1>10, <1>11

LEMMA AfterReapIs ==
    /\ AfterReap["refused"] = "inhibit" /\ AfterReap["rollback"] = "restore"
    /\ AfterReap["lost"] = "inhibit" /\ AfterReap["stop"] = "stop"
BY DEF AfterReap

LEMMA ReapKeeps ==
    ASSUME WorkerInv, Reap
    PROVE  WorkerInv'
<1> USE DEF WorkerInv
<1>1. /\ op.at = "reap" /\ daemon # "down"
      /\ UNCHANGED <<worker, workerKey, workerGen, daemon, deaths, mine, answer,
                     active, inhibition>>
  BY DEF Reap
<1>2. \/ /\ op.why = "replaced" /\ op' = Idle /\ op' \in OpType
         /\ op'.at = "idle" /\ op'.why = "none" /\ ~op'.infer
      \/ /\ op.why \in {"refused", "rollback", "lost", "stop"}
         /\ op' \in OpType /\ op'.why = op.why /\ op'.child = 0
         /\ op'.old = op.old /\ op'.oldKey = op.oldKey /\ op'.oldGen = op.oldGen
         /\ op'.infer = op.infer
         /\ op.why \in {"refused", "lost"} => op'.at = "inhibit"
         /\ op.why = "rollback" => op'.at = "restore"
         /\ op.why = "stop" => op'.at = "stop"
  <2>1. op.why \in {"refused", "rollback", "replaced", "lost", "stop"}
    BY <1>1, Retired
  <2>2. CASE op.why = "replaced"
    BY <2>2, IdleIs DEF Reap
  <2>3. CASE op.why # "replaced"
    <3>1. op' = [op EXCEPT !.at = AfterReap[op.why], !.child = 0]
      BY <2>3 DEF Reap
    <3>2. /\ AfterReap[op.why] \in {"inhibit", "restore", "stop"}
          /\ op.why \in {"refused", "lost"} => AfterReap[op.why] = "inhibit"
          /\ op.why = "rollback" => AfterReap[op.why] = "restore"
          /\ op.why = "stop" => AfterReap[op.why] = "stop"
      BY <2>1, <2>3, AfterReapIs
    <3>3. op \in OpType /\ 0 \in 0..MaxChildren
      BY DEF TypeOK
    <3> QED
      BY <2>1, <2>3, <3>1, <3>2, <3>3 DEF OpType
  <2> QED
    BY <2>2, <2>3
<1>3. /\ op.child \in Child /\ op.child \in mine /\ Only(op.child)
      /\ child'[op.child].inbox \in {child[op.child].inbox, <<>>}
      /\ child'[op.child].outbox = child[op.child].outbox
      /\ orphans \subseteq orphans' /\ orphans' \subseteq orphans \cup {op.child}
      /\ child'[op.child].state # "unborn"
      /\ op.why # "stop" => op.child \in orphans' \/ child'[op.child].state = "dead"
  <2>1. op.child \in Child /\ op.child \in mine
    BY <1>1, Retired
  <2>2. CASE child[op.child].state = "stuck"
    <3>1. /\ child' = child
          /\ orphans' = IF op.why = "stop" THEN orphans ELSE orphans \cup {op.child}
      BY <2>2 DEF Reap
    <3> QED
      BY <2>1, <2>2, <3>1 DEF Only, TypeOK, ChildType
  <2>3. CASE child[op.child].state # "stuck"
    <3>1. Ends(op.child) /\ orphans' = orphans
      BY <2>3 DEF Reap
    <3>2. Turns(op.child, "dead")
      BY <2>1, <3>1, EndsIs
    <3>3. child'[op.child].state = "dead"
      BY <3>2 DEF Turns
    <3> QED
      BY <2>1, <3>1, <3>2, <3>3 DEF Turns
  <2> QED
    BY <2>2, <2>3
<1>4. TypeOK'
  BY <1>1, <1>2, <1>3 DEF TypeOK, Only, ChildType
<1>5. Shaped'
  <2>1. CASE op.why = "replaced"
    BY <1>1, <1>2, <2>1 DEF Shaped
  <2>2. CASE op.why = "rollback"
    BY <1>1, <1>2, <2>2 DEF Shaped
  <2>3. CASE op.why \in {"refused", "lost", "stop"}
    BY <1>1, <1>2, <2>3 DEF Shaped
  <2> QED
    BY <1>1, <2>1, <2>2, <2>3, Retired
<1>6. Known'
  <2>1. \A d \in mine : child'[d].state # "unborn"
    BY <1>3 DEF Known, Only, TypeOK
  <2> QED
    BY <1>1, <1>3, <2>1 DEF Known
<1>7. Sent'
  <2>1. answer'.frame = answer.frame /\ answer.frame \in Nat
    BY <1>1, NoResultIs
  <2>2. Past(child'[op.child], answer'.frame + 1)
    <3>1. Past(child[op.child], answer'.frame + 1)
      BY <1>3, <2>1, PastStill
    <3> QED
      BY <1>3, <3>1 DEF Past
  <2> QED
    BY <1>3, <2>1, <2>2, SentOnly
<1>8. Residents'
  <2>1. SameExchange /\ op'.at # "load"
    BY <1>1, <1>2 DEF SameExchange
  <2>2. CASE op.why # "rollback"
    <3>1. worker # op.child /\ Serves(worker, workerKey, workerGen)
      BY <1>1, <2>2, Retired
    <3>2. worker # 0 => child'[worker] = child[worker]
                        /\ worker \in mine' /\ worker \notin orphans'
      BY <1>1, <1>3, <3>1 DEF Serves, Only, TypeOK
    <3>3. Serves(worker, workerKey, workerGen)'
      BY <1>1, <2>1, <3>1, <3>2, ServesKept DEF Serves, Asked
    <3>4. ~Switching'
      BY <1>2, <2>2 DEF Switching
    <3> QED
      BY <2>1, <3>3, <3>4 DEF Residents
  <2>3. CASE op.why = "rollback"
    <3>1. op.old # op.child /\ Serves(op.old, op.oldKey, op.oldGen)
      BY <1>1, <2>3, Retired
    <3>2. op.old # 0 => child'[op.old] = child[op.old]
                        /\ op.old \in mine' /\ op.old \notin orphans'
      BY <1>1, <1>3, <3>1 DEF Serves, Only, TypeOK
    <3>3. /\ op'.old = op.old /\ op'.oldKey = op.oldKey /\ op'.oldGen = op.oldGen
          /\ op'.why = "rollback" /\ op'.at = "restore"
      BY <1>2, <2>3
    <3>4. Serves(op.old, op.oldKey, op.oldGen)'
      BY <1>1, <2>1, <3>1, <3>2, <3>3, ServesKept DEF Serves, Asked
    <3> QED
      BY <3>3, <3>4 DEF Residents, Broken
  <2> QED
    BY <2>2, <2>3
<1>9. Published'
  BY <1>1, <1>2 DEF Published, Switching
<1>10. Tracked'
  <2> SUFFICES ASSUME daemon = "up", "stop" \notin {op'.at, op'.why},
                      NEW d \in mine, child'[d].state \in {"up", "stuck"}
               PROVE  \/ d \in orphans'
                      \/ d = worker /\ op'.at # "restore"
                      \/ d = op'.old /\ Switching'
    BY <1>1 DEF Tracked, Alive
  <2>1. op.why # "stop"
    BY <1>2
  <2>2. CASE d = op.child
    BY <1>3, <2>1, <2>2
  <2>3. CASE d # op.child
    <3>1. Alive(d)
      BY <1>3, <2>3 DEF Only, Alive, TypeOK
    <3>2. \/ d \in orphans
          \/ d = worker
          \/ d = op.old /\ Switching
      BY <1>1, <2>1, <2>3, <3>1 DEF Tracked
    <3>3. op.why = "rollback" => op.child = worker
      BY <1>1 DEF Shaped
    <3> QED
      BY <1>1, <1>2, <1>3, <2>1, <2>3, <3>2, <3>3 DEF Switching
  <2> QED
    BY <2>2, <2>3
<1> QED
  BY <1>4, <1>5, <1>6, <1>7, <1>8, <1>9, <1>10

LEMMA GoneKeeps ==
    ASSUME WorkerInv, Gone
    PROVE  WorkerInv'
<1> USE DEF WorkerInv
<1>1. /\ worker' = 0 /\ workerKey' = None /\ workerGen' = 0
      /\ orphans' = {} /\ mine' = {} /\ op' = Idle /\ daemon' = "down"
      /\ deaths' = deaths + 1 /\ UNCHANGED <<answer, active, inhibition>>
  BY DEF Gone
<1>2. op' \in OpType /\ op'.at = "idle" /\ op'.why = "none" /\ ~op'.infer
  BY <1>1, IdleIs
<1>3. /\ child' \in [Child -> ChildType]
      /\ \A c \in Child : child'[c].inbox = child[c].inbox /\ child'[c].outbox = <<>>
  BY GoneIs
<1>4. TypeOK'
  <2>1. deaths + 1 \in Nat /\ 0 \in Nat
    BY DEF TypeOK
  <2> QED
    BY <1>1, <1>2, <1>3, <2>1 DEF TypeOK, ChildType
<1>5. Shaped' /\ Known'
  BY <1>1, <1>2 DEF Shaped, Known
<1>6. Sent'
  BY <1>1, <1>3 DEF Sent, Past, Asked
<1>7. Residents'
  BY <1>1, <1>2 DEF Residents, Serves, Switching
<1>8. Published' /\ Tracked'
  BY <1>1, <1>2 DEF Published, Tracked, Switching
<1> QED
  BY <1>4, <1>5, <1>6, <1>7, <1>8

(* A step of the process c that takes a message, or is its end.            *)
ByItself(c) ==
    \/ \E replies \in Seq(Replies) : Handles(child[c], child'[c], replies)
    \/ child'[c].state # "up" /\ Turns(c, child'[c].state)

LEMMA ChildServes ==
    ASSUME TypeOK, NEW c \in Child, Only(c), ByItself(c),
           UNCHANGED <<op, answer, mine, orphans>>,
           NEW d \in 0..MaxChildren, NEW k, NEW g, Serves(d, k, g)
    PROVE  IF d = 0 THEN k = None
           ELSE d \in mine' /\ d \notin orphans'
                /\ Answers(child'[d], k, g, op'.at = "infer", answer'.frame + 1)
<1>1. CASE d # c
  <2>1. SameExchange
    BY DEF SameExchange
  <2>2. d # 0 => child'[d] = child[d] /\ d \in mine' /\ d \notin orphans'
    BY <1>1 DEF Only, Serves
  <2> QED
    BY <2>1, <2>2, ServesKept
<1>2. CASE d = c
  <2>1. /\ d # 0 /\ d \in mine /\ d \notin orphans
        /\ Answers(child[c], k, g, op.at = "infer", answer.frame + 1)
    BY <1>2 DEF Serves, Asked
  <2>2. child[c] \in ChildType /\ child'[c] \in ChildType
    BY DEF TypeOK, ChildType, Only
  <2>3. Answers(child'[c], k, g, op.at = "infer", answer.frame + 1)
    <3>1. CASE \E replies \in Seq(Replies) : Handles(child[c], child'[c], replies)
      BY <2>1, <2>2, <3>1, AnswersHandled
    <3>2. CASE child'[c].state # "up" /\ Turns(c, child'[c].state)
      BY <2>1, <2>2, <3>2, AnswersTurned DEF Turns
    <3> QED
      BY <3>1, <3>2 DEF ByItself
  <2> QED
    BY <1>2, <2>1, <2>3
<1> QED
  BY <1>1, <1>2

LEMMA ChildKeeps ==
    ASSUME WorkerInv, NEW c \in Child, Only(c), ByItself(c),
           child'[c].state # "unborn", Alive(c),
           UNCHANGED <<worker, workerKey, workerGen, orphans, daemon, deaths, mine,
                       op, answer, active, inhibition>>
    PROVE  WorkerInv'
<1> USE DEF WorkerInv
<1>1. TypeOK'
  BY DEF TypeOK, Only, ChildType
<1>2. Shaped'
  BY DEF Shaped
<1>3. Known'
  <2>1. \A d \in mine : child'[d].state # "unborn"
    BY DEF Known, Only, TypeOK
  <2> QED
    BY <2>1 DEF Known
<1>4. Sent'
  <2>1. answer'.frame = answer.frame /\ answer.frame \in Nat
    BY NoResultIs
  <2>2. /\ Past(child[c], answer'.frame + 1) /\ answer'.frame + 1 \in Nat
        /\ child[c] \in ChildType /\ child'[c] \in ChildType
    BY <2>1, PastStill
  <2>3. Past(child'[c], answer'.frame + 1)
    <3>1. CASE \E replies \in Seq(Replies) : Handles(child[c], child'[c], replies)
      BY <2>2, <3>1, PastHandled
    <3>2. CASE Turns(c, child'[c].state)
      BY <2>2, <3>2 DEF Turns, Past
    <3> QED
      BY <3>1, <3>2 DEF ByItself
  <2> QED
    BY <2>1, <2>3, SentOnly
<1>5. Residents'
  <2>1. ~Broken => Serves(worker, workerKey, workerGen)'
    BY ChildServes DEF Residents, Serves, Asked, TypeOK
  <2>2. Switching => Serves(op.old, op.oldKey, op.oldGen)'
    <3>1. op.old \in 0..MaxChildren
      BY DEF TypeOK, OpType
    <3> QED
      BY <3>1, ChildServes DEF Residents, Serves, Asked
  <2>3. op.at = "load" => Loading(op.child, op.key, workerGen + 1)'
    <3> SUFFICES ASSUME op.at = "load"
                 PROVE  Confirms(child'[op.child], op.key, workerGen + 1)
      BY DEF Residents, Loading
    <3>1. op.child \in Child /\ Confirms(child[op.child], op.key, workerGen + 1)
      BY DEF Residents, Loading, TypeOK
    <3>2. CASE op.child # c
      BY <3>1, <3>2 DEF Only
    <3>3. CASE op.child = c
      <4>1. child[c] \in ChildType /\ child'[c] \in ChildType
        BY DEF TypeOK, ChildType, Only
      <4>2. CASE \E replies \in Seq(Replies) : Handles(child[c], child'[c], replies)
        BY <3>1, <3>3, <4>1, <4>2, ConfirmsHandled
      <4>3. CASE Turns(c, child'[c].state)
        BY <3>1, <3>3, <4>3 DEF Turns, Confirms, Alive
      <4> QED
        BY <4>2, <4>3 DEF ByItself
    <3> QED
      BY <3>2, <3>3
  <2> QED
    BY <2>1, <2>2, <2>3 DEF Residents, Broken, Switching
<1>6. Published'
  BY DEF Published, Switching
<1>7. Tracked'
  <2>1. \A d \in mine : Alive(d)' => Alive(d)
    BY DEF Alive, Only, TypeOK
  <2> QED
    BY <2>1 DEF Tracked, Switching
<1> QED
  BY <1>1, <1>2, <1>3, <1>4, <1>5, <1>6, <1>7

LEMMA TakeKeeps ==
    ASSUME WorkerInv, NEW c \in Child, Take(c)
    PROVE  WorkerInv'
<1>1. Only(c) /\ \E replies \in Seq(Replies) : Handles(child[c], child'[c], replies)
  BY TakeIs DEF WorkerInv
<1>2. child'[c].state # "unborn" /\ Alive(c)
  BY <1>1 DEF Handles, Alive
<1>3. UNCHANGED <<worker, workerKey, workerGen, orphans, daemon, deaths, mine,
                  op, answer, active, inhibition>>
  BY DEF Take
<1> QED
  BY <1>1, <1>2, <1>3, ChildKeeps DEF ByItself

LEMMA ChildFailsKeeps ==
    ASSUME WorkerInv, NEW c \in Child, ChildFails(c)
    PROVE  WorkerInv'
<1>1. \/ Ends(c)
      \/ child' = [child EXCEPT ![c].state = "stuck"]
  BY DEF ChildFails
<1>2. PICK s \in {"stuck", "dead"} : Turns(c, s)
  BY <1>1, StuckIs, EndsIs DEF WorkerInv
<1>3. Only(c) /\ child'[c].state # "unborn" /\ child'[c].state # "up" /\ Alive(c)
  BY <1>2 DEF Turns, ChildFails, Alive
<1>4. ByItself(c)
  BY <1>2, <1>3 DEF ByItself, Turns
<1>5. UNCHANGED <<worker, workerKey, workerGen, orphans, daemon, deaths, mine,
                  op, answer, active, inhibition>>
  BY DEF ChildFails
<1> QED
  BY <1>3, <1>4, <1>5, ChildKeeps

(***************************************************************************)
(* The invariant is inductive.                                             *)

LEMMA InitHolds == Init => WorkerInv
<1> SUFFICES ASSUME Init PROVE WorkerInv
  OBVIOUS
<1>1. /\ child = [c \in Child |-> Unborn] /\ worker = 0 /\ workerKey = None
      /\ workerGen = 0 /\ orphans = {} /\ mine = {} /\ op = Idle /\ answer = NoResult(0)
      /\ active = None /\ inhibition = "none" /\ daemon = "up" /\ deaths = 0
  BY DEF Init
<1>2. /\ answer \in [frame: Nat, of: 0..MaxFrames, by: Key \cup {None}]
      /\ answer.frame = 0
  BY <1>1 DEF NoResult
<1>3. TypeOK
  BY <1>1, <1>2, IdleIs, UnbornIs DEF TypeOK, ChildType
<1>4. Shaped /\ Known
  BY <1>1, IdleIs DEF Shaped, Known
<1>5. Sent
  BY <1>1, UnbornIs DEF Sent, Past
<1>6. Residents
  BY <1>1, IdleIs DEF Residents, Serves, Switching
<1>7. Published /\ Tracked
  BY <1>1, IdleIs DEF Published, Tracked, Switching
<1> QED
  BY <1>3, <1>4, <1>5, <1>6, <1>7 DEF WorkerInv

LEMMA StepKeeps ==
    ASSUME WorkerInv, [Next]_vars
    PROVE  WorkerInv'
<1>1. CASE UNCHANGED vars
  BY <1>1, StutterKeeps
<1>2. CASE \E k \in Key : Activate(k)
  BY <1>2, ActivateKeeps
<1>3. CASE NoWorker \/ FoundDead \/ Ask \/ SendCut
  BY <1>3, NoWorkerKeeps, FoundDeadKeeps, AskKeeps, SendCutKeeps
<1>4. CASE SwapStep
  BY <1>4, SpawnKeeps, SpawnFailsKeeps, SwapKeeps, LoadFailsKeeps, PublishKeeps,
     PublishFailsKeeps, RestoreKeeps DEF SwapStep
<1>5. CASE InferStep
  BY <1>5, ReceiveKeeps, ReceiveLateKeeps, ReceiveCutKeeps, ReceiveFailsKeeps DEF InferStep
<1>6. CASE LostStep
  BY <1>6, RetireSendKeeps, ReapKeeps, InhibitKeeps, StopNextKeeps, StopDoneKeeps
     DEF LostStep
<1>7. CASE Recover \/ Stop \/ Exit \/ Die \/ Boot
  BY <1>7, RecoverKeeps, StopKeeps, GoneKeeps, BootKeeps DEF Exit, Die
<1>8. CASE \E c \in Child : Take(c) \/ ChildFails(c)
  BY <1>8, TakeKeeps, ChildFailsKeeps
<1> QED
  BY <1>1, <1>2, <1>3, <1>4, <1>5, <1>6, <1>7, <1>8 DEF Next, HolderStep

LEMMA Invariance == Spec => []WorkerInv
<1>1. Init => WorkerInv
  BY InitHolds
<1>2. WorkerInv /\ [Next]_vars => WorkerInv'
  BY StepKeeps
<1> QED
  BY <1>1, <1>2, PTL DEF Spec

(***************************************************************************)
(* The theorems.                                                           *)

(* Every process, stream, field and row keeps its shape, whatever faults,  *)
(* is cut short or dies (supervisor.py, runtime/native.py).                *)
THEOREM TypeCorrect == Spec => []TypeOK
<1>1. WorkerInv => TypeOK
  BY DEF WorkerInv
<1> QED
  BY <1>1, Invariance, PTL

(* The daemon keeps a reference to every live child of this life of it:    *)
(* as its worker, among its orphans, or in the hands of the thread that    *)
(* holds _worker_lock (_retire_or_track).                                  *)
THEOREM NoChildLost == Spec => []NoLostChild
<1>1. WorkerInv => NoLostChild
  BY DEF WorkerInv, Tracked, NoLostChild, Held
<1> QED
  BY <1>1, Invariance, PTL

(* When nobody holds the lock, the fields about the worker, the model in   *)
(* the process and the published row agree (activate_worker).              *)
THEOREM IdentityAgrees == Spec => []PublishedIdentity
<1>1. ASSUME WorkerInv, op = Idle, worker # 0
      PROVE  /\ active = [key |-> workerKey, gen |-> workerGen]
             /\ child[worker].model = workerKey /\ child[worker].gen = workerGen
             /\ worker \notin orphans
  <2>1. op.why = "none" /\ op.at = "idle"
    BY <1>1, IdleIs
  <2> QED
    BY <1>1, <2>1, WorkerServes DEF WorkerInv, Published, Switching, Answers
<1>2. WorkerInv => PublishedIdentity
  BY <1>1 DEF PublishedIdentity
<1> QED
  BY <1>2, Invariance, PTL

(* From the LOAD of a new child to the publication of its identity the old *)
(* one stays connected, and a rollback puts back one that can be asked     *)
(* (activate_worker).                                                      *)
THEOREM NoGap == Spec => []NoServiceGap
<1>1. ASSUME WorkerInv, Resident # 0 PROVE child[Resident].peer
  <2>1. CASE Switching
    BY <1>1, <2>1 DEF WorkerInv, Residents, Resident, Serves, Answers
  <2>2. CASE ~Switching
    BY <1>1, <2>2 DEF WorkerInv, Residents, Resident, Serves, Answers, Broken, Switching
  <2> QED
    BY <2>1, <2>2
<1>2. WorkerInv => NoServiceGap
  BY <1>1 DEF NoServiceGap
<1> QED
  BY <1>2, Invariance, PTL

(***************************************************************************)
(* Every step of the worker is one of the service's or leaves it alone.    *)

(* A step after which the same model serves and the last answer stands.    *)
LEMMA Unseen ==
    ASSUME Serving' = Serving, answer' = answer
    PROVE  [Service!Next]_<<Serving, answer>>
OBVIOUS

(* A frame that is not answered.                                           *)
LEMMA Refused ==
    ASSUME Serving' = Serving, answer' = NoResult(Asked)
    PROVE  [Service!Next]_<<Serving, answer>>
BY DEF Service!Next, Service!Refuse, Service!NoResult, Service!Asked, NoResult, Asked

LEMMA Lost ==
    ASSUME Serving' = None, answer' = answer
    PROVE  [Service!Next]_<<Serving, answer>>
BY DEF Service!Next, Service!Lose

LEMMA SwapServes ==
    ASSUME WorkerInv, SwapStep
    PROVE  [Service!Next]_<<Serving, answer>>
<1> USE DEF WorkerInv
<1>1. ASSUME NEW c \in Child, Spawn(c) PROVE Serving' = Serving /\ answer' = answer
  <2>1. op.at = "spawn" /\ op' = [op EXCEPT !.at = "load", !.child = c]
        /\ workerKey' = workerKey /\ answer' = answer
    BY <1>1 DEF Spawn
  <2>2. op.why = "none" /\ op'.at = "load" /\ op'.why = op.why
    BY <2>1 DEF Shaped, TypeOK, OpType
  <2> QED
    BY <2>1, <2>2 DEF Serving, Switching
<1>2. CASE SpawnFails
  <2>1. op'.at = "inhibit" /\ op'.why = op.why /\ op.why = "none"
    BY <1>2 DEF SpawnFails, Shaped, TypeOK, OpType
  <2> QED
    BY <1>2, <2>1, Unseen DEF SpawnFails, Serving, Switching
<1>3. CASE Swap
  <2>1. op'.at = "publish" /\ op'.oldKey = workerKey /\ op.why = "none"
    BY <1>3 DEF Swap, Shaped, TypeOK, OpType
  <2> QED
    BY <1>3, <2>1, Unseen DEF Swap, Serving, Switching
<1>4. CASE LoadFails
  <2>1. op'.at = "retire" /\ op'.why = "refused" /\ op.why = "none"
    BY <1>4 DEF LoadFails, Retire, Shaped, TypeOK, OpType
  <2> QED
    BY <1>4, <2>1, Unseen DEF LoadFails, Serving, Switching
<1>5. CASE Publish
  <2>1. workerKey \in Key
    BY <1>5 DEF Publish, Shaped, Residents, Serves, Answers, Broken, TypeOK
  <2>2. op'.at # "publish" /\ op'.why # "rollback"
    BY <1>5, IdleIs DEF Publish, Retire, TypeOK, OpType
  <2>3. Serving' = workerKey /\ answer' = answer
    BY <1>5, <2>2 DEF Publish, Serving, Switching
  <2>4. Service!Activate(workerKey)
    BY <2>3 DEF Service!Activate
  <2> QED
    BY <2>1, <2>4 DEF Service!Next
<1>6. CASE PublishFails
  <2>1. op'.why = "rollback" /\ op'.oldKey = op.oldKey
    BY <1>6 DEF PublishFails, Retire, TypeOK, OpType
  <2> QED
    BY <1>6, <2>1, Unseen DEF PublishFails, Serving, Switching
<1>7. CASE Restore
  <2>1. op.why = "rollback" /\ op'.why = "rollback" /\ op'.oldKey = op.oldKey
    BY <1>7 DEF Restore, Shaped, TypeOK, OpType
  <2> QED
    BY <1>7, <2>1, Unseen DEF Restore, Serving, Switching
<1> QED
  BY <1>1, <1>2, <1>3, <1>4, <1>5, <1>6, <1>7, Unseen DEF SwapStep

(* What is lost is served no more ...                                      *)
LEMMA DropServes ==
    ASSUME NEW safety \in BOOLEAN, Drop(safety)
    PROVE  [Service!Next]_<<Serving, answer>>
<1>1. op'.at = "retire" /\ op'.why = "lost" /\ workerKey' = None /\ answer' = answer
  BY IdleIs DEF Drop, OpType
<1> QED
  BY <1>1, Lost DEF Serving, Switching

(* ... and an answer without a result is a refusal.                        *)
LEMMA DoneServes ==
    ASSUME Done(NoResult(Asked)), ~Switching
    PROVE  [Service!Next]_<<Serving, answer>>
<1>1. op' = Idle /\ workerKey' = workerKey /\ answer' = NoResult(Asked)
  BY DEF Done
<1> QED
  BY <1>1, IdleIs, Refused DEF Serving, Switching

LEMMA InferServes ==
    ASSUME WorkerInv, InferStep
    PROVE  [Service!Next]_<<Serving, answer>>
<1>1. op.at = "infer" /\ worker # 0 /\ op.why = "none" /\ ~Switching
  BY DEF InferStep, Receive, ReceiveLate, ReceiveCut, ReceiveFails, WorkerInv, Shaped, Switching
<1>2. CASE ReceiveLate \/ ReceiveCut
  BY <1>1, <1>2, DoneServes DEF ReceiveLate, ReceiveCut
<1>3. CASE ReceiveFails
  BY <1>3, DropServes DEF ReceiveFails
<1>4. CASE Receive
  <2> DEFINE r == Head(child[worker].outbox)
             p == child[worker]
  <2>1. /\ p.outbox # <<>> /\ Read(worker) /\ TypeOK
        /\ worker \in Child /\ p \in ChildType
        /\ Answers(p, workerKey, workerGen, TRUE, Asked) /\ Past(p, Asked)
    BY <1>1, <1>4, WorkerServes DEF Receive, Replied, WorkerInv
  <2>2. r = p.outbox[1] /\ r \in Replies /\ 1 \in 1..Len(p.outbox)
    <3>1. Len(p.outbox) \in Nat /\ Len(p.outbox) # 0
      BY <2>1, EmptyIs DEF ChildType
    <3> QED
      BY <2>1, <3>1, ReadIs
  <2>3. CASE Drop(FALSE) \/ Drop(TRUE)
    BY <2>3, DropServes
  <2>4. CASE Done(NoResult(Asked))
    BY <1>1, <2>4, DoneServes
  <2>5. CASE /\ r.type = "RESULT" /\ r.code = "OK"
             /\ Done([frame |-> Asked, of |-> r.of, by |-> r.by])
    <3>1. r.by = workerKey /\ workerKey \in Key /\ workerKey # None
      BY <2>1, <2>2, <2>5 DEF Answers
    <3>2. r.of \in 0..Asked
      <4>1. r.of \in Nat /\ r.of <= Asked
        BY <2>1, <2>2 DEF Past, Replies
      <4>2. Asked \in Nat
        BY <2>1, NoResultIs DEF Asked
      <4> QED
        BY <4>1, <4>2
    <3>3. Timeouts = {} => r.of = Asked
      BY <2>1, <2>2, <2>5 DEF Answers, Orderly
    <3>4. /\ op' = Idle /\ workerKey' = workerKey
          /\ answer' = [frame |-> Asked, of |-> r.of, by |-> r.by]
      BY <2>5 DEF Done
    <3>5. Serving = workerKey /\ Serving' = workerKey
      BY <1>1, <3>4, IdleIs DEF Serving, Switching
    <3>6. Service!Answer
      BY <3>1, <3>2, <3>3, <3>4, <3>5 DEF Service!Answer, Service!Asked, Asked
    <3> QED
      BY <3>6 DEF Service!Next
  <2> QED
    BY <1>4, <2>3, <2>4, <2>5 DEF Receive
<1> QED
  BY <1>2, <1>3, <1>4 DEF InferStep

LEMMA RetireServes ==
    ASSUME WorkerInv, LostStep
    PROVE  [Service!Next]_<<Serving, answer>>
<1> USE DEF WorkerInv
<1>1. CASE RetireSend
  <2>1. op.at = "retire" /\ op'.at = "reap" /\ op'.why = op.why /\ op'.oldKey = op.oldKey
    BY <1>1 DEF RetireSend, TypeOK, OpType
  <2> QED
    BY <1>1, <2>1, Unseen DEF RetireSend, Serving, Switching
<1>2. CASE Reap
  <2>1. op.at = "reap" /\ workerKey' = workerKey /\ answer' = answer
    BY <1>2 DEF Reap
  <2>2. CASE op.why = "replaced"
    <3>1. op' = Idle
      BY <1>2, <2>2 DEF Reap
    <3> QED
      BY <2>1, <2>2, <3>1, IdleIs, Unseen DEF Serving, Switching
  <2>3. CASE op.why # "replaced"
    <3>1. op' = [op EXCEPT !.at = AfterReap[op.why], !.child = 0]
      BY <1>2, <2>3 DEF Reap
    <3>2. op'.at = AfterReap[op.why] /\ op'.why = op.why /\ op'.oldKey = op.oldKey
      BY <3>1 DEF TypeOK, OpType
    <3>3. op'.at # "publish"
      BY <2>1, <2>3, <3>2, AfterReapIs, Retired
    <3> QED
      BY <2>1, <3>2, <3>3, Unseen DEF Serving, Switching
  <2> QED
    BY <2>2, <2>3
<1>3. CASE Inhibit
  <2>1. /\ op.at = "inhibit" /\ op' = Idle /\ workerKey' = workerKey
        /\ answer' = answer \/ answer' = NoResult(Asked)
    BY <1>3 DEF Inhibit
  <2>2. Serving' = Serving
    BY <2>1, IdleIs DEF Serving, Switching, Shaped
  <2> QED
    BY <2>1, <2>2, Unseen, Refused
<1>4. CASE StopNext
  <2>1. op.why \in {"none", "stop"} /\ op.at = "stop" /\ answer' = answer
    BY <1>4 DEF StopNext, Shaped
  <2>2. op'.at = "retire" /\ op'.why = "stop" /\ workerKey' \in {None, workerKey}
    <3>1. PICK c : op' = Retire(c, "stop")
      BY <1>4 DEF StopNext
    <3>2. workerKey' \in {None, workerKey}
      BY <1>4 DEF StopNext
    <3> QED
      BY <3>1, <3>2 DEF Retire, TypeOK, OpType
  <2> QED
    BY <2>1, <2>2, Unseen, Lost DEF Serving, Switching
<1>5. CASE StopDone
  <2>1. /\ op.why \in {"none", "stop"} /\ op.at = "stop" /\ answer' = answer
        /\ op' = Idle /\ workerKey' = workerKey
    BY <1>5 DEF StopDone, Shaped
  <2> QED
    BY <2>1, IdleIs, Unseen DEF Serving, Switching
<1> QED
  BY <1>1, <1>2, <1>3, <1>4, <1>5 DEF LostStep

LEMMA OtherServes ==
    ASSUME WorkerInv,
           \/ \E k \in Key : Activate(k)
           \/ NoWorker \/ FoundDead \/ Ask \/ SendCut
           \/ Recover \/ Stop \/ Exit \/ Die \/ Boot
           \/ \E c \in Child : Take(c) \/ ChildFails(c)
    PROVE  [Service!Next]_<<Serving, answer>>
<1> USE DEF WorkerInv
<1>1. ASSUME NEW k \in Key, Activate(k) PROVE Serving' = Serving /\ answer' = answer
  <2>1. op = Idle /\ op'.at \in {"spawn", "inhibit"} /\ op'.why = "none"
        /\ workerKey' = workerKey /\ answer' = answer
    <3>1. PICK at \in {"spawn", "inhibit"} : op' = [Idle EXCEPT !.at = at, !.key = k]
      BY <1>1, ZenonT(30) DEF Activate
    <3>2. op = Idle /\ workerKey' = workerKey /\ answer' = answer
      BY <1>1 DEF Activate, Shaped
    <3> QED
      BY <3>1, <3>2, IdleIs DEF OpType
  <2> QED
    BY <2>1, IdleIs DEF Serving, Switching
<1>2. CASE NoWorker \/ SendCut
  <2>1. op = Idle /\ ~Switching
    BY <1>2, IdleIs DEF NoWorker, SendCut, CanAsk, Shaped, Switching
  <2> QED
    BY <1>2, <2>1, DoneServes DEF NoWorker, SendCut
<1>3. CASE FoundDead
  BY <1>3, DropServes DEF FoundDead
<1>4. CASE Ask \/ Stop
  <2>1. op = Idle /\ op'.at \in {"infer", "stop"} /\ op'.why = "none"
        /\ workerKey' = workerKey /\ answer' = answer
    BY <1>4, IdleIs DEF Ask, Stop, CanAsk, Shaped, OpType
  <2> QED
    BY <2>1, IdleIs, Unseen DEF Serving, Switching
<1>5. CASE Exit \/ Die
  <2>1. op' = Idle /\ workerKey' = None /\ answer' = answer
    BY <1>5 DEF Exit, Die, Gone
  <2> QED
    BY <2>1, IdleIs, Lost DEF Serving, Switching
<1>6. CASE Recover \/ Boot
  BY <1>6, Unseen DEF Recover, Boot, Serving, Switching
<1>7. CASE \E c \in Child : Take(c) \/ ChildFails(c)
  BY <1>7, Unseen DEF Take, ChildFails, Serving, Switching
<1> QED
  BY <1>1, <1>2, <1>3, <1>4, <1>5, <1>6, <1>7, Unseen

LEMMA StepServes ==
    ASSUME WorkerInv, [Next]_vars
    PROVE  [Service!Next]_<<Serving, answer>>
<1>1. CASE UNCHANGED vars
  BY <1>1, Unseen DEF vars, Serving, Switching
<1>2. CASE Next
  BY <1>2, SwapServes, InferServes, RetireServes, OtherServes DEF Next, HolderStep
<1> QED
  BY <1>1, <1>2

(* The worker implements the service promised to the transport             *)
(* (activate_worker, worker_infer): the swap is atomic at publication, and *)
(* an answer comes from the published model, of the frame it was asked for *)
(* when no deadline cuts an exchange short.                                *)
THEOREM Implements == Spec => ServesAsPromised
<1>1. Init => Service!Init
  <2>1. ASSUME Init PROVE Service!Init
    BY <2>1, IdleIs DEF Init, Service!Init, Service!NoResult, NoResult, Serving, Switching
  <2> QED
    BY <2>1
<1>2. WorkerInv /\ [Next]_vars => [Service!Next]_<<Serving, answer>>
  BY StepServes
<1> QED
  BY <1>1, <1>2, Invariance, PTL DEF Spec, ServesAsPromised, Service!Spec

=============================================================================
