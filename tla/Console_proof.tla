---------------------------- MODULE Console_proof ----------------------------
(***************************************************************************)
(* Proofs about the processes around a data directory, for any number of   *)
(* daemons, invocations and kills.                                         *)
(***************************************************************************)
EXTENDS Console, TLAPS

Running == Starting \cup Serving \cup (Stopping \ {"exit"})
Bound   == {"listen", "serve"}

(* Who runs with the registry has the lock ...                             *)
DaemonHolds == \A d \in Daemon : pc[d] \in Running => lock = d
CliHolds    == \A c \in Cli : cli[c].at \in Owning => lock = c

(* ... and the file at the path is that of the daemon that bound it.       *)
SocketBound == \A d \in Daemon : pc[d] \in Bound => sock = d

(* What is compiled, or failed to, has a source.                           *)
Sourced == ref.state \in {"QUEUED", "FAILED"} => ref.src # 0

(* What an invocation has been told, and what it makes of it.              *)
Told(c) ==
    /\ conn[c].at # "none" => cli[c].at \in {"await", "over"}
    /\ conn[c].at \in {"sent", "working"} => cli[c].exit # "0" /\ conn[c].to \in Daemon
    /\ conn[c].at = "ok" => done[c]
    /\ cli[c].at \in {"idle", "call", "await", "lock", "poll", "read"}
         => cli[c].exit = "none"
    /\ cli[c].at = "poll" => cli[c].cmd \notin {"prepare", "recover"} \/ done[c]
    /\ cli[c].at = "read" => cli[c].cmd = "wait"
    /\ cli[c].at = "self" => done[c]
    /\ cli[c].cmd \in {"prepare", "recover"} /\ cli[c].exit = "0" => done[c]

ConsoleInv ==
    /\ TypeOK
    /\ DaemonHolds /\ CliHolds
    /\ SocketBound
    /\ Sourced
    /\ \A c \in Cli : Told(c)

----------------------------------------------------------------------------
(* What a wait ends with is an exit code.                                  *)
LEMMA VerdictExits ==
    ASSUME NEW actual, NEW want, Verdict(actual, want) # "more"
    PROVE  Verdict(actual, want) \in {"0", "err"}
BY DEF Verdict

LEMMA DeliverTo ==
    ASSUME TypeOK, NEW c \in Cli, NEW at
    PROVE  /\ cli[c].at = "await" => Deliver(c, at) = [to |-> conn[c].to, at |-> at]
           /\ cli[c].at # "await" => Deliver(c, at) = NoConn
<1>1. \A r \in [to: Daemon \cup {None}, at: {"none", "sent", "working", "ok", "noop",
                                              "err", "eof", "reset"}] :
        [r EXCEPT !.at = at] = [to |-> r.to, at |-> at]
  OBVIOUS
<1> QED  BY <1>1 DEF Deliver, TypeOK

(* An invocation goes on elsewhere ...                                     *)
LEMMA GotoMoves ==
    ASSUME TypeOK, NEW c \in Cli, NEW at \in CliAt, Goto(c, at)
    PROVE  /\ cli' \in [Cli -> CliType]
           /\ cli'[c].at = at /\ cli'[c].cmd = cli[c].cmd /\ cli'[c].exit = cli[c].exit
           /\ \A e \in Cli \ {c} : cli'[e] = cli[e]
<1>1. \A r \in CliType : /\ [r EXCEPT !.at = at] \in CliType
                         /\ [r EXCEPT !.at = at].at = at
                         /\ [r EXCEPT !.at = at].cmd = r.cmd
                         /\ [r EXCEPT !.at = at].exit = r.exit
  BY DEF CliType
<1>2. /\ cli'[c] = [cli[c] EXCEPT !.at = at]
      /\ \A e \in Cli \ {c} : cli'[e] = cli[e]
      /\ cli' = [e \in Cli |-> IF e = c THEN [cli[c] EXCEPT !.at = at] ELSE cli[e]]
  BY DEF TypeOK, Goto
<1> QED  BY <1>1, <1>2 DEF TypeOK

(* ... or ends.                                                            *)
LEMMA OverEnds ==
    ASSUME TypeOK, NEW c \in Cli, NEW exit \in Exits \cup {"none"}, Over(c, exit)
    PROVE  /\ cli' \in [Cli -> CliType]
           /\ cli'[c].at = "over" /\ cli'[c].cmd = cli[c].cmd /\ cli'[c].exit = exit
           /\ \A e \in Cli \ {c} : cli'[e] = cli[e]
<1>1. \A r \in CliType :
        LET n == [r EXCEPT !.at = "over", !.exit = exit]
        IN  n \in CliType /\ n.at = "over" /\ n.cmd = r.cmd /\ n.exit = exit
  BY DEF CliType, CliAt
<1>2. /\ cli'[c] = [cli[c] EXCEPT !.at = "over", !.exit = exit]
      /\ \A e \in Cli \ {c} : cli'[e] = cli[e]
      /\ cli' = [e \in Cli |-> IF e = c THEN [cli[c] EXCEPT !.at = "over", !.exit = exit]
                               ELSE cli[e]]
  BY DEF TypeOK, Over
<1> QED  BY <1>1, <1>2 DEF TypeOK

(* Whatever ends a connection, its caller has not been told "ok".          *)
Cut == \A c \in Cli :
    \/ conn'[c] = conn[c] \/ conn'[c].at = "none"
    \/ cli[c].at = "await" /\ conn'[c].at \in {"reset", "eof"}

ConnType == [to: Daemon \cup {None},
             at: {"none", "sent", "working", "ok", "noop", "err", "eof", "reset"}]

LEMMA CutTold ==
    ASSUME ConsoleInv, Cut, UNCHANGED <<cli, done>>, NEW c \in Cli
    PROVE  Told(c)'
<1>1. Told(c) /\ cli'[c] = cli[c] /\ done'[c] = done[c]
  BY DEF ConsoleInv
<1> QED  BY <1>1 DEF Told, Cut

LEMMA AcceptFailsCuts ==
    ASSUME TypeOK, NEW d \in Daemon, AcceptFails(d)
    PROVE  Cut /\ conn' \in [Cli -> ConnType]
BY DeliverTo DEF AcceptFails, Cut, TypeOK, ConnType, NoConn

LEMMA EndedCuts ==
    ASSUME TypeOK, NEW d \in Daemon, Ended(d)
    PROVE  Cut /\ conn' \in [Cli -> ConnType]
<1>1. /\ conn \in [Cli -> ConnType] /\ NoConn \in ConnType /\ NoConn.at = "none"
      /\ \A n \in ConnType : \A at \in {"reset", "eof"} : [to |-> n.to, at |-> at] \in ConnType
  BY DEF TypeOK, ConnType, NoConn
<1>2. ASSUME NEW c \in Cli
      PROVE  \/ conn'[c] = conn[c]
             \/ \E at \in {"reset", "eof"} : conn'[c] = Deliver(c, at)
  BY DEF Ended
<1>3. ASSUME NEW c \in Cli
      PROVE  /\ conn'[c] \in ConnType
             /\ \/ conn'[c] = conn[c] \/ conn'[c].at = "none"
                \/ cli[c].at = "await" /\ conn'[c].at \in {"reset", "eof"}
  BY <1>1, <1>2, DeliverTo
<1>4. conn' = [c \in Cli |-> conn'[c]]
  BY DEF Ended
<1> QED  BY <1>3, <1>4 DEF Cut

LEMMA ShutCuts ==
    ASSUME TypeOK, NEW d \in Daemon, Shut(d)
    PROVE  Cut /\ conn' \in [Cli -> ConnType]
BY DeliverTo DEF Shut, Cut, TypeOK, ConnType, NoConn

----------------------------------------------------------------------------
LEMMA InitInv == Init => ConsoleInv
<1> SUFFICES ASSUME Init PROVE ConsoleInv
  OBVIOUS
<1>1. TypeOK
  BY ConsoleAssumption DEF Init, TypeOK, Process, RefType, Rev, CliType, CliAt,
     Cmds, Exits, NoConn
<1>2. DaemonHolds /\ CliHolds /\ SocketBound /\ Sourced
  BY DEF Init, Left, RefType, DaemonHolds, CliHolds, SocketBound, Sourced, Running, Serving, Starting, Stopping, Owning,
     Bound
<1>3. \A c \in Cli : Told(c)
  BY DEF Init, Told, NoConn
<1> QED  BY <1>1, <1>2, <1>3 DEF ConsoleInv

(* A daemon's step keeps what is said about the lock, the path and the     *)
(* daemons; connections may be cut.                                        *)
LEMMA DaemonInv ==
    ASSUME ConsoleInv, NEW d \in Daemon,
           Boot(d) \/ AcceptFails(d) \/ Signal(d) \/ Halt(d) \/ Kill(d)
    PROVE  ConsoleInv'
<1>r. \A r \in RefType : [r EXCEPT !.state = IF @ = "QUEUED" THEN "FAILED" ELSE @] \in RefType
  BY DEF RefType, Stored
<1>1. CASE TakeLock(d)
  BY <1>1, ConsoleAssumption DEF TakeLock, Step, ConsoleInv, TypeOK, DaemonHolds, CliHolds,
     SocketBound, Sourced, Told, Process, Running, Serving, Starting, Stopping, Owning, Bound
<1>2. CASE Recover(d)
  BY <1>2, <1>r, ConsoleAssumption DEF Recover, Step, ConsoleInv, TypeOK, DaemonHolds,
     CliHolds, SocketBound, Sourced, Told, Process, Running, Serving, Starting, Stopping, Owning, Bound
<1>3. CASE Unlink(d) \/ Bind(d) \/ Listen(d) \/ Signal(d)
  BY <1>3, ConsoleAssumption DEF Unlink, Bind, Listen, Signal, Step, ConsoleInv, TypeOK,
     DaemonHolds, CliHolds, SocketBound, Sourced, Told, Process, Running, Serving, Starting, Stopping,
     Owning, Bound
<1>4. CASE Retire(d)
  BY <1>4, ConsoleAssumption DEF Retire, Step, ConsoleInv, TypeOK, DaemonHolds, CliHolds,
     SocketBound, Sourced, Told, Process, Running, Serving, Starting, Stopping, Owning, Bound
<1>9. CASE RemovePath(d) \/ CloseRegistry(d)
  BY <1>9, ConsoleAssumption DEF RemovePath, CloseRegistry, Step, ConsoleInv, TypeOK,
     DaemonHolds, CliHolds, SocketBound, Sourced, Told, Process, Running, Serving, Starting, Stopping,
     Owning, Bound
<1>5. CASE Unlock(d)
  BY <1>5, ConsoleAssumption DEF Unlock, Step, ConsoleInv, TypeOK, DaemonHolds, CliHolds,
     SocketBound, Sourced, Told, Process, Running, Serving, Starting, Stopping, Owning, Bound
<1>6. CASE Shut(d)
  <2>1. Cut /\ conn' \in [Cli -> ConnType]
    BY <1>6, ShutCuts DEF ConsoleInv
  <2>2. \A c \in Cli : Told(c)'
    BY <2>1, <1>6, CutTold DEF Shut
  <2> QED
    BY <2>1, <2>2, <1>6, ConsoleAssumption DEF Shut, Step, ConsoleInv, TypeOK, ConnType,
       DaemonHolds, CliHolds, SocketBound, Sourced, Process, Running, Serving, Starting, Stopping, Owning,
       Bound
<1>10. CASE AcceptFails(d)
  <2>1. Cut /\ conn' \in [Cli -> ConnType]
    BY <1>10, AcceptFailsCuts DEF ConsoleInv
  <2>2. \A c \in Cli : Told(c)'
    BY <2>1, <1>10, CutTold DEF AcceptFails
  <2> QED
    BY <2>1, <2>2, <1>10, ConsoleAssumption DEF AcceptFails, Step, ConsoleInv, TypeOK, ConnType,
       DaemonHolds, CliHolds, SocketBound, Sourced, Process, Running, Serving, Starting, Stopping,
       Owning, Bound
<1>7. CASE Exit(d)
  <2>1. Cut /\ conn' \in [Cli -> ConnType]
    BY <1>7, EndedCuts DEF ConsoleInv, Exit
  <2>2. \A c \in Cli : Told(c)'
    BY <2>1, <1>7, CutTold DEF Exit
  <2> QED
    BY <2>1, <2>2, <1>7, ConsoleAssumption DEF Exit, Step, ConsoleInv, TypeOK, ConnType,
       DaemonHolds, CliHolds, SocketBound, Sourced, Process, Running, Serving, Starting, Stopping, Owning,
       Bound
<1>8. CASE Kill(d)
  <2>1. Cut /\ conn' \in [Cli -> ConnType]
    BY <1>8, EndedCuts DEF ConsoleInv, Kill
  <2>2. \A c \in Cli : Told(c)'
    BY <2>1, <1>8, CutTold DEF Kill
  <2> QED
    BY <2>1, <2>2, <1>8, ConsoleAssumption DEF Kill, ConsoleInv, TypeOK, ConnType,
       DaemonHolds, CliHolds, SocketBound, Sourced, Process, Running, Serving, Starting, Stopping, Owning,
       Bound
<1> QED  BY <1>1, <1>2, <1>3, <1>4, <1>5, <1>6, <1>7, <1>8, <1>9, <1>10 DEF Boot, Halt

LEMMA AdvanceInv ==
    ASSUME ConsoleInv, NEW p \in Process, Advance(p) \/ WorkerLost(p)
    PROVE  ConsoleInv'
<1>1. ASSUME Advance(p) PROVE ref' \in RefType
  <2>1. \A r \in RefType : [r EXCEPT !.state = "FAILED"] \in RefType
    BY DEF RefType, Stored
  <2>2. \A r \in RefType : r.src # 0 => r.src \in Rev /\ r.built \cup {r.src} \subseteq Rev
    BY ConsoleAssumption DEF RefType, Rev
  <2>3. \A r \in RefType, b \in SUBSET Rev :
          [r EXCEPT !.state = "PREPARED", !.key = r.src, !.built = b] \in RefType
    BY DEF RefType, Stored
  <2>4. CASE ref' = [ref EXCEPT !.state = "FAILED"]
    BY <2>1, <2>4 DEF ConsoleInv, TypeOK
  <2>5. CASE ref.state = "QUEUED" /\ ref' = [ref EXCEPT !.state = "PREPARED", !.key = ref.src,
                                                         !.built = @ \cup {ref.src}]
    <3>1. ref.src # 0 /\ ref \in RefType
      BY <2>5 DEF ConsoleInv, TypeOK, Sourced
    <3> QED  BY <3>1, <2>2, <2>3, <2>5
  <2> QED  BY <1>1, <2>4, <2>5 DEF Advance
<1>4. ASSUME Advance(p) PROVE Sourced'
  BY <1>4 DEF Advance, ConsoleInv, TypeOK, Sourced, RefType
<1>2. CASE Advance(p)
  BY <1>1, <1>2, <1>4 DEF Advance, ConsoleInv, TypeOK, DaemonHolds, CliHolds, SocketBound,
     Told
<1>3. CASE WorkerLost(p)
  BY <1>3, ConsoleAssumption DEF WorkerLost, ConsoleInv, TypeOK, DaemonHolds, CliHolds,
     SocketBound, Sourced, Told
<1> QED  BY <1>2, <1>3

----------------------------------------------------------------------------
(* What an owner does for a command keeps the shape of the registry.       *)
LEMMA PerformTyped ==
    ASSUME ConsoleInv, NEW p \in Process, NEW c \in Cli, NEW out, Perform(p, c, out)
    PROVE  /\ ref' \in RefType /\ Sourced'
           /\ worker' \in [Process -> 0..MaxRev]
<1>1. ref \in RefType /\ worker \in [Process -> 0..MaxRev] /\ Rev \subseteq 0..MaxRev
  BY ConsoleAssumption DEF ConsoleInv, TypeOK, Rev
<1>2. CASE /\ UNCHANGED worker
           /\ \E r \in Rev, state \in {"QUEUED", "FAILED"} :
                ref' = IF r \in ref.built
                       THEN [ref EXCEPT !.state = "PREPARED", !.src = r, !.key = r]
                       ELSE [ref EXCEPT !.state = state, !.src = r]
  <2>1. \A r \in Rev : r \in 0..MaxRev /\ r # 0
    BY ConsoleAssumption DEF Rev
  <2>2. \A t \in RefType, r \in 0..MaxRev, state \in {"QUEUED", "FAILED"} :
          LET n == [t EXCEPT !.state = "PREPARED", !.src = r, !.key = r]
              q == [t EXCEPT !.state = state, !.src = r]
          IN  n \in RefType /\ n.state = "PREPARED" /\ q \in RefType /\ q.src = r
    BY DEF RefType, Stored
  <2>3. PICK r \in Rev, state \in {"QUEUED", "FAILED"} :
          ref' = IF r \in ref.built
                 THEN [ref EXCEPT !.state = "PREPARED", !.src = r, !.key = r]
                 ELSE [ref EXCEPT !.state = state, !.src = r]
    BY <1>2
  <2>4. CASE ref' = [ref EXCEPT !.state = "PREPARED", !.src = r, !.key = r]
    BY <1>1, <1>2, <2>1, <2>2, <2>4 DEF Sourced
  <2>5. CASE ref' = [ref EXCEPT !.state = state, !.src = r]
    <3>1. r \in 0..MaxRev /\ r # 0 /\ ref \in RefType
      BY <1>1, <2>1
    <3>2. ref' \in RefType /\ ref'.src = r
      BY <2>2, <2>5, <3>1
    <3> QED  BY <1>1, <1>2, <3>1, <3>2 DEF Sourced
  <2> QED  BY <2>3, <2>4, <2>5
<1>3. CASE /\ ref.key # 0 /\ worker' = [worker EXCEPT ![p] = ref.key]
           /\ ref' = [ref EXCEPT !.verified = @ \cup {ref.key}]
  <2>1. ref.key \in Rev /\ ref.key \in 0..MaxRev
    BY <1>1, <1>3, ConsoleAssumption DEF RefType, Rev
  <2>2. \A t \in RefType, v \in SUBSET Rev :
          LET n == [t EXCEPT !.verified = v]
          IN  n \in RefType /\ n.state = t.state /\ n.src = t.src
    BY DEF RefType
  <2>3. ref.verified \cup {ref.key} \in SUBSET Rev
    BY <1>1, <2>1 DEF RefType
  <2> QED  BY <1>1, <1>3, <2>1, <2>2, <2>3 DEF ConsoleInv, Sourced
<1>4. CASE ref.state = "FAILED" /\ ref' = [ref EXCEPT !.state = "QUEUED"] /\ UNCHANGED worker
  <2>1. \A t \in RefType :
          LET n == [t EXCEPT !.state = "QUEUED"] IN n \in RefType /\ n.src = t.src
    BY DEF RefType, Stored
  <2> QED  BY <1>1, <1>4, <2>1 DEF ConsoleInv, Sourced
<1>5. CASE UNCHANGED <<ref, worker>>
  BY <1>1, <1>5 DEF ConsoleInv, Sourced
<1> QED  BY <1>2, <1>3, <1>4, <1>5 DEF Perform

(* A handler thread answers once, and only a caller that still waits.      *)
LEMMA HandlerInv ==
    ASSUME ConsoleInv, NEW c \in Cli, Accept(c) \/ Handle(c)
    PROVE  ConsoleInv'
<1>1. conn[c] \in ConnType /\ conn[c].at \in {"sent", "working"}
  BY DEF Accept, Handle, ConsoleInv, TypeOK, ConnType
<1>2. CASE Accept(c)
  <2>1. /\ conn' \in [Cli -> ConnType] /\ conn'[c].at = "working"
        /\ \A e \in Cli \ {c} : conn'[e] = conn[e]
    <3>1. \A n \in ConnType : LET w == [n EXCEPT !.at = "working"]
                              IN  w \in ConnType /\ w.at = "working"
      BY DEF ConnType
    <3> QED  BY <1>1, <1>2, <3>1 DEF Accept, ConsoleInv, TypeOK, ConnType
  <2> QED
    BY <1>1, <1>2, <2>1 DEF Accept, ConsoleInv, TypeOK, ConnType, DaemonHolds, CliHolds,
       SocketBound, Sourced, Told
<1>3. CASE Handle(c)
  <2>1. PICK out \in {"ok", "noop", "err"} :
          /\ IF Open(conn[c].to) THEN Perform(conn[c].to, c, out)
             ELSE UNCHANGED <<ref, worker>>
          /\ conn' = [conn EXCEPT ![c] = Deliver(c, out)]
          /\ done' = [done EXCEPT ![c] = out = "ok"]
    BY <1>3 DEF Handle
  <2>2. /\ ref' \in RefType /\ Sourced'
        /\ worker' \in [Process -> 0..MaxRev]
    BY <1>1, <2>1, PerformTyped DEF ConsoleInv, TypeOK, Sourced, Told, Process
  <2>3. /\ conn' \in [Cli -> ConnType]
        /\ cli[c].at = "await" => conn'[c].at = out
        /\ cli[c].at # "await" => conn'[c].at = "none"
        /\ \A e \in Cli \ {c} : conn'[e] = conn[e]
    BY <1>1, <2>1, DeliverTo DEF ConsoleInv, TypeOK, ConnType, NoConn
  <2>4. /\ done' \in [Cli -> BOOLEAN]
        /\ done'[c] <=> out = "ok"
        /\ \A e \in Cli \ {c} : done'[e] = done[e]
    BY <2>1 DEF ConsoleInv, TypeOK
  <2>5. \A e \in Cli : Told(e)'
    BY <1>1, <1>3, <2>3, <2>4 DEF Handle, ConsoleInv, Told
  <2> QED
    BY <1>3, <2>2, <2>3, <2>4, <2>5 DEF Handle, ConsoleInv, TypeOK, ConnType, DaemonHolds,
       CliHolds, SocketBound
<1> QED  BY <1>2, <1>3

(* An invocation's steps.                                                  *)
LEMMA InvokeInv ==
    ASSUME ConsoleInv, NEW c \in Cli, Invoke(c)
    PROVE  ConsoleInv'
<1>1. PICK cmd \in Cmds, wait \in BOOLEAN, want \in {"PREPARED", "ACTIVE"},
           at \in {"poll", "read", "call", "lock"} :
        /\ wait => cmd \in {"prepare", "activate"}
        /\ want = "ACTIVE" => cmd \in {"activate", "wait"}
        /\ cmd = "activate" => want = "ACTIVE"
        /\ at \in {"poll", "read"} <=> cmd = "wait"
        /\ IF Answers THEN at \in {"poll", "call"} \/ (cmd = "prepare" /\ at = "lock")
                      ELSE at \in {"read", "lock"}
        /\ cli' = [cli EXCEPT ![c] = [at |-> at, cmd |-> cmd, wait |-> wait, want |-> want,
                                      exit |-> "none"]]
  BY Zenon DEF Invoke
<1>2. [at |-> at, cmd |-> cmd, wait |-> wait, want |-> want, exit |-> "none"] \in CliType
  BY DEF CliType, CliAt, Polling
<1>3. /\ cli' \in [Cli -> CliType]
      /\ cli'[c].at = at /\ cli'[c].cmd = cmd /\ cli'[c].exit = "none"
      /\ \A e \in Cli \ {c} : cli'[e] = cli[e]
  BY <1>1, <1>2 DEF ConsoleInv, TypeOK
<1> QED
  BY <1>1, <1>3 DEF Invoke, ConsoleInv, TypeOK, DaemonHolds, CliHolds, SocketBound, Sourced,
     Told, Owning

LEMMA CallInv ==
    ASSUME ConsoleInv, NEW c \in Cli, Call(c)
    PROVE  ConsoleInv'
<1>1. TypeOK
  BY DEF ConsoleInv
<1>2. CASE Answers /\ Goto(c, "await") /\ conn' = [conn EXCEPT ![c] = [to |-> sock, at |-> "sent"]]
  <2>1. /\ cli' \in [Cli -> CliType]
        /\ cli'[c].at = "await" /\ cli'[c].cmd = cli[c].cmd /\ cli'[c].exit = cli[c].exit
        /\ \A e \in Cli \ {c} : cli'[e] = cli[e]
    BY <1>1, <1>2, GotoMoves DEF CliAt
  <2>2. /\ conn' \in [Cli -> ConnType]
        /\ conn'[c].at = "sent" /\ conn'[c].to \in Daemon
        /\ \A e \in Cli \ {c} : conn'[e] = conn[e]
    BY <1>1, <1>2 DEF Answers, TypeOK, ConnType
  <2> QED
    BY <1>2, <2>1, <2>2 DEF Call, ConsoleInv, TypeOK, ConnType, DaemonHolds, CliHolds,
       SocketBound, Sourced, Told, Owning
<1>3. CASE Over(c, "3") /\ conn' = conn
  <2>1. /\ cli' \in [Cli -> CliType]
        /\ cli'[c].at = "over" /\ cli'[c].cmd = cli[c].cmd /\ cli'[c].exit = "3"
        /\ \A e \in Cli \ {c} : cli'[e] = cli[e]
    BY <1>1, <1>3, OverEnds DEF Exits
  <2> QED
    BY <1>3, <2>1 DEF Call, ConsoleInv, TypeOK, DaemonHolds, CliHolds, SocketBound, Sourced,
       Told, Owning
<1> QED  BY <1>2, <1>3 DEF Call

(* A step of one invocation that leaves the directory alone.               *)
LEMMA OneMoves ==
    ASSUME ConsoleInv, NEW c \in Cli, UNCHANGED <<lock, sock, pc, ref, kills>>,
           worker' \in [Process -> 0..MaxRev], cli' \in [Cli -> CliType],
           conn' \in [Cli -> ConnType], done' \in [Cli -> BOOLEAN],
           \A e \in Cli \ {c} : cli'[e] = cli[e] /\ conn'[e] = conn[e] /\ done'[e] = done[e],
           cli'[c].at \in Owning => cli[c].at \in Owning, Told(c)'
    PROVE  ConsoleInv'
<1>1. TypeOK'
  BY DEF ConsoleInv, TypeOK, ConnType
<1>2. DaemonHolds' /\ CliHolds' /\ SocketBound' /\ Sourced'
  BY DEF ConsoleInv, DaemonHolds, CliHolds, SocketBound, Sourced
<1>3. \A e \in Cli : Told(e)'
  BY DEF ConsoleInv, Told
<1> QED  BY <1>1, <1>2, <1>3 DEF ConsoleInv

(* A reply is read once; 0 is only made of "ok", or by a command that      *)
(* looks at nothing.                                                       *)
LEMMA ReplyInv ==
    ASSUME ConsoleInv, NEW c \in Cli, Reply(c)
    PROVE  ConsoleInv'
<1>1. TypeOK
  BY DEF ConsoleInv
<1>2. /\ conn' \in [Cli -> ConnType] /\ conn'[c].at = "none"
      /\ \A e \in Cli \ {c} : conn'[e] = conn[e]
  BY <1>1 DEF Reply, TypeOK, ConnType, NoConn
<1>5. /\ cli[c].at = "await" /\ cli[c].exit = "none"
      /\ conn[c].at = "ok" => done[c]
      /\ UNCHANGED <<lock, sock, pc, ref, worker, done, kills>>
  BY DEF Reply, ConsoleInv, Told
<1>3. CASE Goto(c, "poll") /\ (conn[c].at = "ok" \/ cli[c].cmd \in {"activate", "prune"})
  <2>1. /\ cli' \in [Cli -> CliType]
        /\ cli'[c].at = "poll" /\ cli'[c].cmd = cli[c].cmd /\ cli'[c].exit = cli[c].exit
        /\ \A e \in Cli \ {c} : cli'[e] = cli[e]
    BY <1>1, <1>3, GotoMoves DEF CliAt, Polling
  <2>2. Told(c)'
    BY <1>2, <1>3, <1>5, <2>1 DEF Told
  <2> QED  BY <1>1, <1>2, <1>5, <2>1, <2>2, OneMoves DEF TypeOK, Owning
<1>4. CASE \E exit \in Exits : /\ Over(c, exit)
                               /\ exit = "0" => \/ conn[c].at = "ok"
                                                \/ cli[c].cmd \in {"activate", "prune"}
  <2>1. PICK exit \in Exits : /\ Over(c, exit)
                              /\ exit = "0" => \/ conn[c].at = "ok"
                                               \/ cli[c].cmd \in {"activate", "prune"}
    BY <1>4
  <2>2. /\ cli' \in [Cli -> CliType]
        /\ cli'[c].at = "over" /\ cli'[c].cmd = cli[c].cmd /\ cli'[c].exit = exit
        /\ \A e \in Cli \ {c} : cli'[e] = cli[e]
    BY <1>1, <2>1, OverEnds
  <2>3. Told(c)'
    BY <1>2, <1>5, <2>1, <2>2 DEF Told
  <2> QED  BY <1>1, <1>2, <1>5, <2>2, <2>3, OneMoves DEF TypeOK, Owning
<1> QED  BY <1>3, <1>4 DEF Reply, Exits

LEMMA OverInv ==
    ASSUME ConsoleInv, NEW c \in Cli, CallTimeout(c) \/ Poll(c) \/ Read(c)
    PROVE  ConsoleInv'
<1>1. TypeOK
  BY DEF ConsoleInv
<1>2. PICK exit \in Exits : /\ Over(c, exit)
                            /\ CallTimeout(c) => exit = "3"
  BY VerdictExits DEF CallTimeout, Poll, Read, Exits
<1>4. /\ cli[c].at \in {"await", "poll", "read"}
      /\ cli[c].at = "await" => exit = "3"
      /\ UNCHANGED <<lock, sock, pc, ref, worker, conn, done, kills>>
  BY <1>1, <1>2 DEF CallTimeout, Poll, Read
<1>3. /\ cli' \in [Cli -> CliType]
      /\ cli'[c].at = "over" /\ cli'[c].cmd = cli[c].cmd /\ cli'[c].exit = exit
      /\ \A e \in Cli \ {c} : cli'[e] = cli[e]
  BY <1>1, <1>2, OverEnds
<1>5. Told(c)'
  BY <1>3, <1>4 DEF ConsoleInv, Told
<1> QED  BY <1>1, <1>3, <1>4, <1>5, OneMoves DEF TypeOK, ConnType, Owning

LEMMA OwnInv ==
    ASSUME ConsoleInv, NEW c \in Cli, Own(c)
    PROVE  ConsoleInv'
<1>1. TypeOK
  BY DEF ConsoleInv
<1>2. CASE /\ lock = None /\ lock' = c /\ Goto(c, "own")
           /\ ref' = [ref EXCEPT !.state = IF @ = "QUEUED" THEN "FAILED" ELSE @]
  <2>1. /\ cli' \in [Cli -> CliType]
        /\ cli'[c].at = "own" /\ cli'[c].cmd = cli[c].cmd /\ cli'[c].exit = cli[c].exit
        /\ \A e \in Cli \ {c} : cli'[e] = cli[e]
    BY <1>1, <1>2, GotoMoves DEF CliAt, Owning
  <2>2. ref' \in RefType /\ Sourced'
    <3>1. \A r \in RefType :
            LET n == [r EXCEPT !.state = IF @ = "QUEUED" THEN "FAILED" ELSE @]
            IN  /\ n \in RefType /\ n.src = r.src
                /\ n.state \in {"QUEUED", "FAILED"} => r.state \in {"QUEUED", "FAILED"}
      BY DEF RefType, Stored
    <3> QED  BY <1>1, <1>2, <3>1 DEF ConsoleInv, Sourced, TypeOK
  <2> QED
    BY <1>2, <2>1, <2>2, ConsoleAssumption DEF Own, ConsoleInv, TypeOK, DaemonHolds, CliHolds,
       SocketBound, Told, Owning, Process, Starting, Stopping, Running
<1>3. CASE (Over(c, "9") \/ Over(c, "err")) /\ UNCHANGED <<lock, ref>>
  <2>1. /\ cli' \in [Cli -> CliType]
        /\ cli'[c].at = "over" /\ cli'[c].cmd = cli[c].cmd /\ cli'[c].exit \in {"9", "err"}
        /\ \A e \in Cli \ {c} : cli'[e] = cli[e]
    BY <1>1, <1>3, OverEnds DEF Exits
  <2>2. Told(c)'
    BY <1>3, <2>1 DEF Own, ConsoleInv, Told
  <2> QED
    BY <1>1, <1>3, <2>1, <2>2, OneMoves DEF Own, TypeOK, ConnType, Owning
<1> QED  BY <1>2, <1>3 DEF Own

LEMMA SetFields ==
    ASSUME TypeOK, NEW c \in Cli, NEW at \in {"self", "close"},
           NEW exit \in {"0", "3", "err"}, cli' = [cli EXCEPT ![c].at = at, ![c].exit = exit]
    PROVE  /\ cli' \in [Cli -> CliType]
           /\ cli'[c].at = at /\ cli'[c].cmd = cli[c].cmd /\ cli'[c].exit = exit
           /\ \A e \in Cli \ {c} : cli'[e] = cli[e]
<1>1. \A r \in CliType :
        LET n == [r EXCEPT !.at = at, !.exit = exit]
        IN  n \in CliType /\ n.at = at /\ n.cmd = r.cmd /\ n.exit = exit
  BY DEF CliType, CliAt, Owning, Exits
<1>2. /\ cli' \in [Cli -> CliType] /\ cli'[c] = [cli[c] EXCEPT !.at = at, !.exit = exit]
      /\ \A e \in Cli \ {c} : cli'[e] = cli[e]
  BY <1>1 DEF TypeOK
<1>3. cli[c] \in CliType
  BY DEF TypeOK
<1> QED  BY <1>1, <1>2, <1>3

LEMMA AloneInv ==
    ASSUME ConsoleInv, NEW c \in Cli, PerformAlone(c) \/ SelfWait(c)
    PROVE  ConsoleInv'
<1>1. TypeOK
  BY DEF ConsoleInv
<1>3. CASE PerformAlone(c)
  <2>1. PICK out \in {"ok", "noop", "err"} :
          /\ Perform(c, c, out)
          /\ done' = [done EXCEPT ![c] = out = "ok"]
          /\ cli' = [cli EXCEPT
               ![c].at = IF out = "ok" /\ cli[c].wait THEN "self" ELSE "close",
               ![c].exit = IF out = "ok" THEN "0" ELSE IF out = "noop" THEN "3" ELSE "err"]
    BY <1>3 DEF PerformAlone
  <2>2. /\ ref' \in RefType /\ Sourced'
        /\ worker' \in [Process -> 0..MaxRev]
    BY <2>1, PerformTyped DEF Process
  <2>3. PICK at \in {"self", "close"}, exit \in {"0", "3", "err"} :
          /\ at = "self" => out = "ok"
          /\ exit = "0" => out = "ok"
          /\ cli' = [cli EXCEPT ![c].at = at, ![c].exit = exit]
    BY <2>1
  <2>4. /\ cli' \in [Cli -> CliType]
        /\ cli'[c].at = at /\ cli'[c].cmd = cli[c].cmd /\ cli'[c].exit = exit
        /\ \A e \in Cli \ {c} : cli'[e] = cli[e]
    BY <1>1, <2>3, SetFields
  <2>5. /\ done' \in [Cli -> BOOLEAN] /\ (done'[c] <=> out = "ok")
        /\ \A e \in Cli \ {c} : done'[e] = done[e]
    BY <1>1, <2>1 DEF TypeOK
  <2>6. \A e \in Cli : Told(e)'
    BY <1>3, <2>3, <2>4, <2>5 DEF PerformAlone, ConsoleInv, Told
  <2> QED
    BY <1>3, <2>2, <2>3, <2>4, <2>5, <2>6 DEF PerformAlone, ConsoleInv, TypeOK, DaemonHolds,
       CliHolds, SocketBound, Owning
<1>4. CASE SelfWait(c)
  <2>1. PICK exit \in {"0", "3", "err"} :
          cli' = [cli EXCEPT ![c].at = "close", ![c].exit = exit]
    BY <1>4 DEF SelfWait
  <2>2. /\ cli' \in [Cli -> CliType]
        /\ cli'[c].at = "close" /\ cli'[c].cmd = cli[c].cmd /\ cli'[c].exit = exit
        /\ \A e \in Cli \ {c} : cli'[e] = cli[e]
    BY <1>1, <2>1, SetFields
  <2>3. Told(c)'
    BY <1>4, <2>2 DEF SelfWait, ConsoleInv, Told
  <2> QED
    BY <1>1, <1>4, <2>2, <2>3, OneMoves DEF SelfWait, TypeOK, ConnType, Owning
<1> QED  BY <1>3, <1>4

LEMMA LeaveInv ==
    ASSUME ConsoleInv, NEW c \in Cli, CloseAlone(c) \/ Release(c)
    PROVE  ConsoleInv'
<1>1. TypeOK
  BY DEF ConsoleInv
<1>2. CASE CloseAlone(c)
  <2>1. /\ cli' \in [Cli -> CliType]
        /\ cli'[c].at = "release" /\ cli'[c].cmd = cli[c].cmd /\ cli'[c].exit = cli[c].exit
        /\ \A e \in Cli \ {c} : cli'[e] = cli[e]
    BY <1>1, <1>2, GotoMoves DEF CloseAlone, CliAt, Owning
  <2>2. worker' \in [Process -> 0..MaxRev]
    <3>1. 0 \in 0..MaxRev /\ worker' = [worker EXCEPT ![c] = 0]
      BY <1>2, ConsoleAssumption DEF CloseAlone
    <3> QED  BY <1>1, <3>1 DEF TypeOK
  <2>3. Told(c)'
    BY <1>2, <2>1 DEF CloseAlone, ConsoleInv, Told
  <2> QED
    BY <1>1, <1>2, <2>1, <2>2, <2>3, OneMoves DEF CloseAlone, TypeOK, ConnType, Owning
<1>3. CASE Release(c)
  <2>1. /\ cli' \in [Cli -> CliType]
        /\ cli'[c].at = "over" /\ cli'[c].cmd = cli[c].cmd /\ cli'[c].exit = cli[c].exit
        /\ \A e \in Cli \ {c} : cli'[e] = cli[e]
    BY <1>1, <1>3, OverEnds DEF Release, TypeOK, CliType
  <2>2. lock = c
    BY <1>3 DEF Release, ConsoleInv, CliHolds, Owning
  <2>3. DaemonHolds' /\ CliHolds'
    BY <1>3, <2>1, <2>2, ConsoleAssumption DEF Release, ConsoleInv, DaemonHolds, CliHolds,
       Owning
  <2> QED
    BY <1>3, <2>1, <2>3 DEF Release, ConsoleInv, TypeOK, SocketBound, Sourced, Told
<1> QED  BY <1>2, <1>3

LEMMA StutterInv == ConsoleInv /\ UNCHANGED vars => ConsoleInv'
BY DEF ConsoleInv, vars, TypeOK, DaemonHolds, CliHolds, SocketBound, Sourced, Told

LEMMA NextInv == ConsoleInv /\ [Next]_vars => ConsoleInv'
BY StutterInv, DaemonInv, AdvanceInv, HandlerInv, InvokeInv, CallInv, ReplyInv, OverInv,
   OwnInv, AloneInv, LeaveInv DEF Next, Command

LEMMA Invariant == Spec => []ConsoleInv
BY InitInv, NextInv, PTL DEF Spec

----------------------------------------------------------------------------
(* The variables keep their types.                                         *)
THEOREM TypeCorrect == Spec => []TypeOK
<1>1. ConsoleInv => TypeOK
  BY DEF ConsoleInv
<1> QED  BY <1>1, Invariant, PTL

(* Whoever has the registry open has the lock (supervisor.py __init__,     *)
(* stop).                                                                  *)
THEOREM WritersOwn == Spec => []OwnerWrites
<1>1. ConsoleInv => OwnerWrites
  BY DEF ConsoleInv, OwnerWrites, DaemonHolds, CliHolds, Open, Running, Serving, Starting, Stopping,
     Owning, Process
<1> QED  BY <1>1, Invariant, PTL

(* A daemon that serves is the one at the path (admin.py).                 *)
THEOREM ServersReached == Spec => []Reachable
<1>1. ConsoleInv => Reachable
  BY DEF ConsoleInv, Reachable, SocketBound, Bound
<1> QED  BY <1>1, Invariant, PTL

(* Exit code 0 of prepare and recover is not made of anything but an       *)
(* answer, or of the command itself (cli.py).                              *)
THEOREM ZeroEarned == Spec => []ZeroIsDone
<1>1. ConsoleInv => ZeroIsDone
  BY DEF ConsoleInv, ZeroIsDone, Told
<1> QED  BY <1>1, Invariant, PTL

==============================================================================
