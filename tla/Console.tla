------------------------------- MODULE Console -------------------------------
(***************************************************************************)
(* The processes around one data directory: daemons that start, serve,     *)
(* stop or are killed, and the invocations of fxdna that call a daemon     *)
(* over control.sock or, when they find none, own the directory themselves *)
(* (cli.py, admin.py, the lifecycle and the reads of supervisor.py).       *)
(*                                                                         *)
(* manager.lock, the path control.sock, the registry and what each process *)
(* has open are kept; preparation is one reference with a few revisions,   *)
(* whose jobs and workers are those of JobManager and ResidentWorker.      *)
(***************************************************************************)
EXTENDS StatusView, FiniteSets

CONSTANTS
    Daemon,    \* runs of fxdna serve
    Cli,       \* invocations of the other commands
    None,      \* nobody; no file
    MaxRev,    \* bound: revisions of the reference
    MaxKills   \* bound: kills of a process

ASSUME ConsoleAssumption ==
    /\ Daemon \cap Cli = {} /\ None \notin Daemon \cup Cli
    /\ MaxRev \in Nat /\ MaxKills \in Nat

VARIABLES
    lock,    \* manager.lock: the process that holds it
    sock,    \* control.sock: the daemon that bound the file at this path
    pc,      \* where each daemon is
    ref,     \* the registry: the reference, its builds and checks
    worker,  \* the revision that each process's worker serves
    cli,     \* each invocation: where it is, what it runs, its exit code
    conn,    \* its connection: the daemon, and how far the request got
    done,    \* its command has been carried out
    kills    \* kills so far

vars == <<lock, sock, pc, ref, worker, cli, conn, done, kills>>

Rev     == 1..MaxRev
Process == Daemon \cup Cli
Cmds    == {"prepare", "activate", "prune", "recover", "wait"}
Starting == {"recover", "unlink", "bind", "listen"}
Stopping == {"retire", "drain", "shut", "path", "registry", "unlock", "exit"}
Serving  == {"serve", "deaf"}
Listening == {"serve", "retire", "drain"}
Owning  == {"own", "self", "close", "release"}
Polling == {"poll", "read"}
CliAt   == {"idle", "call", "await", "lock", "over"} \cup Owning \cup Polling
RefType == [state: Stored, src: 0..MaxRev, key: 0..MaxRev,
            built: SUBSET Rev, verified: SUBSET Rev]
CliType == [at: CliAt, cmd: Cmds, wait: BOOLEAN, want: {"PREPARED", "ACTIVE"},
            exit: Exits \cup {"none"}]

TypeOK ==
    /\ lock \in Process \cup {None} /\ sock \in Daemon \cup {None}
    /\ pc \in [Daemon -> {"off", "gone"} \cup Starting \cup Serving \cup Stopping]
    /\ ref \in RefType
    /\ worker \in [Process -> 0..MaxRev]
    /\ cli \in [Cli -> CliType]
    /\ conn \in [Cli -> [to: Daemon \cup {None},
                         at: {"none", "sent", "working", "ok", "noop", "err",
                              "eof", "reset"}]]
    /\ done \in [Cli -> BOOLEAN]
    /\ kills \in 0..MaxKills

NoConn == [to |-> None, at |-> "none"]

(* What the caller's end of a connection reads next; nobody reads it when  *)
(* the caller has given up and closed it.                                  *)
Deliver(c, at) == IF cli[c].at = "await" THEN [conn[c] EXCEPT !.at = at] ELSE NoConn

(* What earlier processes may have left in the registry.                   *)
Left(r) ==
    /\ r.state = "NEW" <=> r.src = 0
    /\ r.state \in {"QUEUED", "FAILED"} => r.src \notin r.built
    /\ r.state = "NEW" => r.built = {}
    /\ r.state = "PREPARED" => r.key = r.src
    /\ IF r.built = {} THEN r.key = 0 ELSE r.key \in r.built
    /\ r.verified \subseteq r.built

Init ==
    /\ lock = None /\ sock = None /\ kills = 0
    /\ pc = [d \in Daemon |-> "off"]
    /\ ref \in {r \in RefType : Left(r)}
    /\ worker = [p \in Process |-> 0]
    /\ cli = [c \in Cli |-> [at |-> "idle", cmd |-> "wait", wait |-> FALSE,
                             want |-> "PREPARED", exit |-> "none"]]
    /\ conn = [c \in Cli |-> NoConn]
    /\ done = [c \in Cli |-> FALSE]

(* The registry is open from the lock on to just before its release.       *)
Open(p) == IF p \in Daemon
           THEN pc[p] \in (Starting \cup Serving \cup Stopping) \ {"unlock", "exit"}
           ELSE cli[p].at \in Owning \ {"release"}

----------------------------------------------------------------------------
(* fxdna serve.                                                            *)

Step(d, from, to) == pc[d] = from /\ pc' = [pc EXCEPT ![d] = to]

(* Supervisor.__init__: the lock, or OWNERSHIP_CONFLICT; before it, the    *)
(* deployment preflight may end the command.                               *)
TakeLock(d) ==
    /\ \/ lock = None /\ lock' = d /\ Step(d, "off", "recover")
       \/ lock' = lock /\ Step(d, "off", "gone")
    /\ UNCHANGED <<sock, ref, worker, cli, conn, done, kills>>

(* The registry is opened; recover, which interrupts stranded jobs.        *)
Recover(d) ==
    /\ Step(d, "recover", "unlink")
    /\ ref' = [ref EXCEPT !.state = IF @ = "QUEUED" THEN "FAILED" ELSE @]
    /\ UNCHANGED <<lock, sock, worker, cli, conn, done, kills>>

(* AdminServer.__init__: unlink, bind, listen.                             *)
Unlink(d) ==
    /\ Step(d, "unlink", "bind") /\ sock' = None
    /\ UNCHANGED <<lock, ref, worker, cli, conn, done, kills>>

Bind(d) ==
    /\ sock = None /\ Step(d, "bind", "listen") /\ sock' = d
    /\ UNCHANGED <<lock, ref, worker, cli, conn, done, kills>>

Listen(d) ==
    /\ Step(d, "listen", "serve")
    /\ UNCHANGED <<lock, sock, ref, worker, cli, conn, done, kills>>

(* accept() raises, or no thread can be started for the connection it      *)
(* returned: the thread of the server ends, closes its socket and removes  *)
(* the path.  The serve loop goes on.                                      *)
AcceptFails(d) ==
    /\ Step(d, "serve", "deaf") /\ sock' = None
    /\ \E last \in Cli :
         conn' = [c \in Cli |-> IF conn[c] = [to |-> d, at |-> "sent"]
                               THEN Deliver(c, IF c = last THEN "eof" ELSE "reset")
                               ELSE conn[c]]
    /\ UNCHANGED <<lock, ref, worker, cli, done, kills>>

(* A signal ends the serve loop.                                           *)
Signal(d) ==
    /\ pc[d] \in Serving /\ pc' = [pc EXCEPT ![d] = "retire"]
    /\ UNCHANGED <<lock, sock, ref, worker, cli, conn, done, kills>>

(* Supervisor.stop: the worker is retired, the server told to stop ...     *)
Retire(d) ==
    /\ Step(d, "retire", "drain") /\ worker' = [worker EXCEPT ![d] = 0]
    /\ UNCHANGED <<lock, sock, ref, cli, conn, done, kills>>

\* Mutant: the server waits for the requests it still handles.
ShutDrained(d) ==
    /\ \A c \in Cli : conn[c] # [to |-> d, at |-> "working"]
    /\ Step(d, "drain", "shut")
    /\ conn' = [c \in Cli |-> IF conn[c] = [to |-> d, at |-> "sent"]
                              THEN Deliver(c, "reset") ELSE conn[c]]
    /\ UNCHANGED <<lock, sock, ref, worker, cli, done, kills>>

(* ... its thread leaves the accept loop and closes the socket; what it    *)
(* has not accepted is reset ...                                           *)
Shut(d) ==
    /\ Step(d, "drain", "shut")
    /\ conn' = [c \in Cli |-> IF conn[c] = [to |-> d, at |-> "sent"]
                              THEN Deliver(c, "reset") ELSE conn[c]]
    /\ UNCHANGED <<lock, sock, ref, worker, cli, done, kills>>

\* Mutant: the lock is released with the socket, before the registry closes.
RemovePathUnlocks(d) ==
    /\ Step(d, "shut", "registry") /\ sock' = None /\ lock' = None
    /\ UNCHANGED <<ref, worker, cli, conn, done, kills>>

(* ... and removes whatever file is at the path.                           *)
RemovePath(d) ==
    /\ Step(d, "shut", "registry") /\ sock' = None
    /\ UNCHANGED <<lock, ref, worker, cli, conn, done, kills>>

CloseRegistry(d) ==
    /\ Step(d, "registry", "unlock")
    /\ UNCHANGED <<lock, sock, ref, worker, cli, conn, done, kills>>

Unlock(d) ==
    /\ Step(d, "unlock", "exit") /\ lock' = None
    /\ UNCHANGED <<sock, ref, worker, cli, conn, done, kills>>

(* The process ends, and with it the threads that still handle a request:  *)
(* their clients read the end of the stream; a request that was not read   *)
(* is reset.                                                               *)
Ended(d) == conn' = [c \in Cli |->
    IF conn[c] = [to |-> d, at |-> "sent"] THEN Deliver(c, "reset")
    ELSE IF conn[c] = [to |-> d, at |-> "working"] THEN Deliver(c, "eof") ELSE conn[c]]

\* Mutant: the socket is cleaned up again when the process ends.
ExitCleans(d) ==
    /\ Step(d, "exit", "gone") /\ Ended(d)
    /\ worker' = [worker EXCEPT ![d] = 0] /\ sock' = None
    /\ UNCHANGED <<lock, ref, cli, done, kills>>

Exit(d) ==
    /\ Step(d, "exit", "gone") /\ Ended(d)
    /\ worker' = [worker EXCEPT ![d] = 0]
    /\ UNCHANGED <<lock, sock, ref, cli, done, kills>>

Kill(d) ==
    /\ pc[d] \notin {"off", "gone"} /\ kills < MaxKills
    /\ kills' = kills + 1
    /\ pc' = [pc EXCEPT ![d] = "gone"] /\ Ended(d)
    /\ lock' = IF lock = d THEN None ELSE lock
    /\ worker' = [worker EXCEPT ![d] = 0]
    /\ UNCHANGED <<sock, ref, cli, done>>

----------------------------------------------------------------------------
(* What an owner p does to the registry and its worker.                    *)

(* A job ends, advanced by the serve loop or by a standalone wait.         *)
Advance(p) ==
    /\ \/ p \in Daemon /\ pc[p] \in Serving
       \/ p \in Cli /\ cli[p].at = "self"
    /\ ref.state = "QUEUED"
    /\ \/ ref' = [ref EXCEPT !.state = "PREPARED", !.key = ref.src,
                             !.built = @ \cup {ref.src}]
       \/ ref' = [ref EXCEPT !.state = "FAILED"]
    /\ UNCHANGED <<lock, sock, pc, worker, cli, conn, done, kills>>

WorkerLost(p) ==
    /\ worker[p] # 0 /\ worker' = [worker EXCEPT ![p] = 0]
    /\ UNCHANGED <<lock, sock, pc, ref, cli, conn, done, kills>>

(* The command of c, by p: carried out, refused, or (recover) without      *)
(* anything to clear or to requeue.  A prepare may be answered with the    *)
(* job of these bytes that failed for good.                                *)
Perform(p, c, out) ==
    \/ /\ cli[c].cmd = "prepare" /\ out = "ok"
       /\ \E r \in Rev, state \in {"QUEUED", "FAILED"} :
            ref' = IF r \in ref.built
                   THEN [ref EXCEPT !.state = "PREPARED", !.src = r, !.key = r]
                   ELSE [ref EXCEPT !.state = state, !.src = r]
       /\ worker' = worker
    \/ /\ cli[c].cmd = "activate" /\ out = "ok" /\ ref.key # 0
       /\ worker' = [worker EXCEPT ![p] = ref.key]
       /\ ref' = [ref EXCEPT !.verified = @ \cup {ref.key}]
    \/ /\ cli[c].cmd = "prune" /\ out = "ok" /\ UNCHANGED <<ref, worker>>
    \/ /\ cli[c].cmd = "recover" /\ UNCHANGED worker
       /\ \/ out \in {"ok", "noop"} /\ ref' = ref
          \/ out = "ok" /\ ref.state = "FAILED" /\ ref' = [ref EXCEPT !.state = "QUEUED"]
    \/ out = "err" /\ UNCHANGED <<ref, worker>>

(* A handler thread: accepts and reads, then answers; with the registry    *)
(* closed every command raises.                                            *)
Accept(c) ==
    /\ conn[c].at = "sent" /\ pc[conn[c].to] \in Listening
    /\ conn' = [conn EXCEPT ![c].at = "working"]
    /\ UNCHANGED <<lock, sock, pc, ref, worker, cli, done, kills>>

Handle(c) ==
    /\ conn[c].at = "working"
    /\ \E out \in {"ok", "noop", "err"} :
         /\ IF Open(conn[c].to) THEN Perform(conn[c].to, c, out)
            ELSE out = "err" /\ UNCHANGED <<ref, worker>>
         /\ conn' = [conn EXCEPT ![c] = Deliver(c, out)]
         /\ done' = [done EXCEPT ![c] = out = "ok"]
    /\ UNCHANGED <<lock, sock, pc, cli, kills>>

----------------------------------------------------------------------------
(* The other commands.                                                     *)

Goto(c, at) == cli' = [cli EXCEPT ![c].at = at]
Over(c, exit) == cli' = [cli EXCEPT ![c].at = "over", ![c].exit = exit]
Answers == sock # None /\ pc[sock] \in Listening

(* An invocation begins; _daemon_alive decides how it goes on, or, for a   *)
(* prepare, --standalone.  A path that is not there is tried again for a   *)
(* second, a refusal is final.                                             *)
Invoke(c) ==
    /\ cli[c].at = "idle"
    /\ \E cmd \in Cmds, wait \in BOOLEAN, want \in {"PREPARED", "ACTIVE"},
          at \in {"poll", "read", "call", "lock"} :
         /\ wait => cmd \in {"prepare", "activate"}
         /\ want = "ACTIVE" => cmd \in {"activate", "wait"}
         /\ cmd = "activate" => want = "ACTIVE"
         /\ at \in {"poll", "read"} <=> cmd = "wait"
         /\ IF Answers THEN at \in {"poll", "call"} \/ (cmd = "prepare" /\ at = "lock")
                       ELSE at \in {"read", "lock"}
         /\ cli' = [cli EXCEPT ![c] = [at |-> at, cmd |-> cmd, wait |-> wait, want |-> want,
                                       exit |-> "none"]]
    /\ UNCHANGED <<lock, sock, pc, ref, worker, conn, done, kills>>

(* admin_call: connected and sent, or unreachable for two seconds.         *)
Call(c) ==
    /\ cli[c].at = "call"
    /\ \/ /\ Answers /\ Goto(c, "await")
          /\ conn' = [conn EXCEPT ![c] = [to |-> sock, at |-> "sent"]]
       \/ /\ ~Answers /\ Over(c, "3") /\ conn' = conn
    /\ UNCHANGED <<lock, sock, pc, ref, worker, done, kills>>

\* Mutant: no command looks at anything but the key "ok", true by default.
ReplyDefault(c) ==
    /\ cli[c].at = "await"
    /\ \/ conn[c].at \in {"ok", "eof"}
          /\ IF cli[c].wait THEN Goto(c, "poll") ELSE Over(c, "0")
       \/ conn[c].at = "noop" /\ Over(c, "3")
       \/ conn[c].at = "err" /\ Over(c, "err")
       \/ conn[c].at = "reset" /\ Over(c, "3")
    /\ conn' = [conn EXCEPT ![c] = NoConn]
    /\ UNCHANGED <<lock, sock, pc, ref, worker, done, kills>>

(* What a command makes of the reply; of {} when the stream just ended:    *)
(* prepare misses its key "job", recover its "cleared" and "requeued", the *)
(* others look at nothing.                                                 *)
Reply(c) ==
    /\ cli[c].at = "await"
    /\ \/ conn[c].at = "ok" /\ IF cli[c].wait THEN Goto(c, "poll") ELSE Over(c, "0")
       \/ conn[c].at = "noop" /\ Over(c, "3")
       \/ conn[c].at = "err" /\ Over(c, "err")
       \/ conn[c].at = "reset" /\ Over(c, "3")
       \/ /\ conn[c].at = "eof"
          /\ \/ cli[c].cmd = "prepare" /\ Over(c, "1")
             \/ cli[c].cmd = "recover" /\ Over(c, "3")
             \/ /\ cli[c].cmd \in {"activate", "prune"}
                /\ IF cli[c].wait THEN Goto(c, "poll") ELSE Over(c, "0")
    /\ conn' = [conn EXCEPT ![c] = NoConn]
    /\ UNCHANGED <<lock, sock, pc, ref, worker, done, kills>>

(* Ten seconds without a reply.                                            *)
CallTimeout(c) ==
    /\ cli[c].at = "await" /\ Over(c, "3")
    /\ UNCHANGED <<lock, sock, pc, ref, worker, conn, done, kills>>

(* _wait_for_state with a daemon: its status, with its live worker; "1" if *)
(* it dies during the call, "3" if none answers or time is up.             *)
Poll(c) ==
    /\ cli[c].at = "poll"
    /\ \/ /\ Answers
          /\ LET now == RankedState(ref.state, ref.verified, worker[sock], ref.key, ref.src)
             IN  Verdict(now, cli[c].want) # "more" /\ Over(c, Verdict(now, cli[c].want))
       \/ Answers /\ Over(c, "1")
       \/ Over(c, "3")
    /\ UNCHANGED <<lock, sock, pc, ref, worker, conn, done, kills>>

(* ... and without one: the registry is read, and nothing serves.          *)
Read(c) ==
    /\ cli[c].at = "read"
    /\ \/ LET now == RankedState(ref.state, ref.verified, 0, ref.key, ref.src)
          IN  Verdict(now, cli[c].want) # "more" /\ Over(c, Verdict(now, cli[c].want))
       \/ Over(c, "3")
    /\ UNCHANGED <<lock, sock, pc, ref, worker, conn, done, kills>>

(* Standalone: a Supervisor of its own, or OWNERSHIP_CONFLICT; a prepare   *)
(* goes through the preflight first.                                       *)
Own(c) ==
    /\ cli[c].at = "lock"
    /\ \/ /\ lock = None /\ lock' = c /\ Goto(c, "own")
          /\ ref' = [ref EXCEPT !.state = IF @ = "QUEUED" THEN "FAILED" ELSE @]
       \/ lock # None /\ Over(c, "9") /\ UNCHANGED <<lock, ref>>
       \/ cli[c].cmd = "prepare" /\ Over(c, "err") /\ UNCHANGED <<lock, ref>>
    /\ UNCHANGED <<sock, pc, worker, conn, done, kills>>

(* Its command; what the exit code will be is decided here, or by a wait.  *)
PerformAlone(c) ==
    /\ cli[c].at = "own"
    /\ \E out \in {"ok", "noop", "err"} :
         /\ Perform(c, c, out)
         /\ done' = [done EXCEPT ![c] = out = "ok"]
         /\ cli' = [cli EXCEPT
              ![c].at = IF out = "ok" /\ cli[c].wait THEN "self" ELSE "close",
              ![c].exit = IF out = "ok" THEN "0" ELSE IF out = "noop" THEN "3" ELSE "err"]
    /\ UNCHANGED <<lock, sock, pc, conn, kills>>

(* wait_job, _wait_live_active: its own job, its own worker.  A terminal   *)
(* job is printed and prepare still ends with 0; WAIT_TIMEOUT is an error. *)
SelfWait(c) ==
    /\ cli[c].at = "self"
    /\ \E exit \in {"0", "err", "3"} :
         /\ exit = "0" => \/ cli[c].cmd = "prepare" /\ ref.state # "QUEUED"
                          \/ /\ cli[c].cmd = "activate" /\ worker[c] # 0
                             /\ worker[c] = ref.src /\ ref.key = ref.src
         /\ exit = "err" => cli[c].cmd = "activate" /\ ref.state = "FAILED"
         /\ cli' = [cli EXCEPT ![c].at = "close", ![c].exit = exit]
    /\ UNCHANGED <<lock, sock, pc, ref, worker, conn, done, kills>>

(* finally: Supervisor.stop retires its worker and closes the registry ... *)
CloseAlone(c) ==
    /\ cli[c].at = "close" /\ Goto(c, "release")
    /\ worker' = [worker EXCEPT ![c] = 0]
    /\ UNCHANGED <<lock, sock, pc, ref, conn, done, kills>>

(* ... and releases the lock.                                              *)
Release(c) ==
    /\ cli[c].at = "release" /\ Over(c, cli[c].exit)
    /\ lock' = None
    /\ UNCHANGED <<sock, pc, ref, worker, conn, done, kills>>

----------------------------------------------------------------------------
Boot(d) == TakeLock(d) \/ Recover(d) \/ Unlink(d) \/ Bind(d) \/ Listen(d)
Halt(d) == \/ Retire(d) \/ Shut(d) \/ RemovePath(d) \/ CloseRegistry(d) \/ Unlock(d)
           \/ Exit(d)
Command(c) == \/ Call(c) \/ Reply(c) \/ CallTimeout(c) \/ Poll(c) \/ Read(c) \/ Own(c)
              \/ PerformAlone(c) \/ SelfWait(c) \/ CloseAlone(c) \/ Release(c)

Next ==
    \/ \E d \in Daemon : Boot(d) \/ AcceptFails(d) \/ Signal(d) \/ Halt(d) \/ Kill(d)
    \/ \E p \in Process : Advance(p) \/ WorkerLost(p)
    \/ \E c \in Cli : Invoke(c) \/ Command(c) \/ Accept(c) \/ Handle(c)

Spec == Init /\ [][Next]_vars

(* The steps of a starting or stopping daemon, and of an invocation, are   *)
(* those of a running program; nobody has to invoke, to stop or to kill,   *)
(* and no handler has to answer.                                           *)
FairSpec == /\ Spec
            /\ \A d \in Daemon : WF_vars(Recover(d) \/ Unlink(d) \/ Bind(d) \/ Listen(d))
                                 /\ WF_vars(Halt(d))
            /\ \A c \in Cli : WF_vars(Command(c))

----------------------------------------------------------------------------
(* A process writes to the registry only while it owns the directory: on   *)
(* every way out the registry is closed before the lock is released        *)
(* (INTERFACES.md: "The daemon is the only registry writer"; supervisor.py *)
(* __init__, stop).                                                        *)
OwnerWrites == \A p \in Process : Open(p) => lock = p

(* A daemon whose server runs is reachable: no other process, starting,    *)
(* stopping or dying, takes its socket from the path, nor does a server    *)
(* that failed in another one (admin.py __init__, run, _cleanup_socket;    *)
(* supervisor.py stop).                                                    *)
Reachable == \A d \in Daemon : pc[d] = "serve" => sock = d

(* Exit code 0 of prepare and recover says that the command was carried    *)
(* out, also when the daemon is stopped or killed during the call (cli.py  *)
(* cmd_prepare, _recover_exit).                                            *)
ZeroIsDone ==
    \A c \in Cli : cli[c].cmd \in {"prepare", "recover"} /\ cli[c].exit = "0" => done[c]

(* A daemon that was told to stop frees the directory, whatever requests   *)
(* it still handles (supervisor.py stop; cli.py cmd_serve).                *)
StopFrees == \A d \in Daemon : pc[d] = "retire" ~> lock # d /\ pc[d] = "gone"

----------------------------------------------------------------------------
(* Stated by the documents, and not so.                                    *)

(* INTERFACES.md section 1: 0 is success, the requested state reached.  Of *)
(* a stream that ends without a reply, activate and prune make a success.  *)
ZeroMeansDone == \A c \in Cli : cli[c].cmd # "wait" /\ cli[c].exit = "0" => done[c]

(* cli.py _daemon_alive: an invocation right after daemon start must not   *)
(* branch to the standalone path (unless asked to, which prepare can be).  *)
StartingIsAlive ==
    [][\A c \in Cli : cli[c].at = "idle" /\ cli'[c].at = "lock" /\ cli'[c].cmd # "prepare" =>
         \A d \in Daemon : pc[d] \notin Starting]_vars

(* INTERFACES.md section 1: 3 is not ready; the command may well be        *)
(* carried out, later than its caller waited.                              *)
UnreachableIsNotDone ==
    \A c \in Cli : cli[c].exit = "3" /\ cli[c].at = "over" /\ ~cli[c].wait => ~done[c]

(* INTERFACES.md section 1: prepare --wait ends with 0 when the model is   *)
(* prepared.  Standalone, it ends with 0 for a failed compile too.         *)
PreparedAtZero ==
    [][\A c \in Cli : /\ cli[c].cmd = "prepare" /\ cli[c].wait
                      /\ cli[c].at \in {"self", "poll"} /\ cli'[c].exit = "0"
                      => ref.state = "PREPARED"]_vars
==============================================================================
