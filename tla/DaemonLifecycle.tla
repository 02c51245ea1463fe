--------------------------- MODULE DaemonLifecycle ---------------------------
(***************************************************************************)
(* Daemon processes that start, serve, stop and die around the files they  *)
(* share: the pid file with its lock, endpoint.json and the IPC socket     *)
(* (lifecycle.rs, main.rs, transport.rs, storage.rs), and the programs     *)
(* that find a daemon through those files: the trays' launchers, the stdio *)
(* shim and the admin CLI.                                                 *)
(*                                                                         *)
(* A process is started at most once; it runs main top to bottom, one      *)
(* system call or one started task an action.  A process that main leaves  *)
(* through ? or a signal drops its PidLock; a killed one does not.         *)
(***************************************************************************)
EXTENDS Naturals, FiniteSets

CONSTANTS
  Procs,     \* daemon processes
  Pids,      \* process ids; the OS hands out the one of a dead process again
  Ports,     \* ports a listener may get; one of them with --http-port
  Os,        \* "linux", "macos" or "windows"
  Ends,      \* how a daemon may end or fail: a subset of EndKinds
  MaxCalls,  \* bound: tool calls admitted
  None

EndKinds == {"crash", "signal", "error", "accept"}

ASSUME OsKnown == Os \in {"linux", "macos", "windows"}
ASSUME EndsKnown == Ends \subseteq EndKinds
ASSUME MaxCallsNat == MaxCalls \in Nat
ASSUME NoneNew == None \notin Procs
ASSUME ProcsFinite == IsFiniteSet(Procs)
ASSUME PortsSome == Ports # {}

VARIABLES
  pc,        \* pc[p]: where main of process p stands
  ipc,       \* ipc[p]: where the spawned bind_and_serve of p stands
  http,      \* processes whose HTTP listener answers
  pid,       \* pid[p]: its process id, 0 for none
  port,      \* port[p]: the port of its listener, once bound
  fd,        \* fd[p]: the inode its PidLock opened, 0 for none
  pidfile,   \* the inode that daemon.pid names, 0 for none
  holder,    \* holder[i]: the process that has inode i locked, or None
  temps,     \* temps[n]: endpoint.json.tmp.n: absent, partly written, whole
  endpoint,  \* endpoint.json: whose it is, and whether all of it is there
  sock,      \* the process whose listener the socket path names, or None
  paused,    \* processes with mcp_paused set
  wanted,    \* the admin's last acknowledged request was to pause
  tray,      \* the tray's launcher: idle (also when it gave up), waiting, up
  shim,      \* the shim: whose endpoint it read, None when not running
  calls,     \* tool calls admitted so far
  call,      \* the process that is working on the shim's call, or None
  raced      \* between the unlock and the remove_file of a PidLock's drop
             \* another process had the pid file open and took its lock

procVars == <<pc, ipc, http, pid, port, fd>>
fileVars == <<pidfile, holder, temps, endpoint, sock>>
clientVars == <<paused, wanted, tray, shim, calls, call>>
userVars == <<clientVars, raced>>
vars == <<procVars, fileVars, userVars>>

Inodes == 1 .. Cardinality(Procs)   \* a process has at most one open

Live(p) == pc[p] \notin {"idle", "gone"}
HasLock(p) == \E i \in Inodes : holder[i] = p

\* Past PidLock::acquire and not yet in its drop.
Owner(p) == pc[p] \in {"storage", "bind", "temp", "write", "rename", "run"}

ProcsOK ==
  /\ pc \in [Procs -> {"idle", "open", "lock", "storage", "bind", "temp",
                       "write", "rename", "run", "unlock", "unlink", "exit",
                       "gone"}]
  /\ ipc \in [Procs -> {"none", "remove", "bind", "serving", "failed", "deaf"}]
  /\ http \subseteq Procs
  /\ pid \in [Procs -> Pids \union {0}]
  /\ port \in [Procs -> Ports \union {0}]
  /\ fd \in [Procs -> Inodes \union {0}]

FilesOK ==
  /\ pidfile \in Inodes \union {0}
  /\ holder \in [Inodes -> Procs \union {None}]
  /\ temps \in [Pids -> {"absent", "partial", "whole"}]
  /\ endpoint \in [of : Procs \union {None}, whole : BOOLEAN]
  /\ sock \in Procs \union {None}

UsersOK ==
  /\ paused \subseteq Procs /\ wanted \in BOOLEAN
  /\ tray \in {"idle", "waiting", "up"}
  /\ shim \in Procs \union {None}
  /\ calls \in 0 .. MaxCalls /\ call \in Procs \union {None}
  /\ raced \in BOOLEAN

TypeOK == ProcsOK /\ FilesOK /\ UsersOK

Init ==
  /\ pc = [p \in Procs |-> "idle"] /\ ipc = [p \in Procs |-> "none"]
  /\ http = {} /\ paused = {}
  /\ pid = [p \in Procs |-> 0] /\ port = [p \in Procs |-> 0]
  /\ fd = [p \in Procs |-> 0] /\ pidfile = 0
  /\ holder = [i \in Inodes |-> None]
  /\ temps = [n \in Pids |-> "absent"]
  /\ endpoint = [of |-> None, whole |-> TRUE] /\ sock = None
  /\ wanted = FALSE /\ tray = "idle" /\ shim = None
  /\ calls = 0 /\ call = None /\ raced = FALSE
------------------------------------------------------------------------------
(***************************************************************************)
(* main, up to the point where it serves.                                  *)
(***************************************************************************)
Goto(p, from, to) == pc[p] = from /\ pc' = [pc EXCEPT ![p] = to]

\* What the OS does when a process is gone: its memory, handles, locks and
\* listeners go, the files stay.
Gone(p) ==
  /\ pc' = [pc EXCEPT ![p] = "gone"] /\ ipc' = [ipc EXCEPT ![p] = "none"]
  /\ http' = http \ {p} /\ paused' = paused \ {p}
  /\ pid' = [pid EXCEPT ![p] = 0] /\ fd' = [fd EXCEPT ![p] = 0]
  /\ holder' = [i \in Inodes |-> IF holder[i] = p THEN None ELSE holder[i]]
  /\ sock' = IF Os = "windows" /\ sock = p THEN None ELSE sock
  /\ UNCHANGED <<port, pidfile, temps, endpoint, wanted, tray, shim, calls, call, raced>>

\* Exec: the OS gives the process an id no living process has.
Spawn(p, n) ==
  /\ Goto(p, "idle", "open")
  /\ \A q \in Procs : pid[q] # n
  /\ pid' = [pid EXCEPT ![p] = n]
  /\ UNCHANGED <<ipc, http, port, fd, fileVars>>

Start(p, n) == Spawn(p, n) /\ UNCHANGED userVars

\* PidLock::acquire opens the path, and creates the file when there is none.
OpenPid(p) ==
  /\ Goto(p, "open", "lock")
  /\ pidfile' = IF pidfile # 0 THEN pidfile
                ELSE CHOOSE i \in Inodes : \A q \in Procs : fd[q] # i
  /\ fd' = [fd EXCEPT ![p] = pidfile']
  /\ UNCHANGED <<ipc, http, pid, port, holder, temps, endpoint, sock, userVars>>

\* A PidLock that is being dropped has been unlocked, its path not yet removed.
InDrop(i) == \E q \in Procs : pc[q] = "unlink" /\ fd[q] = i

MutantLockPid(p) ==   \* the lock is not exclusive
  /\ Goto(p, "lock", "storage")
  /\ holder' = [holder EXCEPT ![fd[p]] = p]
  /\ raced' = (raced \/ InDrop(fd[p]))
  /\ UNCHANGED <<ipc, http, pid, port, fd, pidfile, temps, endpoint, sock, clientVars>>

LockPid(p) ==
  /\ Goto(p, "lock", "storage") /\ holder[fd[p]] = None
  /\ holder' = [holder EXCEPT ![fd[p]] = p]
  /\ raced' = (raced \/ InDrop(fd[p]))
  /\ UNCHANGED <<ipc, http, pid, port, fd, pidfile, temps, endpoint, sock, clientVars>>

MutantLockBusy(p) ==   \* the guard exists before the lock: its drop removes the path
  /\ Goto(p, "lock", "unlink") /\ holder[fd[p]] # None
  /\ UNCHANGED <<ipc, http, pid, port, fd, fileVars, userVars>>

\* try_lock_exclusive fails: main returns, there is no PidLock to drop.
LockBusy(p) == pc[p] = "lock" /\ holder[fd[p]] # None /\ Gone(p)

\* Storage::open runs the migrations; hydrate_providers follows.
OpenStorage(p) ==
  /\ Goto(p, "storage", "bind")
  /\ UNCHANGED <<ipc, http, pid, port, fd, fileVars, userVars>>

\* The HTTP server answers before endpoint.json says where.
BindHttp(p, n) ==
  /\ Goto(p, "bind", "temp") /\ \A q \in http : port[q] # n
  /\ port' = [port EXCEPT ![p] = n] /\ http' = http \union {p}
  /\ UNCHANGED <<ipc, pid, fd, fileVars, userVars>>

\* write_endpoint: create_new fails on a temp file an earlier process with
\* the same id left behind (StartFails); then write, then rename.
CreateTemp(p) ==
  /\ Goto(p, "temp", "write") /\ temps[pid[p]] = "absent"
  /\ temps' = [temps EXCEPT ![pid[p]] = "partial"]
  /\ UNCHANGED <<ipc, http, pid, port, fd, pidfile, holder, endpoint, sock, userVars>>

WriteTemp(p) ==
  /\ Goto(p, "write", "rename")
  /\ temps' = [temps EXCEPT ![pid[p]] = "whole"]
  /\ UNCHANGED <<ipc, http, pid, port, fd, pidfile, holder, endpoint, sock, userVars>>

\* The rename; then main spawns the IPC server and waits for a signal.
Rename(p) ==
  /\ Goto(p, "rename", "run")
  /\ endpoint' = [of |-> p, whole |-> temps[pid[p]] = "whole"]
  /\ temps' = [temps EXCEPT ![pid[p]] = "absent"]
  /\ ipc' = [ipc EXCEPT ![p] = "remove"]
  /\ UNCHANGED <<http, pid, port, fd, pidfile, holder, sock, userVars>>
------------------------------------------------------------------------------
(***************************************************************************)
(* bind_and_serve, a task of its own.  On Unix a socket file outlives its  *)
(* process and bind removes it first; a named pipe goes with its last      *)
(* process, and bind insists on being first.                               *)
(***************************************************************************)
MutantRemoveSocket(p) ==   \* a stale socket file is left in place
  /\ ipc[p] = "remove" /\ ipc' = [ipc EXCEPT ![p] = "bind"]
  /\ UNCHANGED <<pc, http, pid, port, fd, fileVars, userVars>>

RemoveSocket(p) ==
  /\ ipc[p] = "remove" /\ ipc' = [ipc EXCEPT ![p] = "bind"]
  /\ sock' = IF Os = "windows" THEN sock ELSE None
  /\ UNCHANGED <<pc, http, pid, port, fd, pidfile, holder, temps, endpoint, userVars>>

BindSocket(p) ==
  /\ ipc[p] = "bind"
  /\ \/ sock = None /\ sock' = p /\ ipc' = [ipc EXCEPT ![p] = "serving"]
     \/ sock # None /\ sock' = sock /\ ipc' = [ipc EXCEPT ![p] = "failed"]
  /\ UNCHANGED <<pc, http, pid, port, fd, pidfile, holder, temps, endpoint, userVars>>

\* accept fails: bind_and_serve returns, main logs it and serves MCP on, deaf to
\* the trays and the admin CLI.
AcceptFails(p) ==
  /\ "accept" \in Ends /\ ipc[p] = "serving"
  /\ ipc' = [ipc EXCEPT ![p] = "deaf"]
  /\ sock' = IF Os = "windows" /\ sock = p THEN None ELSE sock
  /\ UNCHANGED <<pc, http, pid, port, fd, pidfile, holder, temps, endpoint, userVars>>
------------------------------------------------------------------------------
(***************************************************************************)
(* The end of a process.                                                   *)
(***************************************************************************)
\* Killed, or the machine lost power, or a signal before its handler is set.
Crash(p) == "crash" \in Ends /\ Live(p) /\ Gone(p)

\* SIGINT or SIGTERM: the tasks are aborted, which for the HTTP server takes
\* effect when the runtime gets to it or at the exit, and main returns.
Signal(p) ==
  /\ "signal" \in Ends /\ Goto(p, "run", "unlock")
  /\ ipc' = [ipc EXCEPT ![p] = "none"] /\ http' \in {http, http \ {p}}
  /\ sock' = IF Os = "windows" /\ sock = p THEN None ELSE sock
  /\ UNCHANGED <<pid, port, fd, pidfile, holder, temps, endpoint, userVars>>

\* One of main's ? before it serves: the database, the keychain, a port in
\* use, a full disk; or a temp file that exists already.  A temp file this
\* process has begun stays behind.
StartFails(p) ==
  /\ \/ "error" \in Ends
     \/ pc[p] = "temp" /\ temps[pid[p]] # "absent"
     \/ pc[p] = "bind" /\ \A n \in Ports : \E q \in http : port[q] = n
  /\ \E from \in {"storage", "bind", "temp", "write", "rename"} :
       Goto(p, from, "unlock")
  /\ UNCHANGED <<ipc, http, pid, port, fd, fileVars, userVars>>

\* Drop for PidLock: unlock, then remove the path, whatever it names by then.
\* The runtime, with the connections it serves, goes only after that.
Unlock(p) ==
  /\ Goto(p, "unlock", "unlink")
  /\ holder' = [holder EXCEPT ![fd[p]] = None]
  /\ UNCHANGED <<ipc, http, pid, port, fd, pidfile, temps, endpoint, sock, userVars>>

Unlink(p) ==
  /\ Goto(p, "unlink", "exit") /\ pidfile' = 0
  /\ raced' = (raced \/ \E q \in Procs : pc[q] = "lock" /\ fd[q] = pidfile)
  /\ UNCHANGED <<ipc, http, pid, port, fd, holder, temps, endpoint, sock, clientVars>>

Exit(p) == pc[p] = "exit" /\ Gone(p)
------------------------------------------------------------------------------
(***************************************************************************)
(* The launchers of the trays (Swift, C and C#).                           *)
(***************************************************************************)
Connects == sock # None /\ ipc[sock] = "serving"

\* macOS: the socket file exists.  Linux: endpoint.json exists.  Windows:
\* the pipe accepts a connection.
AliveQuick ==
  CASE Os = "macos" -> sock # None
    [] Os = "linux" -> endpoint.of # None
    [] OTHER -> Connects

\* What the launcher polls for after it spawned a daemon.
Ready ==
  CASE Os = "macos" -> endpoint.of # None /\ sock # None
    [] Os = "linux" -> endpoint.of # None
    [] OTHER -> endpoint.of # None /\ Connects

\* On macOS and Linux a file that a dead daemon left is enough.
SayUp ==
  /\ tray' = "up"
  /\ UNCHANGED <<procVars, fileVars, paused, wanted, shim, calls, call, raced>>

TrayFindsDaemon == tray # "waiting" /\ AliveQuick /\ SayUp

TraySpawns ==
  /\ tray # "waiting" /\ ~AliveQuick
  /\ \E p \in Procs, n \in Pids : Spawn(p, n)
  /\ tray' = "waiting"
  /\ UNCHANGED <<paused, wanted, shim, calls, call, raced>>

TrayReady == tray = "waiting" /\ Ready /\ SayUp

\* The deadline of five seconds may pass at any time.
TrayTimeout ==
  /\ tray = "waiting" /\ tray' = "idle"
  /\ UNCHANGED <<procVars, fileVars, paused, wanted, shim, calls, call, raced>>
------------------------------------------------------------------------------
(***************************************************************************)
(* The stdio shim: reads endpoint.json once, then posts line after line to *)
(* the address and with the token it read.                                 *)
(***************************************************************************)
ShimStart ==
  /\ shim = None /\ endpoint.of # None /\ endpoint.whole
  /\ shim' = endpoint.of
  /\ UNCHANGED <<procVars, fileVars, paused, wanted, tray, calls, call, raced>>

\* check_auth: the token is drawn anew by every process.
Authorised(p) == p = shim

\* Who listens at the address the shim has.
Listening(p) == shim # None /\ p \in http /\ port[p] = port[shim]

\* A tools/call line that passes check_auth and the look at mcp_paused that
\* dispatch begins with.  A paused daemon, or one with another token, answers
\* with an error, and list_accounts, which never gets to dispatch, with the
\* rows: nothing changes, the shim writes the answer and reads on.
ShimPost(p) ==
  /\ call = None /\ Listening(p) /\ Authorised(p) /\ p \notin paused
  /\ calls < MaxCalls /\ calls' = calls + 1
  /\ call' = p
  /\ UNCHANGED <<procVars, fileVars, paused, wanted, tray, shim, raced>>

\* dispatch goes on: after its awaits, and up to five minutes for an approval,
\* it calls the provider and answers, whatever mcp_paused says by then.
CallEnds(p) ==
  /\ call = p /\ Live(p)
  /\ call' = None
  /\ UNCHANGED <<procVars, fileVars, paused, wanted, tray, shim, calls, raced>>

\* send()? ends the shim: nobody listens there, or the call in flight got no
\* answer within the HTTP client's timeout or from a process that died.
ShimExit ==
  /\ shim # None
  /\ call # None \/ \A p \in Procs : ~Listening(p)
  /\ shim' = None /\ call' = None
  /\ UNCHANGED <<procVars, fileVars, paused, wanted, tray, calls, raced>>
------------------------------------------------------------------------------
(***************************************************************************)
(* mail-mcp-admin pause and resume: connect to the socket, call mcp.pause, *)
(* wait for the answer with the call's own id.                             *)
(***************************************************************************)
AdminPause(b) ==
  /\ Connects
  /\ paused' = IF b THEN paused \union {sock} ELSE paused \ {sock}
  /\ wanted' = b
  /\ UNCHANGED <<procVars, fileVars, tray, shim, calls, call, raced>>
------------------------------------------------------------------------------
Next ==
  \/ \E p \in Procs, n \in Pids : Start(p, n)
  \/ \E p \in Procs, n \in Ports : BindHttp(p, n)
  \/ \E p \in Procs :
       \/ OpenPid(p) \/ LockPid(p) \/ LockBusy(p) \/ OpenStorage(p)
       \/ CreateTemp(p) \/ WriteTemp(p) \/ Rename(p)
       \/ RemoveSocket(p) \/ BindSocket(p) \/ AcceptFails(p)
       \/ Crash(p) \/ Signal(p) \/ StartFails(p)
       \/ Unlock(p) \/ Unlink(p) \/ Exit(p)
       \/ ShimPost(p) \/ CallEnds(p)
  \/ TrayFindsDaemon \/ TraySpawns \/ TrayReady \/ TrayTimeout
  \/ ShimStart \/ ShimExit
  \/ \E b \in BOOLEAN : AdminPause(b)

Spec == Init /\ [][Next]_vars
------------------------------------------------------------------------------
(***************************************************************************)
(* Properties.                                                             *)
(***************************************************************************)
\* PidLock: two processes are never both between the lock and its release
\* (main.rs:56; the test pid_lock_prevents_second_holder), however daemons are
\* started, killed, stopped or turned away, but for one race: a process that had
\* the file open while another one dropped its PidLock, and takes the lock after
\* the unlock, loses the path to the remove_file that follows (lifecycle.rs:40),
\* and a third process can lock a new file beside it.
OneDaemon == raced \/ \A p, q \in Procs : Owner(p) /\ Owner(q) => p = q

\* A daemon that serves can be found: endpoint.json names it, whole, its IPC
\* server has not failed to bind, and as long as that accepts, the socket leads
\* to it and to no corpse or rival, whatever earlier daemons left behind where
\* they crashed, failed or stopped (main.rs:105-154); the drop's race apart.
ServingIsFound ==
  raced \/ \A p \in Procs : pc[p] = "run" =>
    /\ endpoint = [of |-> p, whole |-> TRUE]
    /\ ipc[p] # "failed"
    /\ ipc[p] = "serving" => sock = p

\* Whatever crashes or fails when, endpoint.json is never there in part
\* (write_endpoint: the temp file is renamed only once it is written).
EndpointWhole == endpoint.of # None => endpoint.whole

\* mcp.pause "refuses tool calls until resumed" (mail-mcp-admin/src/main.rs:30):
\* between an acknowledged pause and a resume no daemon at work admits a tool
\* call while one that was paused is at work; the drop's race apart.  That is
\* less than the words say: a call admitted before may still execute
\* (dispatch.rs:52 looks once), and a daemon that took the place of the paused
\* one admits calls, for the flag is not persisted (main.rs:70).
PausedUntilResumed ==
  [][\A p \in Procs :
       call # p /\ call' = p /\ pc[p] = "run" /\ wanted =>
         raced \/ \A q \in paused : pc[q] # "run"]_vars
==============================================================================
