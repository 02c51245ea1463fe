----------------------- MODULE DaemonLifecycle_proofs -----------------------
(***************************************************************************)
(* Proofs about DaemonLifecycle, for any processes, ids and ports.         *)
(***************************************************************************)
EXTENDS DaemonLifecycle, FiniteSetTheorems, TLAPS

\* A process that has not opened the pid file yet has no handle of it.
Unopened == \A p \in Procs : pc[p] \in {"idle", "open"} => fd[p] = 0

\* Living processes have different process ids.
PidsApart ==
  /\ \A p \in Procs : Live(p) => pid[p] \in Pids
  /\ \A p, q \in Procs : Live(p) /\ Live(q) /\ pid[p] = pid[q] => p = q

\* The file about to be renamed is written.
Renames == \A p \in Procs : pc[p] = "rename" => temps[pid[p]] = "whole"

\* Only a process that serves has an IPC server.
IpcServed == \A p \in Procs : ipc[p] # "none" => pc[p] = "run"

GInv ==
  /\ TypeOK /\ Unopened /\ PidsApart /\ Renames /\ IpcServed
  /\ EndpointWhole
------------------------------------------------------------------------------
(***************************************************************************)
(* What every daemon keeps to, however it ends.                            *)
(***************************************************************************)
LEMMA InitGInv == Init => GInv
<1> SUFFICES ASSUME Init PROVE GInv
  OBVIOUS
<1>1. ProcsOK
  BY DEF Init, ProcsOK
<1>2. FilesOK
  BY DEF Init, FilesOK
<1>3. UsersOK
  <2>1. wanted \in BOOLEAN /\ raced \in BOOLEAN
    BY DEF Init
  <2>2. calls \in 0 .. MaxCalls
    BY MaxCallsNat DEF Init
  <2>3. paused \subseteq Procs /\ tray = "idle" /\ shim = None /\ call = None
    BY DEF Init
  <2> QED
    BY <2>1, <2>2, <2>3 DEF UsersOK
<1>4. Unopened /\ PidsApart /\ Renames /\ IpcServed /\ EndpointWhole
  BY DEF Init, Unopened, PidsApart, Renames, IpcServed, Live, EndpointWhole
<1> QED
  BY <1>1, <1>2, <1>3, <1>4 DEF GInv, TypeOK

\* There is an inode left for a process that has opened none.
LEMMA FreeInode ==
  ASSUME ProcsOK, NEW p \in Procs, fd[p] = 0
  PROVE  \E i \in Inodes : \A q \in Procs : fd[q] # i
<1> SUFFICES ASSUME \A i \in Inodes : \E q \in Procs : fd[q] = i PROVE FALSE
  OBVIOUS
<1> DEFINE S == Procs \ {p}
           T == {fd[q] : q \in S}
           f == [q \in S |-> fd[q]]
<1>1. IsFiniteSet(S) /\ Cardinality(S) = Cardinality(Procs) - 1
  BY ProcsFinite, FS_RemoveElement
<1>2. Cardinality(Procs) \in Nat
  BY ProcsFinite, FS_CardinalityType
<1>3. f \in Surjection(S, T)
  BY DEF Surjection
<1>4. IsFiniteSet(T) /\ Cardinality(T) <= Cardinality(S)
  <2> HIDE DEF S, T, f
  <2> QED
    BY <1>1, <1>3, FS_Surjection
<1>5. Inodes \subseteq T
  BY DEF Inodes
<1>6. IsFiniteSet(Inodes) /\ Cardinality(Inodes) = Cardinality(Procs)
  BY <1>2, FS_Interval DEF Inodes
<1>7. Cardinality(Inodes) <= Cardinality(T) /\ Cardinality(T) \in Nat
  <2> HIDE DEF T
  <2> QED
    BY <1>4, <1>5, FS_Subset, FS_CardinalityType
<1>8. Cardinality(S) \in Nat
  BY <1>1, FS_CardinalityType
<1> HIDE DEF S, T
<1> QED
  BY <1>1, <1>2, <1>4, <1>6, <1>7, <1>8

\* A part of the state that a step leaves alone keeps its types.
LEMMA FrameTypes ==
  /\ ProcsOK /\ UNCHANGED procVars =>
       ProcsOK' /\ (Unopened => Unopened') /\ (PidsApart => PidsApart') /\ (IpcServed => IpcServed')
  /\ FilesOK /\ UNCHANGED fileVars => FilesOK' /\ (EndpointWhole => EndpointWhole')
  /\ UsersOK /\ UNCHANGED userVars => UsersOK'
<1>1. ProcsOK /\ UNCHANGED procVars =>
        ProcsOK' /\ (Unopened => Unopened') /\ (PidsApart => PidsApart') /\ (IpcServed => IpcServed')
  BY DEF ProcsOK, procVars, Unopened, PidsApart, Live, IpcServed
<1>2. FilesOK /\ UNCHANGED fileVars => FilesOK' /\ (EndpointWhole => EndpointWhole')
  BY DEF FilesOK, fileVars, EndpointWhole
<1>3. UsersOK /\ UNCHANGED userVars => UsersOK'
  BY DEF UsersOK, userVars, clientVars
<1> QED
  BY <1>1, <1>2, <1>3
\* The parts of GInv that are not about users, and those of the processes alone.
PInv == ProcsOK /\ Unopened /\ PidsApart /\ IpcServed
DInv == PInv /\ FilesOK /\ Renames /\ EndpointWhole

(***************************************************************************)
(* One lemma for the steps of main, one for those that end a process and   *)
(* one for the IPC server.                                                 *)
(***************************************************************************)
LEMMA SpawnDInv ==
  ASSUME DInv, NEW p \in Procs, NEW n \in Pids, Spawn(p, n)
  PROVE  DInv'
<1> USE DEF DInv, PInv
<1>1. ProcsOK' /\ Unopened' /\ IpcServed'
  BY DEF ProcsOK, Spawn, Goto, Unopened, IpcServed
<1>2. PidsApart'
  BY DEF ProcsOK, Spawn, Goto, PidsApart, Live
<1>3. FilesOK' /\ EndpointWhole'
  BY FrameTypes DEF Spawn
<1>4. Renames'
  BY DEF ProcsOK, Spawn, Goto, Renames, fileVars
<1> QED
  BY <1>1, <1>2, <1>3, <1>4

\* The steps of main, from the lock to serving, keep the invariant.
LEMMA StartDInv ==
  ASSUME DInv, UsersOK, NEW p \in Procs,
         \/ OpenPid(p) \/ LockPid(p) \/ OpenStorage(p)
         \/ CreateTemp(p) \/ WriteTemp(p) \/ Rename(p)
         \/ \E n \in Ports : BindHttp(p, n)
  PROVE  DInv' /\ UsersOK'
<1> USE DEF DInv, PInv
<1>0. UNCHANGED userVars => UsersOK'
  BY FrameTypes
<1>1. CASE OpenPid(p)
  <2>1. pidfile' \in Inodes
    <3>1. pidfile = 0 => \E i \in Inodes : \A q \in Procs : fd[q] # i
      BY <1>1, FreeInode DEF OpenPid, Goto, Unopened
    <3> QED
      BY <1>1, <3>1 DEF OpenPid, FilesOK
  <2>2. ProcsOK' /\ FilesOK'
    BY <1>1, <2>1 DEF ProcsOK, FilesOK, OpenPid, Goto
  <2>3. DInv'
    BY <1>1, <2>2 DEF OpenPid, Goto, ProcsOK, Unopened, PidsApart, Live, Renames,
                      IpcServed, EndpointWhole
  <2> QED
    BY <1>0, <1>1, <2>3 DEF OpenPid
<1>2. CASE LockPid(p)
  <2>1. ProcsOK' /\ Unopened' /\ PidsApart' /\ Renames' /\ IpcServed'
    BY <1>2 DEF LockPid, Goto, ProcsOK, Unopened, PidsApart, Live, Renames, IpcServed
  <2>2. FilesOK' /\ EndpointWhole'
    BY <1>2 DEF LockPid, FilesOK, EndpointWhole
  <2>3. raced' \in BOOLEAN
    BY <1>2 DEF LockPid
  <2>4. UsersOK'
    BY <1>2, <2>3 DEF LockPid, UsersOK, clientVars
  <2> QED
    BY <2>1, <2>2, <2>4
<1>3. CASE OpenStorage(p)
  <2>1. ProcsOK' /\ Unopened' /\ PidsApart' /\ Renames' /\ IpcServed'
    BY <1>3 DEF OpenStorage, Goto, ProcsOK, Unopened, PidsApart, Live, Renames, IpcServed,
                fileVars
  <2>2. FilesOK' /\ EndpointWhole'
    BY <1>3 DEF OpenStorage, FilesOK, EndpointWhole, fileVars
  <2> QED
    BY <1>0, <1>3, <2>1, <2>2 DEF OpenStorage
<1>4. CASE CreateTemp(p) \/ WriteTemp(p)
  <2>1. ProcsOK' /\ Unopened' /\ PidsApart' /\ IpcServed'
    BY <1>4 DEF CreateTemp, WriteTemp, Goto, ProcsOK, Unopened, PidsApart, Live, IpcServed
  <2>2. FilesOK' /\ EndpointWhole'
    BY <1>4 DEF CreateTemp, WriteTemp, FilesOK, EndpointWhole
  <2>3. Renames'
    BY <1>4 DEF CreateTemp, WriteTemp, Goto, ProcsOK, FilesOK, PidsApart, Live, Renames
  <2> QED
    BY <1>0, <1>4, <2>1, <2>2, <2>3 DEF CreateTemp, WriteTemp
<1>5. CASE Rename(p)
  <2>1. ProcsOK' /\ Unopened' /\ PidsApart' /\ IpcServed'
    BY <1>5 DEF Rename, Goto, ProcsOK, Unopened, PidsApart, Live, IpcServed
  <2>2. endpoint' = [of |-> p, whole |-> TRUE]
    BY <1>5 DEF Rename, Goto, Renames
  <2>3. FilesOK'
    <3>1. endpoint' \in [of : Procs \union {None}, whole : BOOLEAN]
      BY <2>2
    <3>2. temps' \in [Pids -> {"absent", "partial", "whole"}]
      BY <1>5 DEF Rename, FilesOK
    <3> QED
      BY <1>5, <3>1, <3>2 DEF Rename, FilesOK
  <2>4. EndpointWhole'
    BY <2>2 DEF EndpointWhole
  <2>5. Renames'
    BY <1>5 DEF Rename, Goto, ProcsOK, FilesOK, PidsApart, Live, Renames
  <2> QED
    BY <1>0, <1>5, <2>1, <2>3, <2>4, <2>5 DEF Rename
<1>6. CASE \E n \in Ports : BindHttp(p, n)
  <2>1. ProcsOK' /\ Unopened' /\ PidsApart' /\ IpcServed' /\ Renames'
    BY <1>6 DEF BindHttp, Goto, ProcsOK, Unopened, PidsApart, Live, IpcServed, Renames, fileVars
  <2>2. FilesOK' /\ EndpointWhole' /\ UNCHANGED userVars
    BY <1>6, FrameTypes DEF BindHttp
  <2> QED
    BY <1>0, <2>1, <2>2
<1> QED
  BY <1>1, <1>2, <1>3, <1>4, <1>5, <1>6

\* A process that is gone leaves everybody else's state alone.
LEMMA GoneDInv ==
  ASSUME DInv, UsersOK, NEW p \in Procs, Gone(p)
  PROVE  DInv' /\ UsersOK'
<1> USE DEF DInv, PInv
<1>1. ProcsOK' /\ Unopened'
  BY DEF Gone, ProcsOK, Unopened
<1>2. \A q \in Procs : q # p => pc'[q] = pc[q] /\ pid'[q] = pid[q] /\ ipc'[q] = ipc[q]
  BY DEF Gone, ProcsOK
<1>3. pc'[p] = "gone" /\ ipc'[p] = "none"
  BY DEF Gone, ProcsOK
<1>4. PidsApart'
  <2>1. \A q \in Procs : Live(q)' => q # p /\ Live(q)
    BY <1>2, <1>3 DEF Live
  <2> QED
    BY <1>2, <2>1 DEF PidsApart
<1>5. IpcServed'
  BY <1>2, <1>3 DEF IpcServed
<1>6. Renames'
  <2>1. temps' = temps
    BY DEF Gone
  <2> QED
    BY <1>2, <1>3, <2>1 DEF Renames
<1>7. FilesOK' /\ EndpointWhole'
  BY DEF Gone, FilesOK, EndpointWhole
<1>8. UsersOK'
  BY DEF Gone, UsersOK
<1> QED
  BY <1>1, <1>4, <1>5, <1>6, <1>7, <1>8

\* So does the end of a daemon, by whatever way.
LEMMA EndDInv ==
  ASSUME DInv, UsersOK, NEW p \in Procs,
         \/ Crash(p) \/ Signal(p) \/ StartFails(p) \/ Unlock(p) \/ Unlink(p) \/ Exit(p)
         \/ LockBusy(p)
  PROVE  DInv' /\ UsersOK'
<1> USE DEF DInv, PInv
<1>0. UNCHANGED userVars => UsersOK'
  BY FrameTypes
<1>1. CASE Crash(p) \/ Exit(p) \/ LockBusy(p)
  BY <1>1, GoneDInv DEF Crash, Exit, LockBusy
<1>2. CASE Signal(p)
  <2>1. ProcsOK' /\ Unopened' /\ PidsApart' /\ IpcServed' /\ Renames'
    BY <1>2 DEF Signal, Goto, ProcsOK, Unopened, PidsApart, Live, IpcServed, Renames
  <2>2. FilesOK' /\ EndpointWhole' /\ UNCHANGED userVars
    BY <1>2 DEF Signal, FilesOK, EndpointWhole
  <2> QED
    BY <1>0, <2>1, <2>2
<1>3. CASE StartFails(p) \/ Unlock(p)
  <2>1. ProcsOK' /\ Unopened' /\ PidsApart' /\ IpcServed' /\ Renames'
    BY <1>3 DEF StartFails, Unlock, Goto, ProcsOK, Unopened, PidsApart, Live,
                IpcServed, Renames, fileVars
  <2>2. FilesOK' /\ EndpointWhole' /\ UNCHANGED userVars
    BY <1>3 DEF StartFails, Unlock, FilesOK, EndpointWhole, fileVars
  <2> QED
    BY <1>0, <2>1, <2>2
<1>4. CASE Unlink(p)
  <2>1. ProcsOK' /\ Unopened' /\ PidsApart' /\ IpcServed' /\ Renames'
    BY <1>4 DEF Unlink, Goto, ProcsOK, Unopened, PidsApart, Live, IpcServed, Renames
  <2>2. FilesOK' /\ EndpointWhole'
    BY <1>4 DEF Unlink, FilesOK, EndpointWhole
  <2>3. raced' \in BOOLEAN
    BY <1>4 DEF Unlink
  <2>4. UsersOK'
    BY <1>4, <2>3 DEF Unlink, UsersOK, clientVars
  <2> QED
    BY <2>1, <2>2, <2>4
<1> QED
  BY <1>1, <1>2, <1>3, <1>4

\* And the IPC server: its socket is removed and bound again, or its loop fails.
LEMMA IpcDInv ==
  ASSUME DInv, NEW p \in Procs, RemoveSocket(p) \/ BindSocket(p) \/ AcceptFails(p)
  PROVE  DInv' /\ UNCHANGED userVars
<1> USE DEF DInv, PInv
<1>1. ProcsOK' /\ Unopened' /\ PidsApart' /\ IpcServed' /\ Renames'
  BY DEF RemoveSocket, BindSocket, AcceptFails, ProcsOK, Unopened, PidsApart, Live,
         IpcServed, Renames
<1>2. FilesOK' /\ EndpointWhole' /\ UNCHANGED userVars
  BY DEF RemoveSocket, BindSocket, AcceptFails, FilesOK, EndpointWhole
<1> QED
  BY <1>1, <1>2

(***************************************************************************)
(* The launchers, the shim and the admin CLI touch no daemon state, except *)
(* that a launcher may start a process.                                    *)
(***************************************************************************)
LEMMA UserSteps ==
  ASSUME GInv,
         \/ TrayFindsDaemon \/ TraySpawns \/ TrayReady \/ TrayTimeout
         \/ ShimStart \/ ShimExit
         \/ \E p \in Procs : ShimPost(p) \/ CallEnds(p)
         \/ \E b \in BOOLEAN : AdminPause(b)
  PROVE  /\ UsersOK' /\ raced' = raced
         /\ \/ UNCHANGED <<procVars, fileVars>>
            \/ \E p \in Procs, n \in Pids : Spawn(p, n)
<1> USE DEF GInv, TypeOK
<1>1. CASE TrayFindsDaemon \/ TrayReady
  BY <1>1 DEF TrayFindsDaemon, TrayReady, SayUp, UsersOK
<1>2. CASE TraySpawns \/ TrayTimeout
  BY <1>2 DEF TraySpawns, TrayTimeout, UsersOK
<1>3. CASE ShimStart \/ ShimExit
  BY <1>3 DEF ShimStart, ShimExit, UsersOK, FilesOK
<1>4. ASSUME NEW p \in Procs, ShimPost(p)
      PROVE  UsersOK' /\ raced' = raced /\ UNCHANGED <<procVars, fileVars>>
  <2>1. calls' \in 0 .. MaxCalls
    BY <1>4, MaxCallsNat DEF ShimPost, UsersOK
  <2> QED
    BY <1>4, <2>1 DEF ShimPost, UsersOK
<1>5. ASSUME NEW p \in Procs, CallEnds(p)
      PROVE  UsersOK' /\ raced' = raced /\ UNCHANGED <<procVars, fileVars>>
  BY <1>5 DEF CallEnds, UsersOK
<1>6. ASSUME NEW b \in BOOLEAN, AdminPause(b)
      PROVE  UsersOK' /\ raced' = raced /\ UNCHANGED <<procVars, fileVars>>
  <2>1. paused' \subseteq Procs
    BY <1>6 DEF AdminPause, Connects, UsersOK, FilesOK
  <2>2. wanted' \in BOOLEAN
    BY <1>6 DEF AdminPause
  <2> QED
    BY <1>6, <2>1, <2>2 DEF AdminPause, UsersOK
<1> QED
  BY <1>1, <1>2, <1>3, <1>4, <1>5, <1>6

\* Every step keeps GInv.
LEMMA NextGInv == GInv /\ [Next]_vars => GInv'
<1> SUFFICES ASSUME GInv, [Next]_vars PROVE GInv'
  OBVIOUS
<1>0. DInv /\ UsersOK
  BY DEF GInv, DInv, PInv, TypeOK
<1>1. DInv' /\ UsersOK' => GInv'
  BY DEF GInv, DInv, PInv, TypeOK
<1>2. UNCHANGED <<procVars, fileVars>> => DInv'
  BY <1>0, FrameTypes DEF DInv, PInv, Renames, procVars, fileVars
<1>3. UNCHANGED userVars => UsersOK'
  BY <1>0, FrameTypes
<1>4. CASE \E p \in Procs, n \in Pids : Start(p, n)
  BY <1>0, <1>1, <1>3, <1>4, SpawnDInv DEF Start
<1>5. CASE \E p \in Procs : \/ OpenPid(p) \/ LockPid(p) \/ OpenStorage(p)
                            \/ CreateTemp(p) \/ WriteTemp(p) \/ Rename(p)
                            \/ \E n \in Ports : BindHttp(p, n)
  BY <1>0, <1>1, <1>5, StartDInv
<1>6. CASE \E p \in Procs : RemoveSocket(p) \/ BindSocket(p) \/ AcceptFails(p)
  BY <1>0, <1>1, <1>3, <1>6, IpcDInv
<1>7. CASE \E p \in Procs : \/ Crash(p) \/ Signal(p) \/ StartFails(p) \/ Unlock(p)
                            \/ Unlink(p) \/ Exit(p) \/ LockBusy(p)
  BY <1>0, <1>1, <1>7, EndDInv
<1>8. CASE \/ TrayFindsDaemon \/ TraySpawns \/ TrayReady \/ TrayTimeout
           \/ ShimStart \/ ShimExit
           \/ \E p \in Procs : ShimPost(p) \/ CallEnds(p)
           \/ \E b \in BOOLEAN : AdminPause(b)
  BY <1>0, <1>1, <1>2, <1>8, UserSteps, SpawnDInv
<1>9. CASE UNCHANGED vars
  BY <1>1, <1>2, <1>3, <1>9 DEF vars
<1> QED
  BY <1>4, <1>5, <1>6, <1>7, <1>8, <1>9 DEF Next

\* The types, and with them a whole endpoint.json, whatever ends a daemon when.
THEOREM GInvariance == Spec => []GInv
BY InitGInv, NextGInv, PTL DEF Spec

\* Every variable keeps its type; in particular the admin CLI only ever pauses a
\* daemon, and every process finds an inode for daemon.pid.
THEOREM TypeCorrect == Spec => []TypeOK
<1>1. GInv => TypeOK
  BY DEF GInv
<1> QED
  BY <1>1, GInvariance, PTL

\* endpoint.json is never there in part (write_endpoint).
THEOREM EndpointNeverPartial == Spec => []EndpointWhole
<1>1. GInv => EndpointWhole
  BY DEF GInv
<1> QED
  BY <1>1, GInvariance, PTL
------------------------------------------------------------------------------
(***************************************************************************)
(* The lock, for daemons that end in any way, up to the first time one     *)
(* takes the lock in the middle of another one's drop.  Until then the     *)
(* path names the inode that everybody in line has open, and one process   *)
(* at a time is between LockPid and Unlink.                                *)
(***************************************************************************)
Held(p) == Owner(p) \/ pc[p] \in {"unlock", "unlink"}

OneFile == \A p \in Procs : pc[p] = "lock" \/ Held(p) => fd[p] = pidfile /\ fd[p] # 0

Alone == \A p, q \in Procs : Held(p) /\ Held(q) => p = q

Locked == \A p \in Procs : Owner(p) \/ pc[p] = "unlock" => holder[fd[p]] = p

\* A socket in the way of bind was removed, or is served.
SockKept ==
  /\ Os # "windows" => \A p \in Procs : ipc[p] = "bind" => sock = None
  /\ Os = "windows" /\ sock # None => ipc[sock] = "serving"

\* ServingIsFound without the exception.
Found ==
  \A p \in Procs : pc[p] = "run" =>
    /\ endpoint = [of |-> p, whole |-> TRUE]
    /\ ipc[p] # "failed"
    /\ ipc[p] = "serving" => sock = p

LockInv == OneFile /\ Alone /\ Locked
FoundInv == SockKept /\ Found
RInv == raced \/ (LockInv /\ FoundInv)

\* Nothing is locked, written or bound before the first daemon.
LEMMA InitRInv == Init => RInv
BY DEF Init, RInv, LockInv, FoundInv, OneFile, Alone, Locked, SockKept, Found, Held, Owner

\* Opening daemon.pid and taking its lock: one inode, one holder.
LEMMA OpenLockInv ==
  ASSUME GInv, LockInv, NEW p \in Procs, OpenPid(p)
  PROVE  LockInv'
<1>1. ProcsOK /\ FilesOK
  BY DEF GInv, TypeOK
<1>2. pidfile' \in Inodes /\ (pidfile # 0 => pidfile' = pidfile) /\ holder' = holder
  <2>1. pidfile = 0 => \E i \in Inodes : \A q \in Procs : fd[q] # i
    BY <1>1, FreeInode DEF OpenPid, Goto, Unopened, GInv
  <2> QED
    BY <1>1, <2>1 DEF OpenPid, FilesOK
<1>3. fd' = [fd EXCEPT ![p] = pidfile'] /\ pc' = [pc EXCEPT ![p] = "lock"] /\ pc[p] = "open"
  BY DEF OpenPid, Goto
<1>4. 0 \notin Inodes
  BY DEF Inodes
<1>5. \A q \in Procs : q # p => pc'[q] = pc[q] /\ fd'[q] = fd[q]
  BY <1>1, <1>3 DEF ProcsOK
<1>6. pc'[p] = "lock" /\ fd'[p] = pidfile'
  BY <1>1, <1>3 DEF ProcsOK
<1>7. \A q \in Procs : Held(q)' => q # p /\ Held(q)
  BY <1>5, <1>6 DEF Held, Owner
<1> USE DEF LockInv
<1>8. OneFile'
  BY <1>2, <1>4, <1>5, <1>6, <1>7 DEF OneFile
<1>9. Alone'
  BY <1>7 DEF Alone
<1>10. Locked'
  BY <1>2, <1>5, <1>6 DEF Locked, Owner
<1> QED
  BY <1>8, <1>9, <1>10

\* The lock is free: whoever was between LockPid and Unlink is about to remove
\* the path, and that is the race.
LEMMA TakeLockInv ==
  ASSUME GInv, LockInv, NEW p \in Procs, LockPid(p), ~raced'
  PROVE  LockInv'
<1>1. ProcsOK /\ FilesOK
  BY DEF GInv, TypeOK
<1>2. /\ pc[p] = "lock" /\ pc' = [pc EXCEPT ![p] = "storage"] /\ fd' = fd /\ pidfile' = pidfile
      /\ holder[fd[p]] = None /\ holder' = [holder EXCEPT ![fd[p]] = p]
  BY DEF LockPid, Goto
<1>3. ~InDrop(fd[p])
  BY DEF LockPid
<1>4. fd[p] = pidfile /\ fd[p] \in Inodes
  BY <1>1, <1>2 DEF LockInv, OneFile, ProcsOK
<1>5. \A q \in Procs : ~Held(q)
  <2> SUFFICES ASSUME NEW q \in Procs, Held(q) PROVE FALSE
    OBVIOUS
  <2>1. fd[q] = fd[p]
    BY <1>4 DEF LockInv, OneFile
  <2>2. pc[q] # "unlink"
    BY <1>3, <2>1 DEF InDrop
  <2>3. holder[fd[q]] = q
    BY <2>2 DEF LockInv, Locked, Held
  <2> QED
    BY <1>2, <2>1, <2>3, NoneNew
<1>6. pc'[p] = "storage" /\ \A q \in Procs : q # p => pc'[q] = pc[q]
  BY <1>1, <1>2 DEF ProcsOK
<1>7. \A q \in Procs : Held(q)' => q = p
  BY <1>5, <1>6 DEF Held, Owner
<1>8. holder'[fd[p]] = p
  BY <1>1, <1>2, <1>4 DEF FilesOK
<1>9. OneFile'
  BY <1>2, <1>4, <1>6, <1>7 DEF LockInv, OneFile
<1>10. Alone'
  BY <1>7 DEF Alone
<1>11. Locked'
  BY <1>2, <1>7, <1>8 DEF Locked, Held
<1> QED
  BY <1>9, <1>10, <1>11 DEF LockInv

\* The holder goes its way from one step of main to the next; other processes
\* stay where they are.
LEMMA MoveLockInv ==
  ASSUME GInv, LockInv, NEW p \in Procs, Owner(p),
         NEW to \in {"bind", "temp", "write", "rename", "run", "unlock"},
         pc' = [pc EXCEPT ![p] = to], UNCHANGED <<fd, pidfile, holder>>
  PROVE  LockInv'
<1>1. pc'[p] = to /\ \A q \in Procs : q # p => pc'[q] = pc[q]
  BY DEF GInv, TypeOK, ProcsOK
<1>2. \A q \in Procs : Held(q)' => Held(q)
  BY <1>1 DEF Held, Owner
<1>3. \A q \in Procs : Owner(q)' \/ pc'[q] = "unlock" => Owner(q) \/ pc[q] = "unlock"
  BY <1>1 DEF Owner
<1>4. \A q \in Procs : pc'[q] = "lock" => pc[q] = "lock"
  BY <1>1
<1>5. OneFile'
  BY <1>2, <1>4 DEF LockInv, OneFile
<1>6. Alone'
  BY <1>2 DEF LockInv, Alone
<1>7. Locked'
  BY <1>3 DEF LockInv, Locked
<1> QED
  BY <1>5, <1>6, <1>7 DEF LockInv

\* Drop for PidLock: the holder gives up the lock, then the path, which nobody
\* in line has open unless the race is on.
LEMMA DropLockInv ==
  ASSUME GInv, LockInv, NEW p \in Procs, Unlock(p) \/ Unlink(p), ~raced'
  PROVE  LockInv'
<1>1. ProcsOK /\ FilesOK
  BY DEF GInv, TypeOK
<1>2. Held(p)
  BY DEF Unlock, Unlink, Goto, Held
<1>3. \A q \in Procs : q # p => ~Held(q)
  BY <1>2 DEF LockInv, Alone
<1>4. \A q \in Procs : q # p => pc'[q] = pc[q]
  BY <1>1 DEF Unlock, Unlink, Goto, ProcsOK
<1>5. pc'[p] \in {"unlink", "exit"} /\ fd' = fd
  BY <1>1 DEF Unlock, Unlink, Goto, ProcsOK
<1>6. \A q \in Procs : Held(q)' => q = p
  BY <1>3, <1>4 DEF Held, Owner
<1>7. Alone'
  BY <1>6 DEF Alone
<1>8. Locked'
  BY <1>5, <1>6 DEF Locked, Held, Owner
<1>9. OneFile'
  <2>1. CASE Unlock(p)
    <3>1. pc[p] = "unlock" /\ pidfile' = pidfile
      BY <2>1 DEF Unlock, Goto
    <3> QED
      BY <1>2, <1>4, <1>5, <1>6, <3>1 DEF LockInv, OneFile
  <2>2. CASE Unlink(p)
    <3>1. pc'[p] = "exit" /\ \A q \in Procs : pc[q] = "lock" => fd[q] # pidfile
      BY <1>1, <2>2 DEF Unlink, Goto, ProcsOK
    <3>2. \A q \in Procs : pc'[q] # "lock"
      BY <1>4, <3>1 DEF LockInv, OneFile
    <3>3. \A q \in Procs : ~Held(q)'
      BY <1>6, <3>1 DEF Held, Owner
    <3> QED
      BY <3>2, <3>3 DEF OneFile
  <2> QED
    BY <2>1, <2>2
<1> QED
  BY <1>7, <1>8, <1>9 DEF LockInv

\* A process that is gone frees its lock and leaves the files as they were.
LEMMA GoneLockInv ==
  ASSUME GInv, LockInv, NEW p \in Procs, Gone(p)
  PROVE  LockInv'
<1>1. ProcsOK /\ FilesOK
  BY DEF GInv, TypeOK
<1>2. /\ pc'[p] = "gone"
      /\ \A q \in Procs : q # p => pc'[q] = pc[q] /\ fd'[q] = fd[q]
      /\ pidfile' = pidfile
      /\ holder' = [i \in Inodes |-> IF holder[i] = p THEN None ELSE holder[i]]
  BY <1>1 DEF Gone, ProcsOK
<1>3. \A q \in Procs : Held(q)' => q # p /\ Held(q)
  BY <1>2 DEF Held, Owner
<1>4. OneFile'
  BY <1>2, <1>3 DEF LockInv, OneFile
<1>5. Alone'
  BY <1>3 DEF LockInv, Alone
<1>6. Locked'
  <2> SUFFICES ASSUME NEW q \in Procs, Owner(q)' \/ pc'[q] = "unlock" PROVE holder'[fd'[q]] = q
    BY DEF Locked
  <2>1. q # p /\ (Owner(q) \/ pc[q] = "unlock")
    BY <1>2 DEF Owner
  <2>2. fd[q] \in Inodes /\ holder[fd[q]] = q
    BY <1>1, <2>1 DEF LockInv, ProcsOK, OneFile, Locked, Held
  <2> QED
    BY <1>2, <2>1, <2>2
<1> QED
  BY <1>4, <1>5, <1>6 DEF LockInv
------------------------------------------------------------------------------
(***************************************************************************)
(* What the one daemon at work leads to.                                   *)
(***************************************************************************)
\* A step that moves a process which does not serve, to a place where it does
\* not serve, and touches neither endpoint.json nor the socket.
LEMMA AsideFoundInv ==
  ASSUME GInv, FoundInv, NEW p \in Procs, pc[p] # "run",
         NEW to, to # "run", pc' = [pc EXCEPT ![p] = to],
         UNCHANGED <<ipc, endpoint, sock>>
  PROVE  FoundInv'
<1>1. \A q \in Procs : pc'[q] = "run" => pc[q] = "run"
  BY DEF GInv, TypeOK, ProcsOK
<1>2. SockKept'
  BY DEF FoundInv, SockKept
<1>3. Found'
  BY <1>1 DEF FoundInv, Found
<1> QED
  BY <1>2, <1>3 DEF FoundInv

\* The lock holder alone renames endpoint.json.
LEMMA RenameFoundInv ==
  ASSUME GInv, Alone, FoundInv, NEW p \in Procs, Rename(p)
  PROVE  FoundInv'
<1>1. ProcsOK /\ FilesOK
  BY DEF GInv, TypeOK
<1>2. /\ pc[p] = "rename" /\ pc' = [pc EXCEPT ![p] = "run"]
      /\ ipc' = [ipc EXCEPT ![p] = "remove"] /\ sock' = sock
  BY DEF Rename, Goto
<1>3. endpoint' = [of |-> p, whole |-> TRUE]
  BY DEF Rename, Goto, GInv, Renames
<1>4. \A q \in Procs : q # p => pc[q] # "run"
  BY <1>2 DEF Alone, Held, Owner
<1>5. \A q \in Procs : q # p => pc'[q] = pc[q] /\ ipc'[q] = ipc[q]
  BY <1>1, <1>2 DEF ProcsOK
<1>6. ipc'[p] = "remove" /\ ipc[p] = "none"
  BY <1>1, <1>2 DEF ProcsOK, GInv, IpcServed
<1>7. Found'
  BY <1>3, <1>4, <1>5, <1>6 DEF Found
<1>8. SockKept'
  <2>1. Os # "windows" => \A q \in Procs : ipc'[q] = "bind" => sock' = None
    BY <1>2, <1>5, <1>6 DEF FoundInv, SockKept
  <2>2. ASSUME Os = "windows", sock' # None PROVE ipc'[sock'] = "serving"
    <3>1. sock \in Procs /\ ipc[sock] = "serving"
      BY <1>1, <1>2, <2>2 DEF FoundInv, SockKept, FilesOK
    <3> QED
      BY <1>2, <1>5, <1>6, <3>1
  <2> QED
    BY <2>1, <2>2 DEF SockKept
<1> QED
  BY <1>7, <1>8 DEF FoundInv

\* The socket: removed and bound again by the lock holder, which finds it free;
\* the accept loop may end.
LEMMA IpcFoundInv ==
  ASSUME GInv, Alone, FoundInv, NEW p \in Procs,
         RemoveSocket(p) \/ BindSocket(p) \/ AcceptFails(p)
  PROVE  FoundInv'
<1>1. ProcsOK /\ FilesOK
  BY DEF GInv, TypeOK
<1>2. pc' = pc /\ endpoint' = endpoint
  BY DEF RemoveSocket, BindSocket, AcceptFails
<1>3. pc[p] = "run" /\ \A q \in Procs : q # p => pc[q] # "run" /\ ipc[q] = "none"
  <2>1. pc[p] = "run"
    BY DEF RemoveSocket, BindSocket, AcceptFails, GInv, IpcServed
  <2>2. \A q \in Procs : q # p => pc[q] # "run"
    BY <2>1 DEF Alone, Held, Owner
  <2> QED
    BY <2>1, <2>2 DEF GInv, IpcServed
<1>4. endpoint' = [of |-> p, whole |-> TRUE]
  BY <1>2, <1>3 DEF FoundInv, Found
<1>5. \A q \in Procs : q # p => ipc'[q] = "none"
  BY <1>1, <1>3 DEF RemoveSocket, BindSocket, AcceptFails, ProcsOK
<1>6. ipc'[p] # "failed" /\ (ipc'[p] = "serving" => sock' = p) => Found'
  BY <1>2, <1>3, <1>4 DEF Found
<1>7. CASE RemoveSocket(p)
  <2>1. ipc[p] = "remove" /\ ipc'[p] = "bind"
    BY <1>1, <1>7 DEF RemoveSocket, ProcsOK
  <2>2. Os # "windows" => sock' = None
    BY <1>7 DEF RemoveSocket
  <2>3. Os = "windows" => sock = None /\ sock' = sock
    BY <1>1, <1>3, <1>7, <2>1 DEF RemoveSocket, FoundInv, SockKept, FilesOK
  <2>4. SockKept'
    BY <2>2, <2>3 DEF SockKept
  <2> QED
    BY <1>6, <2>1, <2>4 DEF FoundInv
<1>8. CASE BindSocket(p)
  <2>1. sock = None
    BY <1>1, <1>3, <1>8 DEF BindSocket, FoundInv, SockKept, FilesOK
  <2>2. ipc'[p] = "serving" /\ sock' = p
    BY <1>1, <1>8, <2>1 DEF BindSocket, ProcsOK
  <2>3. SockKept'
    BY <1>5, <2>2 DEF SockKept
  <2> QED
    BY <1>6, <2>2, <2>3 DEF FoundInv
<1>9. CASE AcceptFails(p)
  <2>1. ipc'[p] = "deaf"
    BY <1>1, <1>9 DEF AcceptFails, ProcsOK
  <2>2. Os = "windows" => sock' = None
    BY <1>1, <1>3, <1>9 DEF AcceptFails, FoundInv, SockKept, FilesOK
  <2>3. SockKept'
    BY <1>5, <2>1, <2>2 DEF SockKept
  <2> QED
    BY <1>6, <2>1, <2>3 DEF FoundInv
<1> QED
  BY <1>7, <1>8, <1>9

\* A process that is stopped or gone takes its IPC server with it, and on Windows
\* its pipe; another one that serves is as it was.
LEMMA EndFoundInv ==
  ASSUME GInv, FoundInv, NEW p \in Procs,
         NEW to, to # "run", pc' = [pc EXCEPT ![p] = to],
         ipc' = [ipc EXCEPT ![p] = "none"], endpoint' = endpoint,
         sock' = IF Os = "windows" /\ sock = p THEN None ELSE sock
  PROVE  FoundInv'
<1>1. ProcsOK /\ FilesOK
  BY DEF GInv, TypeOK
<1>2. pc'[p] = to /\ ipc'[p] = "none" /\ \A q \in Procs : q # p => pc'[q] = pc[q] /\ ipc'[q] = ipc[q]
  BY <1>1 DEF ProcsOK
<1>3. SockKept'
  <2>1. Os # "windows" => \A q \in Procs : ipc'[q] = "bind" => sock' = None
    BY <1>2 DEF FoundInv, SockKept
  <2>2. ASSUME Os = "windows", sock' # None PROVE ipc'[sock'] = "serving"
    <3>1. sock' = sock /\ sock # p /\ sock \in Procs
      BY <1>1, <2>2 DEF FilesOK
    <3> QED
      BY <1>2, <2>2, <3>1 DEF FoundInv, SockKept
  <2> QED
    BY <2>1, <2>2 DEF SockKept
<1>4. Found'
  <2> SUFFICES ASSUME NEW q \in Procs, pc'[q] = "run"
               PROVE  /\ endpoint' = [of |-> q, whole |-> TRUE]
                      /\ ipc'[q] # "failed"
                      /\ ipc'[q] = "serving" => sock' = q
    BY DEF Found
  <2>1. q # p /\ pc[q] = "run" /\ ipc'[q] = ipc[q]
    BY <1>2
  <2> QED
    BY <2>1 DEF FoundInv, Found
<1> QED
  BY <1>3, <1>4 DEF FoundInv
------------------------------------------------------------------------------
\* A new process is in nobody's way.
LEMMA SpawnRInv ==
  ASSUME GInv, RInv, NEW p \in Procs, NEW n \in Pids, Spawn(p, n), raced' = raced
  PROVE  RInv'
<1> SUFFICES ASSUME LockInv, FoundInv PROVE LockInv' /\ FoundInv'
  BY DEF RInv
<1>1. /\ pc[p] = "idle" /\ pc' = [pc EXCEPT ![p] = "open"]
      /\ ipc' = ipc /\ fd' = fd /\ pidfile' = pidfile
      /\ holder' = holder /\ endpoint' = endpoint /\ sock' = sock
  BY DEF Spawn, Goto, fileVars
<1>2. pc'[p] = "open" /\ \A q \in Procs : q # p => pc'[q] = pc[q]
  BY <1>1 DEF GInv, TypeOK, ProcsOK
<1>3. LockInv'
  <2>1. \A q \in Procs : Held(q)' => Held(q)
    BY <1>2 DEF Held, Owner
  <2>2. \A q \in Procs : pc'[q] = "lock" => pc[q] = "lock"
    BY <1>2
  <2>3. OneFile' /\ Alone'
    BY <1>1, <2>1, <2>2 DEF LockInv, OneFile, Alone
  <2>4. Locked'
    BY <1>1, <1>2 DEF LockInv, Locked, Owner
  <2> QED
    BY <2>3, <2>4 DEF LockInv
<1>4. FoundInv'
  BY <1>1, AsideFoundInv
<1> QED
  BY <1>3, <1>4

\* The steps of main keep RInv.
LEMMA StartRInv ==
  ASSUME GInv, RInv, NEW p \in Procs,
         \/ OpenPid(p) \/ LockPid(p) \/ OpenStorage(p)
         \/ CreateTemp(p) \/ WriteTemp(p) \/ Rename(p)
         \/ \E n \in Ports : BindHttp(p, n)
  PROVE  RInv'
<1>0. raced => raced'
  BY DEF OpenPid, LockPid, OpenStorage, CreateTemp, WriteTemp, Rename, BindHttp, userVars
<1> SUFFICES ASSUME LockInv, FoundInv, ~raced' PROVE LockInv' /\ FoundInv'
  BY <1>0 DEF RInv
<1>1. CASE OpenPid(p)
  <2>1. pc[p] # "run" /\ pc' = [pc EXCEPT ![p] = "lock"] /\ UNCHANGED <<ipc, endpoint, sock>>
    BY <1>1 DEF OpenPid, Goto
  <2> QED
    BY <1>1, <2>1, OpenLockInv, AsideFoundInv
<1>2. CASE LockPid(p)
  <2>1. pc[p] # "run" /\ pc' = [pc EXCEPT ![p] = "storage"] /\ UNCHANGED <<ipc, endpoint, sock>>
    BY <1>2 DEF LockPid, Goto
  <2> QED
    BY <1>2, <2>1, TakeLockInv, AsideFoundInv
<1>3. CASE OpenStorage(p) \/ CreateTemp(p) \/ WriteTemp(p) \/ \E n \in Ports : BindHttp(p, n)
  <2>1. PICK to \in {"bind", "temp", "write", "rename"} : pc' = [pc EXCEPT ![p] = to]
    BY <1>3 DEF OpenStorage, CreateTemp, WriteTemp, BindHttp, Goto
  <2>2. Owner(p) /\ pc[p] # "run" /\ UNCHANGED <<fd, pidfile, holder, ipc, endpoint, sock>>
    BY <1>3 DEF OpenStorage, CreateTemp, WriteTemp, BindHttp, Goto, Owner, fileVars
  <2>3. to # "run" /\ to \in {"bind", "temp", "write", "rename", "run", "unlock"}
    OBVIOUS
  <2> QED
    BY <2>1, <2>2, <2>3, MoveLockInv, AsideFoundInv
<1>4. CASE Rename(p)
  <2>1. Owner(p) /\ pc' = [pc EXCEPT ![p] = "run"] /\ UNCHANGED <<fd, pidfile, holder>>
    BY <1>4 DEF Rename, Goto, Owner
  <2> QED
    BY <1>4, <2>1, MoveLockInv, RenameFoundInv DEF LockInv
<1> QED
  BY <1>1, <1>2, <1>3, <1>4

\* So do the IPC server and every way a process ends.
LEMMA EndRInv ==
  ASSUME GInv, RInv, NEW p \in Procs,
         \/ RemoveSocket(p) \/ BindSocket(p) \/ AcceptFails(p)
         \/ Crash(p) \/ Signal(p) \/ StartFails(p) \/ Unlock(p) \/ Unlink(p) \/ Exit(p)
         \/ LockBusy(p)
  PROVE  RInv'
<1>0. raced => raced'
  BY DEF RemoveSocket, BindSocket, AcceptFails, Crash, Signal, StartFails, Unlock, Unlink, Exit,
         LockBusy, Gone, userVars
<1> SUFFICES ASSUME LockInv, FoundInv, ~raced' PROVE LockInv' /\ FoundInv'
  BY <1>0 DEF RInv
<1>1. CASE RemoveSocket(p) \/ BindSocket(p) \/ AcceptFails(p)
  <2>1. UNCHANGED <<pc, fd, pidfile, holder>>
    BY <1>1 DEF RemoveSocket, BindSocket, AcceptFails
  <2>2. LockInv'
    BY <2>1 DEF LockInv, OneFile, Alone, Locked, Held, Owner
  <2> QED
    BY <1>1, <2>2, IpcFoundInv DEF LockInv
<1>2. CASE Crash(p) \/ Exit(p) \/ LockBusy(p)
  <2>1. Gone(p)
    BY <1>2 DEF Crash, Exit, LockBusy
  <2>2. /\ pc' = [pc EXCEPT ![p] = "gone"] /\ ipc' = [ipc EXCEPT ![p] = "none"]
        /\ endpoint' = endpoint /\ sock' = IF Os = "windows" /\ sock = p THEN None ELSE sock
    BY <2>1 DEF Gone
  <2> QED
    BY <2>1, <2>2, GoneLockInv, EndFoundInv
<1>3. CASE Signal(p)
  <2>1. /\ pc' = [pc EXCEPT ![p] = "unlock"] /\ ipc' = [ipc EXCEPT ![p] = "none"]
        /\ endpoint' = endpoint /\ sock' = IF Os = "windows" /\ sock = p THEN None ELSE sock
        /\ Owner(p) /\ UNCHANGED <<fd, pidfile, holder>>
    BY <1>3 DEF Signal, Goto, Owner
  <2> QED
    BY <2>1, MoveLockInv, EndFoundInv
<1>4. CASE StartFails(p)
  <2>1. /\ pc' = [pc EXCEPT ![p] = "unlock"] /\ Owner(p) /\ pc[p] # "run"
        /\ UNCHANGED <<fd, pidfile, holder, ipc, endpoint, sock>>
    BY <1>4 DEF StartFails, Goto, Owner, fileVars
  <2> QED
    BY <2>1, MoveLockInv, AsideFoundInv
<1>5. CASE Unlock(p) \/ Unlink(p)
  <2>1. PICK to \in {"unlink", "exit"} : pc' = [pc EXCEPT ![p] = to]
    BY <1>5 DEF Unlock, Unlink, Goto
  <2>2. pc[p] # "run" /\ UNCHANGED <<ipc, endpoint, sock>>
    BY <1>5 DEF Unlock, Unlink, Goto
  <2>3. to # "run"
    OBVIOUS
  <2> QED
    BY <1>5, <2>1, <2>2, <2>3, DropLockInv, AsideFoundInv
<1> QED
  BY <1>1, <1>2, <1>3, <1>4, <1>5

\* Every step keeps RInv.
LEMMA NextRInv == GInv /\ RInv /\ [Next]_vars => RInv'
<1> SUFFICES ASSUME GInv, RInv, [Next]_vars PROVE RInv'
  OBVIOUS
<1>1. UNCHANGED <<procVars, fileVars, raced>> => RInv'
  BY DEF procVars, fileVars, RInv, LockInv, FoundInv, OneFile, Alone, Locked, SockKept, Found,
         Held, Owner
<1>2. CASE \E p \in Procs, n \in Pids : Start(p, n)
  BY <1>2, SpawnRInv DEF Start, userVars
<1>3. CASE \E p \in Procs : \/ OpenPid(p) \/ LockPid(p) \/ OpenStorage(p)
                            \/ CreateTemp(p) \/ WriteTemp(p) \/ Rename(p)
                            \/ \E n \in Ports : BindHttp(p, n)
  BY <1>3, StartRInv
<1>4. CASE \E p \in Procs : \/ RemoveSocket(p) \/ BindSocket(p) \/ AcceptFails(p)
                            \/ Crash(p) \/ Signal(p) \/ StartFails(p) \/ Unlock(p)
                            \/ Unlink(p) \/ Exit(p) \/ LockBusy(p)
  BY <1>4, EndRInv
<1>5. CASE \/ TrayFindsDaemon \/ TraySpawns \/ TrayReady \/ TrayTimeout
           \/ ShimStart \/ ShimExit
           \/ \E p \in Procs : ShimPost(p) \/ CallEnds(p)
           \/ \E b \in BOOLEAN : AdminPause(b)
  BY <1>1, <1>5, UserSteps, SpawnRInv
<1>6. CASE UNCHANGED vars
  BY <1>1, <1>6 DEF vars, userVars
<1> QED
  BY <1>2, <1>3, <1>4, <1>5, <1>6 DEF Next
------------------------------------------------------------------------------
\* Until a process takes the lock in the window that PidLock's drop leaves open,
\* never two daemons are past PidLock::acquire (main.rs:56), however many are
\* started, and whether they crash, are stopped or fail.
THEOREM LockExcludes == Spec => []OneDaemon
<1>1. RInv => OneDaemon
  BY DEF RInv, LockInv, Alone, Held, OneDaemon
<1> QED
  BY <1>1, NextRInv, InitRInv, GInvariance, PTL DEF Spec

\* And the daemon that serves is the one endpoint.json and the socket lead to,
\* on every operating system.
THEOREM ServingDaemonFound == Spec => []ServingIsFound
<1>1. RInv => ServingIsFound
  BY DEF RInv, FoundInv, Found, ServingIsFound
<1> QED
  BY <1>1, NextRInv, InitRInv, GInvariance, PTL DEF Spec

\* A call is admitted by a post and by nothing else.
LEMMA PostsAdmit ==
  ASSUME [Next]_vars, NEW p \in Procs, call # p, call' = p
  PROVE  p \notin paused
<1>1. PICK r \in Procs : ShimPost(r)
  <2>0. call' # call /\ call' # None
    BY NoneNew
  <2>1. ASSUME NEW q \in Procs, NEW n \in Pids, Start(q, n) PROVE FALSE
    BY <2>0, <2>1 DEF Start, userVars, clientVars
  <2>2. ASSUME NEW q \in Procs, NEW n \in Ports, BindHttp(q, n) PROVE FALSE
    BY <2>0, <2>2 DEF BindHttp, userVars, clientVars
  <2>3. ASSUME NEW q \in Procs,
               \/ OpenPid(q) \/ LockPid(q) \/ OpenStorage(q)
               \/ CreateTemp(q) \/ WriteTemp(q) \/ Rename(q)
               \/ RemoveSocket(q) \/ BindSocket(q) \/ AcceptFails(q)
        PROVE  FALSE
    BY <2>0, <2>3 DEF OpenPid, LockPid, OpenStorage, CreateTemp, WriteTemp, Rename,
                RemoveSocket, BindSocket, AcceptFails, userVars, clientVars
  <2>4. ASSUME NEW q \in Procs,
               \/ Crash(q) \/ Signal(q) \/ StartFails(q)
               \/ Unlock(q) \/ Unlink(q) \/ Exit(q) \/ LockBusy(q) \/ CallEnds(q)
        PROVE  FALSE
    BY <2>0, <2>4 DEF Crash, Gone, Signal, StartFails, Unlock, Unlink, Exit, LockBusy, CallEnds,
                userVars, clientVars
  <2>5. ~(\/ TrayFindsDaemon \/ TraySpawns \/ TrayReady \/ TrayTimeout
          \/ ShimStart \/ ShimExit \/ \E b \in BOOLEAN : AdminPause(b))
    BY <2>0 DEF TrayFindsDaemon, TraySpawns, TrayReady, SayUp, TrayTimeout, ShimStart, ShimExit,
           AdminPause
  <2>6. ~UNCHANGED vars
    BY <2>0 DEF vars, userVars, clientVars
  <2> QED
    BY <2>1, <2>2, <2>3, <2>4, <2>5, <2>6 DEF Next
<1> QED
  BY <1>1 DEF ShimPost

\* Until that race, no daemon at work admits a tool call while a paused one is at
\* work: the one there is, is the one the admin paused (ipc handler mcp.pause,
\* the look at mcp_paused in dispatch).
THEOREM PauseHolds == Spec => PausedUntilResumed
<1>1. GInv /\ RInv /\ [Next]_vars =>
        [\A p \in Procs :
           call # p /\ call' = p /\ pc[p] = "run" /\ wanted =>
             raced \/ \A q \in paused : pc[q] # "run"]_vars
  <2> SUFFICES ASSUME GInv, RInv, [Next]_vars, NEW p \in Procs,
                      call # p, call' = p, pc[p] = "run", ~raced,
                      NEW q \in paused, pc[q] = "run"
               PROVE  FALSE
    OBVIOUS
  <2>1. q \in Procs
    BY DEF GInv, TypeOK, UsersOK
  <2>2. p = q
    BY <2>1 DEF RInv, LockInv, Alone, Held, Owner
  <2> QED
    BY <2>2, PostsAdmit
<1> QED
  BY <1>1, NextRInv, InitRInv, GInvariance, PTL DEF Spec, PausedUntilResumed
==============================================================================
