---------------------- MODULE IpcNotifications_proofs -----------------------
(***************************************************************************)
(* Proofs about IpcNotifications, for any connections, capacities, filters *)
(* and bounds.                                                             *)
(***************************************************************************)
EXTENDS IpcNotifications, FiniteSets, FiniteSetTheorems, TLAPS

\* serve_conn acts on the request it read.
ServesRequest ==
  \A c \in Conns :
    /\ step[c] = "filter" => req[c].kind = "subscribe"
    /\ step[c] = "notify" => req[c].kind = "pause"

\* The event the forwarder is about to send is one it received.
ForwardsReceived == fwd.state = "send" => fwd.next - 1 \in 1 .. Len(events)

TInv == TypeOK /\ ServesRequest /\ ForwardsReceived

(***************************************************************************)
(* A subscribe request carries an event list, a pause request a flag.      *)
(***************************************************************************)
LEMMA RequestFields ==
  ASSUME NEW r \in Request \cup {NoRequest}
  PROVE  /\ r.kind = "subscribe" => r.events \in Filters /\ r.events \subseteq Method
         /\ r.kind = "pause" => r.flag \in BOOLEAN
<1>1. CASE r \in [kind : {"subscribe"}, events : Filters]
  <2>1. r.kind = "subscribe" /\ r.events \in Filters
    BY <1>1
  <2> QED
    BY <2>1, FiltersKnown
<1>2. CASE r \in [kind : {"pause"}, flag : BOOLEAN]
  <2>1. r.kind = "pause" /\ r.flag \in BOOLEAN
    BY <1>2
  <2> QED
    BY <2>1
<1>3. CASE r \in [kind : {"call", "malformed"}] \cup {NoRequest}
  BY <1>3 DEF NoRequest
<1> QED
  BY <1>1, <1>2, <1>3 DEF Request

(***************************************************************************)
(* A part of the state that a step leaves alone keeps its types.           *)
(***************************************************************************)
LEMMA FrameTypes ==
  /\ BusOK /\ ForwardsReceived /\ UNCHANGED busVars => BusOK' /\ ForwardsReceived'
  /\ ConnsOK /\ ServesRequest /\ UNCHANGED connVars => ConnsOK' /\ ServesRequest'
  /\ TasksOK /\ UNCHANGED taskVars => TasksOK'
  /\ SocketsOK /\ UNCHANGED sockVars => SocketsOK'
<1>1. BusOK /\ ForwardsReceived /\ UNCHANGED busVars => BusOK' /\ ForwardsReceived'
  BY DEF BusOK, ForwardsReceived, busVars
<1>2. ConnsOK /\ ServesRequest /\ UNCHANGED connVars => ConnsOK' /\ ServesRequest'
  BY DEF ConnsOK, ServesRequest, connVars
<1>3. TasksOK /\ UNCHANGED taskVars => TasksOK'
  BY DEF TasksOK, taskVars
<1>4. SocketsOK /\ UNCHANGED sockVars => SocketsOK'
  BY DEF SocketsOK, sockVars
<1> QED
  BY <1>1, <1>2, <1>3, <1>4

\* The types of the fan-out tasks and of the sockets, one by one.
FanOK ==
  fan \in [Tasks -> [state : {"none", "recv", "check", "lock", "body",
                              "newline", "ended"},
                     start : Nat \ {0}, next : Nat \ {0}]]

HolderOK == holder \in [Conns -> Nobody .. MaxRequests]

OpenOK == open \in [Conns -> BOOLEAN]

WireOK == wire \in [Conns -> Seq(Int)]

ReadOK == read \in [Conns -> Nat]

(***************************************************************************)
(* A fan-out task that moves to another state stays a fan-out task.        *)
(***************************************************************************)
LEMMA FanGotoTyped ==
  ASSUME FanOK, NEW t \in Tasks,
         NEW s \in {"none", "recv", "check", "lock", "body", "newline", "ended"},
         FanGoto(t, s)
  PROVE  FanOK'
BY DEF FanOK, FanGoto

(***************************************************************************)
(* Appending a chunk to a connection's wire keeps the wires typed.         *)
(***************************************************************************)
LEMMA WriteTyped ==
  ASSUME WireOK, NEW c \in Conns, NEW x \in Int,
         wire' = [wire EXCEPT ![c] = Append(@, x)]
  PROVE  WireOK'
BY DEF WireOK

(***************************************************************************)
(* The parts make up the types of tasks and sockets.                       *)
(***************************************************************************)
LEMMA Parts ==
  /\ TasksOK <=> FanOK /\ HolderOK
  /\ SocketsOK <=> OpenOK /\ WireOK /\ ReadOK
  /\ TasksOK' <=> FanOK' /\ HolderOK'
  /\ SocketsOK' <=> OpenOK' /\ WireOK' /\ ReadOK'
BY DEF TasksOK, SocketsOK, FanOK, HolderOK, OpenOK, WireOK, ReadOK

(***************************************************************************)
(* Broadcasting a notification the daemon knows keeps the channels typed.  *)
(***************************************************************************)
LEMMA BroadcastTyped ==
  ASSUME BusOK, ForwardsReceived, NEW m \in Method, Broadcast(m),
         UNCHANGED <<events, fwd>>, paused' \in BOOLEAN
  PROVE  BusOK' /\ ForwardsReceived'
<1>1. sent' \in Seq(Method)
  BY DEF BusOK, Broadcast
<1>2. events' = events /\ fwd' = fwd
  OBVIOUS
<1> QED
  BY <1>1, <1>2 DEF BusOK, ForwardsReceived

(***************************************************************************)
(* The steps of the channels and the forwarder.                            *)
(***************************************************************************)
LEMMA BusStepsTyped ==
  ASSUME TInv, (\E m \in ApprovalMethods : Emit(m)) \/ FwdRecv \/ FwdSend
  PROVE  TInv'
<1>0. BusOK /\ ForwardsReceived /\ ConnsOK /\ ServesRequest /\ TasksOK /\ SocketsOK
  BY DEF TInv, TypeOK
<1>1. UNCHANGED <<paused, connVars, taskVars, sockVars>>
  BY DEF Emit, FwdRecv, FwdSend
<1>2. paused' \in BOOLEAN
  BY <1>0, <1>1 DEF BusOK
<1>3. ASSUME NEW m \in ApprovalMethods, Emit(m)
      PROVE  BusOK' /\ ForwardsReceived'
  <2>1. events' \in Seq(ApprovalMethods) /\ Len(events') = Len(events) + 1
    BY <1>0, <1>3 DEF Emit, BusOK
  <2>2. fwd' = fwd /\ sent' = sent
    BY <1>3 DEF Emit
  <2> QED
    BY <1>0, <1>2, <2>1, <2>2 DEF BusOK, ForwardsReceived
<1>4. ASSUME FwdRecv
      PROVE  BusOK' /\ ForwardsReceived'
  <2>1. events' = events /\ sent' = sent
    BY <1>4 DEF FwdRecv
  <2>2. /\ fwd' \in [state : {"recv", "send", "ended"}, next : Nat \ {0}]
        /\ fwd'.state = "send" => fwd'.next - 1 \in 1 .. Len(events)
    BY <1>0, <1>4 DEF FwdRecv, BusOK
  <2> QED
    BY <1>0, <1>2, <2>1, <2>2 DEF BusOK, ForwardsReceived
<1>5. ASSUME FwdSend
      PROVE  BusOK' /\ ForwardsReceived'
  <2>1. events[fwd.next - 1] \in Method
    BY <1>0, <1>5, MethodsKnown DEF FwdSend, ForwardsReceived, BusOK, Method
  <2>2. events' = events /\ sent' \in Seq(Method)
    BY <1>0, <1>5, <2>1 DEF FwdSend, Broadcast, BusOK
  <2>3. /\ fwd' \in [state : {"recv", "send", "ended"}, next : Nat \ {0}]
        /\ fwd'.state = "recv"
    BY <1>0, <1>5 DEF FwdSend, BusOK
  <2> QED
    BY <1>0, <1>2, <2>2, <2>3 DEF BusOK, ForwardsReceived
<1>6. BusOK' /\ ForwardsReceived'
  BY <1>3, <1>4, <1>5
<1> QED
  BY <1>0, <1>1, <1>6, FrameTypes DEF TInv, TypeOK

(***************************************************************************)
(* The steps of serve_conn.                                                *)
(***************************************************************************)
LEMMA ServeStepsTyped ==
  ASSUME TInv, NEW c \in Conns,
         Accept(c) \/ LockReply(c) \/ ServeStep(c)
           \/ \E r \in Request : r.kind \in Kinds /\ ReadLine(c, r)
  PROVE  TInv'
<1> USE SizesNatural, FrameTypes
<1>0. BusOK /\ ForwardsReceived /\ ConnsOK /\ ServesRequest /\ TasksOK /\ SocketsOK
  BY DEF TInv, TypeOK
<1>f. /\ req[c].kind = "subscribe" => req[c].events \in Filters /\ req[c].events \subseteq Method
      /\ req[c].kind = "pause" => req[c].flag \in BOOLEAN
  <2>1. req[c] \in Request \cup {NoRequest}
    BY <1>0 DEF ConnsOK
  <2> QED
    BY <2>1, RequestFields
<1>1. CASE Accept(c)
  <2>1. ConnsOK' /\ ServesRequest'
    BY <1>0, <1>1 DEF Accept, ConnsOK, ServesRequest
  <2>2. SocketsOK'
    BY <1>0, <1>1 DEF Accept, SocketsOK
  <2> QED
    BY <1>0, <1>1, <2>1, <2>2 DEF Accept, TInv, TypeOK
<1>2. ASSUME NEW r \in Request, ReadLine(c, r)
      PROVE  TInv'
  <2>1. r.kind = "subscribe" => r.events \in Filters
    BY RequestFields
  <2>2. /\ step' \in [Conns -> {"off", "read", "filter", "arm", "handle", "notify",
                                "reply", "body", "newline", "closed"}]
        /\ ServesRequest'
    BY <1>0, <1>2 DEF ReadLine, ConnsOK, ServesRequest
  <2>3. asked' \in [Conns -> SUBSET Filters]
    BY <1>0, <1>2, <2>1 DEF ReadLine, ConnsOK
  <2>4. served' \in [Conns -> 0 .. MaxRequests]
    BY <1>0, <1>2 DEF ReadLine, ConnsOK
  <2>5. req' \in [Conns -> Request \cup {NoRequest}]
    BY <1>0, <1>2 DEF ReadLine, ConnsOK
  <2>6. ConnsOK'
    BY <1>0, <1>2, <2>2, <2>3, <2>4, <2>5 DEF ReadLine, ConnsOK
  <2> QED
    BY <1>0, <1>2, <2>2, <2>6 DEF ReadLine, TInv, TypeOK
<1>3. CASE Eof(c)
  <2>1. ConnsOK' /\ ServesRequest'
    BY <1>0, <1>3 DEF Eof, ConnsOK, ServesRequest
  <2> QED
    BY <1>0, <1>3, <2>1 DEF Eof, TInv, TypeOK
<1>4. CASE SetFilter(c)
  <2>1. req[c].events \subseteq Method
    BY <1>0, <1>4, <1>f DEF SetFilter, ServesRequest
  <2>2. ConnsOK' /\ ServesRequest'
    BY <1>0, <1>4, <2>1 DEF SetFilter, ConnsOK, ServesRequest
  <2> QED
    BY <1>0, <1>4, <2>2 DEF SetFilter, TInv, TypeOK
<1>5. CASE Arm(c)
  <2>1. ConnsOK' /\ ServesRequest'
    BY <1>0, <1>5 DEF Arm, ConnsOK, ServesRequest
  <2>2. Len(sent) + 1 \in Nat \ {0}
    BY <1>0 DEF BusOK
  <2>3. FanOK'
    <3>1. FanOK
      BY <1>0, Parts
    <3>2. CASE UNCHANGED fan
      BY <3>1, <3>2 DEF FanOK
    <3>3. CASE fan' = [fan EXCEPT ![<<c, 1>>] =
                         [state |-> "recv", start |-> Len(sent) + 1, next |-> Len(sent) + 1]]
      <4> DEFINE r == [state |-> "recv", start |-> Len(sent) + 1, next |-> Len(sent) + 1]
      <4>1. r \in [state : {"none", "recv", "check", "lock", "body", "newline", "ended"},
                   start : Nat \ {0}, next : Nat \ {0}]
        BY <2>2
      <4>2. fan' = [fan EXCEPT ![<<c, 1>>] = r]
        BY <3>3
      <4> HIDE DEF r
      <4> QED
        BY <3>1, <4>1, <4>2 DEF FanOK
    <3> QED
      BY <1>5, <3>2, <3>3 DEF Arm
  <2>4. HolderOK'
    BY <1>0, <1>5, Parts DEF Arm, HolderOK
  <2> QED
    BY <1>0, <1>5, <2>1, <2>3, <2>4, Parts DEF Arm, TInv, TypeOK
<1>6. CASE Handle(c)
  <2>1. ConnsOK' /\ ServesRequest'
    BY <1>0, <1>6 DEF Handle, ConnsOK, ServesRequest
  <2>2. paused' \in BOOLEAN
    BY <1>0, <1>6 DEF Handle, BusOK
  <2>3. CASE UNCHANGED sent
    BY <1>0, <1>6, <2>1, <2>3 DEF Handle, TInv, TypeOK, busVars
  <2>4. ASSUME NEW m \in HandlerMethods, Broadcast(m)
        PROVE  TInv'
    <3>1. m \in Method
      BY MethodsKnown DEF Method
    <3>2. BusOK' /\ ForwardsReceived'
      BY <1>0, <1>6, <2>2, <2>4, <3>1, BroadcastTyped DEF Handle
    <3> QED
      BY <1>0, <1>6, <2>1, <3>2 DEF Handle, TInv, TypeOK
  <2> QED
    BY <1>6, <2>3, <2>4 DEF Handle
<1>7. CASE StorePaused(c)
  <2>1. ConnsOK' /\ ServesRequest'
    BY <1>0, <1>7 DEF StorePaused, ConnsOK, ServesRequest
  <2>2. paused' \in BOOLEAN
    BY <1>0, <1>7, <1>f DEF StorePaused, BusOK
  <2>3. BusOK' /\ ForwardsReceived'
    BY <1>0, <1>7, <2>2 DEF StorePaused, BusOK, ForwardsReceived
  <2> QED
    BY <1>0, <1>7, <2>1, <2>3 DEF StorePaused, TInv, TypeOK
<1>8. CASE NotifyPaused(c)
  <2>1. ConnsOK' /\ ServesRequest'
    BY <1>0, <1>8 DEF NotifyPaused, ConnsOK, ServesRequest
  <2>2. paused' \in BOOLEAN
    BY <1>0, <1>8, <1>f DEF NotifyPaused, BusOK, ServesRequest
  <2>3. "mcp.paused_changed" \in Method
    BY DEF Method
  <2>4. BusOK' /\ ForwardsReceived'
    BY <1>0, <1>8, <2>2, <2>3, BroadcastTyped DEF NotifyPaused
  <2> QED
    BY <1>0, <1>8, <2>1, <2>4 DEF NotifyPaused, TInv, TypeOK
<1>9. CASE LockReply(c)
  <2>1. ConnsOK' /\ ServesRequest'
    BY <1>0, <1>9 DEF LockReply, ConnsOK, ServesRequest
  <2>2. TasksOK'
    BY <1>0, <1>9 DEF LockReply, TasksOK, Nobody, Main
  <2> QED
    BY <1>0, <1>9, <2>1, <2>2 DEF LockReply, TInv, TypeOK
<1>10. CASE WriteReply(c)
  <2>1. ConnsOK' /\ ServesRequest'
    BY <1>0, <1>10 DEF WriteReply, ConnsOK, ServesRequest
  <2>2. HolderOK'
    BY <1>0, <1>10, Parts DEF WriteReply, HolderOK, Nobody
  <2>3. WireOK'
    <3>1. \/ UNCHANGED wire
          \/ wire' = [wire EXCEPT ![c] = Append(@, 0)]
          \/ wire' = [wire EXCEPT ![c] = Append(@, Newline)]
      BY <1>10 DEF WriteReply
    <3>2. 0 \in Int /\ Newline \in Int /\ WireOK
      BY <1>0, Parts DEF Newline
    <3>3. UNCHANGED wire => WireOK'
      BY <3>2 DEF WireOK
    <3> QED
      BY <3>1, <3>2, <3>3, WriteTyped
  <2>4. FanOK' /\ OpenOK' /\ ReadOK'
    BY <1>0, <1>10, Parts DEF WriteReply, FanOK, OpenOK, ReadOK
  <2> QED
    BY <1>0, <1>10, <2>1, <2>2, <2>3, <2>4, Parts DEF WriteReply, TInv, TypeOK
<1> QED
  BY <1>1, <1>2, <1>3, <1>4, <1>5, <1>6, <1>7, <1>8, <1>9, <1>10 DEF ServeStep

(***************************************************************************)
(* The steps of the fan-out tasks.                                         *)
(***************************************************************************)
LEMMA FanStepsTyped ==
  ASSUME TInv, NEW t \in Tasks, FanLock(t) \/ FanStep(t)
  PROVE  TInv'
<1> USE SizesNatural, FrameTypes
<1>0. BusOK /\ ForwardsReceived /\ ConnsOK /\ ServesRequest /\ TasksOK /\ SocketsOK
  BY DEF TInv, TypeOK
<1>t. t[1] \in Conns /\ t[2] \in 1 .. MaxRequests
  BY DEF Tasks
<1>1. CASE FanRecv(t)
  <2>1. FanOK'
    <3>1. CASE FanGoto(t, "ended")
      BY <1>0, <3>1, Parts, FanGotoTyped
    <3>2. CASE fan' = [fan EXCEPT ![t].state = "check", ![t].next = @ + 1]
      BY <1>0, <3>2, Parts DEF FanOK
    <3> QED
      BY <1>1, <3>1, <3>2 DEF FanRecv
  <2>2. HolderOK'
    BY <1>0, <1>1, Parts DEF FanRecv, HolderOK
  <2> QED
    BY <1>0, <1>1, <2>1, <2>2, Parts DEF FanRecv, TInv, TypeOK
<1>2. CASE FanCheck(t)
  <2>1. TasksOK'
    BY <1>0, <1>2 DEF FanCheck, FanGoto, TasksOK
  <2> QED
    BY <1>0, <1>2, <2>1 DEF FanCheck, TInv, TypeOK
<1>3. CASE FanLock(t)
  <2>1. TasksOK'
    BY <1>0, <1>3, <1>t DEF FanLock, FanGoto, TasksOK, Nobody
  <2> QED
    BY <1>0, <1>3, <2>1 DEF FanLock, TInv, TypeOK
<1>4. CASE FanWrite(t)
  <2>1. FanOK'
    <3>1. FanGoto(t, "ended") \/ FanGoto(t, "newline") \/ FanGoto(t, "recv")
      BY <1>4 DEF FanWrite
    <3> QED
      BY <1>0, <3>1, Parts, FanGotoTyped
  <2>2. HolderOK'
    BY <1>0, <1>4, <1>t, Parts DEF FanWrite, HolderOK, Nobody
  <2>3. WireOK'
    <3>1. \/ UNCHANGED wire
          \/ wire' = [wire EXCEPT ![t[1]] = Append(@, fan[t].next - 1)]
          \/ wire' = [wire EXCEPT ![t[1]] = Append(@, Newline)]
      BY <1>4 DEF FanWrite
    <3>2. fan[t].next - 1 \in Int /\ Newline \in Int /\ WireOK
      BY <1>0, Parts DEF Newline, FanOK
    <3>3. UNCHANGED wire => WireOK'
      BY <3>2 DEF WireOK
    <3> QED
      BY <1>t, <3>1, <3>2, <3>3, WriteTyped
  <2>4. OpenOK' /\ ReadOK'
    BY <1>0, <1>4, Parts DEF FanWrite, OpenOK, ReadOK
  <2> QED
    BY <1>0, <1>4, <2>1, <2>2, <2>3, <2>4, Parts DEF FanWrite, TInv, TypeOK
<1> QED
  BY <1>1, <1>2, <1>3, <1>4 DEF FanStep

(***************************************************************************)
(* A client that reads or closes leaves the state typed.                   *)
(***************************************************************************)
LEMMA ClientStepsTyped ==
  ASSUME TInv, NEW c \in Conns, ClientRead(c) \/ ClientClose(c)
  PROVE  TInv'
<1>0. BusOK /\ ForwardsReceived /\ ConnsOK /\ ServesRequest /\ TasksOK /\ SocketsOK
  BY DEF TInv, TypeOK
<1>1. SocketsOK'
  <2>1. WireOK'
    BY <1>0, Parts DEF ClientRead, ClientClose, WireOK
  <2>2. ReadOK'
    BY <1>0, Parts DEF ClientRead, ClientClose, ReadOK
  <2>3. OpenOK'
    BY <1>0, Parts DEF ClientRead, ClientClose, OpenOK
  <2> QED
    BY <2>1, <2>2, <2>3, Parts
<1>2. UNCHANGED <<busVars, connVars, taskVars>>
  BY DEF ClientRead, ClientClose
<1> QED
  BY <1>0, <1>1, <1>2, FrameTypes DEF TInv, TypeOK

(***************************************************************************)
(* The types, with what serve_conn and the forwarder know of the request   *)
(* and the event in their hands, are an invariant.                         *)
(***************************************************************************)
LEMMA Typed == Spec => []TInv
<1>1. Init => TInv
  <2> SUFFICES ASSUME Init PROVE TInv
    OBVIOUS
  <2>1. paused \in BOOLEAN
    BY DEF Init
  <2>2. BusOK /\ ForwardsReceived
    BY <2>1 DEF Init, BusOK, ForwardsReceived
  <2>3. ConnsOK /\ ServesRequest
    BY SizesNatural DEF Init, ConnsOK, ServesRequest
  <2>4. TasksOK
    BY SizesNatural DEF Init, TasksOK, Nobody
  <2>5. SocketsOK
    BY DEF Init, SocketsOK
  <2> QED
    BY <2>2, <2>3, <2>4, <2>5 DEF TInv, TypeOK
<1>2. TInv /\ [Next]_vars => TInv'
  <2> SUFFICES ASSUME TInv, [Next]_vars PROVE TInv'
    OBVIOUS
  <2>1. CASE UNCHANGED vars
    BY <2>1, FrameTypes DEF vars, TInv, TypeOK
  <2>2. CASE Next
    BY <2>2, BusStepsTyped, ServeStepsTyped, FanStepsTyped, ClientStepsTyped
       DEF Next
  <2> QED
    BY <2>1, <2>2
<1> QED
  BY <1>1, <1>2, PTL DEF Spec

(***************************************************************************)
(* Type correctness: no task, handler or client leaves the state the       *)
(* channels, connections, fan-out tasks and sockets declare.               *)
(***************************************************************************)
THEOREM TypeCorrect == Spec => []TypeOK
<1>1. TInv => TypeOK
  BY DEF TInv
<1> QED
  BY <1>1, Typed, PTL

-----------------------------------------------------------------------------
(***************************************************************************)
(* Frames stay whole because whoever writes holds the mutex, and because   *)
(* the mutex is released only between frames, or once nothing more can be  *)
(* written.                                                                *)
(***************************************************************************)

\* Whoever is between lock() and the end of its newline holds the mutex.
MutexHeld ==
  /\ \A c \in Conns : step[c] \in {"body", "newline"} <=> holder[c] = Main
  /\ \A t \in Tasks : fan[t].state \in {"body", "newline"} <=> holder[t[1]] = t[2]

\* A connection has at most one fan-out task, and none before it is served.
TasksSpawned ==
  /\ \A c \in Conns : spawned[c] \in {0, 1}
  /\ \A t \in Tasks : t[2] > spawned[t[1]] => fan[t].state = "none"
  /\ \A c \in Conns :
       step[c] = "off" => wire[c] = <<>> /\ spawned[c] = 0 /\ holder[c] = Nobody

EvenWire(c) == open[c] => Len(wire[c]) % 2 = 0
OddWire(c) == open[c] => Len(wire[c]) % 2 = 1

\* A wire that can still be written to holds whole frames, but for the body
\* of a writer that still owes the newline.
Parity ==
  /\ \A c \in Conns : /\ holder[c] = Nobody => EvenWire(c)
                      /\ step[c] = "body" => EvenWire(c)
                      /\ step[c] = "newline" => OddWire(c)
  /\ \A t \in Tasks : /\ fan[t].state = "body" => EvenWire(t[1])
                      /\ fan[t].state = "newline" => OddWire(t[1])

WInv == MutexHeld /\ TasksSpawned /\ Parity /\ FramesWhole

\* A step that leaves the writers, the mutex and the sockets alone.
Quiet ==
  /\ UNCHANGED <<fan, holder, wire, spawned, open>>
  /\ \A c \in Conns : \A s \in {"off", "body", "newline"} : step'[c] = s <=> step[c] = s

(***************************************************************************)
(* Every action but those of the writers, Accept, Arm and ClientClose is   *)
(* quiet.                                                                  *)
(***************************************************************************)
LEMMA QuietSteps ==
  ASSUME TInv
  PROVE  /\ UNCHANGED vars => Quiet
         /\ (\E m \in ApprovalMethods : Emit(m)) \/ FwdRecv \/ FwdSend => Quiet
         /\ \A c \in Conns :
              (\/ Eof(c) \/ SetFilter(c) \/ Handle(c) \/ StorePaused(c)
               \/ NotifyPaused(c) \/ ClientRead(c) \/ \E r \in Request : ReadLine(c, r))
              => Quiet
<1>0. step \in [Conns -> {"off", "read", "filter", "arm", "handle", "notify",
                          "reply", "body", "newline", "closed"}]
  BY DEF TInv, TypeOK, ConnsOK
<1>1. UNCHANGED vars => Quiet
  BY DEF vars, connVars, taskVars, sockVars, Quiet
<1>2. (\E m \in ApprovalMethods : Emit(m)) \/ FwdRecv \/ FwdSend => Quiet
  BY DEF Emit, FwdRecv, FwdSend, connVars, taskVars, sockVars, Quiet
<1>3. ASSUME NEW c \in Conns,
             \/ Eof(c) \/ SetFilter(c) \/ Handle(c) \/ StorePaused(c)
             \/ NotifyPaused(c) \/ ClientRead(c) \/ \E r \in Request : ReadLine(c, r)
      PROVE  Quiet
  <2>1. UNCHANGED <<fan, holder, wire, spawned, open>>
    BY <1>3 DEF Eof, SetFilter, Handle, StorePaused, NotifyPaused, ClientRead,
                ReadLine, connVars, taskVars, sockVars
  <2>2. CASE UNCHANGED step
    BY <2>1, <2>2 DEF Quiet
  <2>3. CASE /\ step[c] \notin {"off", "body", "newline"}
             /\ \E s \in {"read", "filter", "arm", "handle", "notify", "reply", "closed"} :
                  step' = [step EXCEPT ![c] = s]
    BY <1>0, <2>1, <2>3 DEF Quiet
  <2>4. UNCHANGED step \/
          (/\ step[c] \notin {"off", "body", "newline"}
           /\ \E s \in {"read", "filter", "arm", "handle", "notify", "reply", "closed"} :
                  step' = [step EXCEPT ![c] = s])
    BY <1>3 DEF Eof, SetFilter, Handle, StorePaused, NotifyPaused, ClientRead,
                ReadLine, connVars
  <2> QED
    BY <2>2, <2>3, <2>4
<1> QED
  BY <1>1, <1>2, <1>3

(***************************************************************************)
(* Quiet steps keep the invariant.                                         *)
(***************************************************************************)
LEMMA QuietKeeps ==
  ASSUME WInv, Quiet
  PROVE  WInv'
<1>1. MutexHeld'
  BY DEF WInv, MutexHeld, Quiet
<1>2. TasksSpawned'
  BY DEF WInv, TasksSpawned, Quiet
<1>3. Parity'
  BY DEF WInv, Parity, EvenWire, OddWire, Quiet
<1>4. FramesWhole'
  BY DEF WInv, FramesWhole, Quiet
<1> QED
  BY <1>1, <1>2, <1>3, <1>4 DEF WInv

(***************************************************************************)
(* What the name of a fan-out task says, and that no two writers of a      *)
(* connection hold its mutex under the same name.                          *)
(***************************************************************************)
LEMMA TaskNames ==
  /\ \A t \in Tasks : t[1] \in Conns /\ t[2] \in 1 .. MaxRequests /\ t[2] # Main /\ t[2] # Nobody
  /\ \A c \in Conns : <<c, 1>> \in Tasks
  /\ \A t, u \in Tasks : t[1] = u[1] /\ t[2] = u[2] => t = u
  /\ Main # Nobody
BY SizesNatural DEF Tasks, Main, Nobody

(***************************************************************************)
(* Accept, ClientClose, Arm and the steps of a fan-out task before it      *)
(* writes keep the invariant: they write nothing and move no holder.       *)
(***************************************************************************)
LEMMA OtherKeeps ==
  ASSUME TInv, WInv,
         \/ \E c \in Conns : Accept(c) \/ ClientClose(c) \/ Arm(c)
         \/ \E t \in Tasks : FanRecv(t) \/ FanCheck(t)
  PROVE  WInv'
<1> USE TaskNames
<1>0. /\ step \in [Conns -> {"off", "read", "filter", "arm", "handle", "notify",
                             "reply", "body", "newline", "closed"}]
      /\ spawned \in [Conns -> 0 .. MaxRequests]
      /\ FanOK /\ HolderOK /\ OpenOK /\ WireOK
  BY Parts DEF TInv, TypeOK, ConnsOK
<1>w. MutexHeld /\ TasksSpawned /\ Parity /\ FramesWhole
  BY DEF WInv
<1>1. UNCHANGED <<wire, holder>>
  BY DEF Accept, ClientClose, Arm, FanRecv, FanCheck, taskVars, sockVars
<1>2. FramesWhole'
  BY <1>1, <1>w DEF FramesWhole
<1>3. ASSUME NEW c \in Conns, Accept(c)
      PROVE  WInv'
  <2>1. UNCHANGED <<fan, spawned>> /\ step[c] = "off" /\ step' = [step EXCEPT ![c] = "read"]
    BY <1>3 DEF Accept, taskVars
  <2>2. MutexHeld'
    BY <1>0, <1>1, <1>w, <2>1 DEF MutexHeld
  <2>3. TasksSpawned'
    BY <1>0, <1>1, <1>w, <2>1 DEF TasksSpawned
  <2>4. wire[c] = <<>> /\ holder[c] = Nobody
    BY <1>w, <2>1 DEF TasksSpawned
  <2>5. \A d \in Conns : d # c => open'[d] = open[d]
    BY <1>0, <1>3 DEF Accept, OpenOK
  <2>6. EvenWire(c)'
    BY <1>1, <2>4 DEF EvenWire
  <2>7. Parity'
    <3>1. \A t \in Tasks : t[1] = c => fan[t].state \notin {"body", "newline"}
      BY <1>w, <2>4 DEF MutexHeld
    <3> QED
      BY <1>0, <1>1, <1>w, <2>1, <2>5, <2>6, <3>1 DEF Parity, EvenWire, OddWire
  <2> QED
    BY <1>2, <2>2, <2>3, <2>7 DEF WInv
<1>4. ASSUME NEW c \in Conns, ClientClose(c)
      PROVE  WInv'
  <2>1. UNCHANGED <<fan, spawned, step>>
    BY <1>4 DEF ClientClose, taskVars, connVars
  <2>2. MutexHeld' /\ TasksSpawned'
    BY <1>1, <1>w, <2>1 DEF MutexHeld, TasksSpawned
  <2>3. \A d \in Conns : open'[d] => open[d]
    BY <1>0, <1>4 DEF ClientClose, OpenOK
  <2>4. Parity'
    BY <1>1, <1>w, <2>1, <2>3 DEF Parity, EvenWire, OddWire
  <2> QED
    BY <1>2, <2>2, <2>4 DEF WInv
<1>5. ASSUME NEW c \in Conns, Arm(c)
      PROVE  WInv'
  <2>1. UNCHANGED open /\ step[c] = "arm" /\ step' = [step EXCEPT ![c] = "reply"]
    BY <1>5 DEF Arm, sockVars
  <2>2. \A d \in Conns : /\ step'[d] \in {"body", "newline"} <=> step[d] \in {"body", "newline"}
                         /\ step'[d] = "body" <=> step[d] = "body"
                         /\ step'[d] = "newline" <=> step[d] = "newline"
                         /\ step'[d] = "off" => step[d] = "off" /\ d # c
    BY <1>0, <2>1
  <2>3. CASE UNCHANGED <<fan, spawned>>
    <3>1. MutexHeld'
      BY <1>1, <1>w, <2>2, <2>3 DEF MutexHeld
    <3>2. TasksSpawned'
      BY <1>1, <1>w, <2>2, <2>3 DEF TasksSpawned
    <3>3. Parity'
      BY <1>1, <1>w, <2>1, <2>2, <2>3 DEF Parity, EvenWire, OddWire
    <3> QED
      BY <1>2, <3>1, <3>2, <3>3 DEF WInv
  <2>4. CASE /\ spawned[c] = 0
             /\ spawned' = [spawned EXCEPT ![c] = 1]
             /\ fan' = [fan EXCEPT ![<<c, 1>>] =
                  [state |-> "recv", start |-> Len(sent) + 1, next |-> Len(sent) + 1]]
    <3>1. fan[<<c, 1>>].state = "none"
      BY <1>w, <2>4 DEF TasksSpawned
    <3>2. fan'[<<c, 1>>].state = "recv" /\ \A t \in Tasks : t # <<c, 1>> => fan'[t] = fan[t]
      BY <1>0, <2>4 DEF FanOK
    <3>3. spawned'[c] = 1 /\ \A d \in Conns : d # c => spawned'[d] = spawned[d]
      BY <1>0, <2>4
    <3>4. MutexHeld'
      BY <1>1, <1>w, <2>2, <3>1, <3>2 DEF MutexHeld
    <3>5. TasksSpawned'
      BY <1>1, <1>w, <2>2, <2>4, <3>2, <3>3 DEF TasksSpawned
    <3>6. Parity'
      <4>1. \A u \in Tasks : \A s \in {"body", "newline"} :
              fan'[u].state = s => fan[u].state = s
        BY <3>2
      <4> QED
        BY <1>1, <1>w, <2>1, <2>2, <4>1 DEF Parity, EvenWire, OddWire
    <3> QED
      BY <1>2, <3>4, <3>5, <3>6 DEF WInv
  <2> QED
    BY <1>5, <2>3, <2>4 DEF Arm
<1>6. ASSUME NEW t \in Tasks, FanRecv(t) \/ FanCheck(t)
      PROVE  WInv'
  <2>1. UNCHANGED <<step, spawned, open>> /\ fan[t].state \in {"recv", "check"}
    BY <1>6 DEF FanRecv, FanCheck, connVars, sockVars
  <2>2. /\ fan'[t].state \in {"recv", "check", "lock", "ended"}
        /\ \A u \in Tasks : u # t => fan'[u] = fan[u]
    BY <1>0, <1>6 DEF FanRecv, FanCheck, FanGoto, FanOK
  <2>3. MutexHeld'
    BY <1>1, <1>w, <2>1, <2>2 DEF MutexHeld
  <2>4. TasksSpawned'
    BY <1>1, <1>w, <2>1, <2>2 DEF TasksSpawned
  <2>5. Parity'
    BY <1>1, <1>w, <2>1, <2>2 DEF Parity, EvenWire, OddWire
  <2> QED
    BY <1>2, <2>3, <2>4, <2>5 DEF WInv
<1> QED
  BY <1>3, <1>4, <1>5, <1>6

(***************************************************************************)
(* One more chunk changes the parity of a wire.                            *)
(***************************************************************************)
LEMMA Parities ==
  \A n \in Nat : (n % 2 = 1 <=> (n + 1) % 2 = 0) /\ (n % 2 = 0 <=> (n + 1) % 2 = 1)
OBVIOUS

(***************************************************************************)
(* A wire of whole frames is not one that ends in a body.                  *)
(***************************************************************************)
LEMMA EvenNotOdd == \A n \in Nat : n % 2 = 0 => n % 2 # 1
OBVIOUS

(***************************************************************************)
(* A write appends one chunk; frames stay whole when it is a newline       *)
(* exactly if a body comes before it.                                      *)
(***************************************************************************)
LEMMA ChunkWritten ==
  ASSUME WireOK, FramesWhole, NEW c \in Conns, NEW x \in Int,
         x = Newline <=> Len(wire[c]) % 2 = 1,
         wire' = [wire EXCEPT ![c] = Append(@, x)]
  PROVE  /\ FramesWhole'
         /\ Len(wire'[c]) = Len(wire[c]) + 1
         /\ \A d \in Conns : d # c => wire'[d] = wire[d]
<1>1. /\ wire'[c] = Append(wire[c], x)
      /\ \A d \in Conns : d # c => wire'[d] = wire[d]
      /\ wire[c] \in Seq(Int)
  BY DEF WireOK
<1>2. /\ Len(wire'[c]) = Len(wire[c]) + 1
      /\ DOMAIN wire'[c] = 1 .. Len(wire[c]) + 1
      /\ \A k \in DOMAIN wire[c] : wire'[c][k] = wire[c][k]
      /\ wire'[c][Len(wire[c]) + 1] = x
      /\ DOMAIN wire[c] = 1 .. Len(wire[c]) /\ Len(wire[c]) \in Nat
  BY <1>1
<1>3. x = Newline <=> (Len(wire[c]) + 1) % 2 = 0
  BY <1>2, Parities
<1>4. ASSUME NEW d \in Conns, NEW k \in DOMAIN wire'[d]
      PROVE  wire'[d][k] = Newline <=> k % 2 = 0
  <2>1. CASE d # c
    BY <1>1, <1>4, <2>1 DEF FramesWhole
  <2>2. CASE d = c /\ k \in DOMAIN wire[c]
    BY <1>2, <2>2 DEF FramesWhole
  <2>3. CASE d = c /\ k = Len(wire[c]) + 1
    BY <1>2, <1>3, <2>3
  <2> QED
    BY <1>2, <2>1, <2>2, <2>3
<1> QED
  BY <1>1, <1>2, <1>4 DEF FramesWhole

(***************************************************************************)
(* Taking the mutex keeps the invariant: it is free only between frames.   *)
(***************************************************************************)
LEMMA LockKeeps ==
  ASSUME TInv, WInv,
         \/ \E c \in Conns : LockReply(c)
         \/ \E t \in Tasks : FanLock(t)
  PROVE  WInv'
<1> USE TaskNames
<1>0. /\ step \in [Conns -> {"off", "read", "filter", "arm", "handle", "notify",
                             "reply", "body", "newline", "closed"}]
      /\ FanOK /\ HolderOK
  BY Parts DEF TInv, TypeOK, ConnsOK
<1>w. MutexHeld /\ TasksSpawned /\ Parity /\ FramesWhole
  BY DEF WInv
<1>1. UNCHANGED <<wire, open, spawned>>
  BY DEF LockReply, FanLock, sockVars, connVars
<1>2. FramesWhole'
  BY <1>1, <1>w DEF FramesWhole
<1>3. ASSUME NEW c \in Conns, LockReply(c)
      PROVE  WInv'
  <2>1. /\ UNCHANGED fan /\ step[c] = "reply" /\ step'[c] = "body"
        /\ holder[c] = Nobody /\ holder'[c] = Main
        /\ \A d \in Conns : d # c => step'[d] = step[d] /\ holder'[d] = holder[d]
    BY <1>0, <1>3 DEF LockReply, HolderOK
  <2>2. MutexHeld'
    BY <1>w, <2>1 DEF MutexHeld
  <2>3. TasksSpawned'
    BY <1>1, <1>w, <2>1 DEF TasksSpawned
  <2>4. Parity'
    <3>1. \A d \in Conns : (EvenWire(d)' <=> EvenWire(d)) /\ (OddWire(d)' <=> OddWire(d))
      BY <1>1 DEF EvenWire, OddWire
    <3>2. \A d \in Conns : holder'[d] = Nobody => holder[d] = Nobody
      BY <2>1
    <3>3. EvenWire(c)
      BY <1>w, <2>1 DEF Parity
    <3> QED
      BY <1>w, <2>1, <3>1, <3>2, <3>3 DEF Parity
  <2> QED
    BY <1>2, <2>2, <2>3, <2>4 DEF WInv
<1>4. ASSUME NEW t \in Tasks, FanLock(t)
      PROVE  WInv'
  <2>1. /\ UNCHANGED step /\ fan[t].state = "lock" /\ fan'[t].state = "body"
        /\ holder[t[1]] = Nobody /\ holder'[t[1]] = t[2]
        /\ \A d \in Conns : d # t[1] => holder'[d] = holder[d]
        /\ \A u \in Tasks : u # t => fan'[u] = fan[u]
    BY <1>0, <1>4 DEF FanLock, FanGoto, HolderOK, FanOK, connVars
  <2>2. MutexHeld'
    <3>1. step[t[1]] \notin {"body", "newline"}
      BY <1>w, <2>1 DEF MutexHeld
    <3>2. \A u \in Tasks : u # t /\ u[1] = t[1] =>
            /\ fan[u].state \notin {"body", "newline"}
            /\ holder'[u[1]] # u[2]
      BY <1>w, <2>1 DEF MutexHeld
    <3>3. \A c \in Conns : step'[c] \in {"body", "newline"} <=> holder'[c] = Main
      BY <1>w, <2>1, <3>1 DEF MutexHeld
    <3>4. \A u \in Tasks : fan'[u].state \in {"body", "newline"} <=> holder'[u[1]] = u[2]
      BY <1>w, <2>1, <3>2 DEF MutexHeld
    <3> QED
      BY <3>3, <3>4 DEF MutexHeld
  <2>3. TasksSpawned'
    <3>1. step[t[1]] # "off"
      BY <1>w, <2>1 DEF TasksSpawned
    <3> QED
      BY <1>1, <1>w, <2>1, <3>1 DEF TasksSpawned
  <2>4. Parity'
    <3>1. \A u \in Tasks : \A s \in {"body", "newline"} :
            u # t /\ fan'[u].state = s => fan[u].state = s
      BY <2>1
    <3>2. EvenWire(t[1])
      BY <1>w, <2>1 DEF Parity
    <3>3. \A d \in Conns : (EvenWire(d)' <=> EvenWire(d)) /\ (OddWire(d)' <=> OddWire(d))
      BY <1>1 DEF EvenWire, OddWire
    <3>4. \A d \in Conns : holder'[d] = Nobody => holder[d] = Nobody
      BY <2>1
    <3> QED
      BY <1>w, <2>1, <3>1, <3>2, <3>3, <3>4 DEF Parity
  <2> QED
    BY <1>2, <2>2, <2>3, <2>4 DEF WInv
<1> QED
  BY <1>3, <1>4

(***************************************************************************)
(* serve_conn's writes keep the invariant: no fan-out task is in a frame.  *)
(***************************************************************************)
LEMMA WriteReplyKeeps ==
  ASSUME TInv, WInv, NEW c \in Conns, WriteReply(c)
  PROVE  WInv'
<1> USE TaskNames
<1>0. /\ step \in [Conns -> {"off", "read", "filter", "arm", "handle", "notify",
                             "reply", "body", "newline", "closed"}]
      /\ FanOK /\ HolderOK /\ WireOK
  BY Parts DEF TInv, TypeOK, ConnsOK
<1>w. MutexHeld /\ TasksSpawned /\ Parity /\ FramesWhole
  BY DEF WInv
<1>1. UNCHANGED <<fan, open, spawned>> /\ step[c] \in {"body", "newline"}
  BY DEF WriteReply
<1>2. holder[c] = Main
  BY <1>1, <1>w DEF MutexHeld
<1>3. \A t \in Tasks : t[1] = c => fan[t].state \notin {"body", "newline"} /\ holder[c] # t[2]
  BY <1>2, <1>w DEF MutexHeld
<1>4. \A d \in Conns : d # c => step'[d] = step[d] /\ holder'[d] = holder[d] /\ wire'[d] = wire[d]
  BY <1>0 DEF WriteReply, HolderOK, WireOK
<1>5. step'[c] # "off"
  BY <1>0 DEF WriteReply
<1>6. TasksSpawned'
  BY <1>1, <1>4, <1>5, <1>w DEF TasksSpawned
<1>7. \A d \in Conns : d # c => (EvenWire(d)' <=> EvenWire(d)) /\ (OddWire(d)' <=> OddWire(d))
  BY <1>1, <1>4 DEF EvenWire, OddWire
<1>8. CASE /\ ~open[c]
           /\ \/ step' = [step EXCEPT ![c] = "closed"]
              \/ step' = [step EXCEPT ![c] = "read"]
           /\ holder' = [holder EXCEPT ![c] = Nobody]
           /\ UNCHANGED wire
  <2>1. step'[c] \in {"read", "closed"} /\ holder'[c] = Nobody
    BY <1>0, <1>8 DEF HolderOK
  <2>2. MutexHeld'
    BY <1>1, <1>3, <1>4, <1>w, <2>1 DEF MutexHeld
  <2>3. EvenWire(c)' /\ OddWire(c)'
    BY <1>1, <1>8 DEF EvenWire, OddWire
  <2>4. Parity'
    BY <1>1, <1>4, <1>7, <1>w, <2>1, <2>3 DEF Parity
  <2>5. FramesWhole'
    BY <1>8, <1>w DEF FramesWhole
  <2> QED
    BY <1>6, <2>2, <2>4, <2>5 DEF WInv
<1>9. CASE /\ open[c] /\ step[c] = "body"
           /\ wire' = [wire EXCEPT ![c] = Append(@, 0)]
           /\ step' = [step EXCEPT ![c] = "newline"]
           /\ UNCHANGED holder
  <2>1. step'[c] = "newline" /\ holder'[c] = Main
    BY <1>0, <1>2, <1>9
  <2>2. MutexHeld'
    BY <1>1, <1>3, <1>4, <1>w, <2>1 DEF MutexHeld
  <2>3. Len(wire[c]) \in Nat /\ Len(wire[c]) % 2 = 0 /\ Len(wire[c]) % 2 # 1
    BY <1>0, <1>9, <1>w DEF Parity, EvenWire, WireOK
  <2>4. 0 \in Int /\ 0 # Newline
    BY DEF Newline
  <2>5. FramesWhole' /\ Len(wire'[c]) = Len(wire[c]) + 1
    BY <1>0, <1>9, <1>w, <2>3, <2>4, ChunkWritten
  <2>6. OddWire(c)'
    BY <2>3, <2>5, Parities DEF OddWire
  <2>7. Parity'
    BY <1>1, <1>3, <1>4, <1>7, <1>w, <2>1, <2>6 DEF Parity
  <2> QED
    BY <1>6, <2>2, <2>5, <2>7 DEF WInv
<1>10. CASE /\ open[c] /\ step[c] = "newline"
            /\ wire' = [wire EXCEPT ![c] = Append(@, Newline)]
            /\ step' = [step EXCEPT ![c] = "read"]
            /\ holder' = [holder EXCEPT ![c] = Nobody]
  <2>1. step'[c] = "read" /\ holder'[c] = Nobody
    BY <1>0, <1>10 DEF HolderOK
  <2>2. MutexHeld'
    BY <1>1, <1>3, <1>4, <1>w, <2>1 DEF MutexHeld
  <2>3. Len(wire[c]) \in Nat /\ Len(wire[c]) % 2 = 1
    BY <1>0, <1>10, <1>w DEF Parity, OddWire, WireOK
  <2>4. Newline \in Int
    BY DEF Newline
  <2>5. FramesWhole' /\ Len(wire'[c]) = Len(wire[c]) + 1
    BY <1>0, <1>10, <1>w, <2>3, <2>4, ChunkWritten
  <2>6. EvenWire(c)'
    BY <2>3, <2>5, Parities DEF EvenWire
  <2>7. Parity'
    BY <1>1, <1>3, <1>4, <1>7, <1>w, <2>1, <2>6 DEF Parity
  <2> QED
    BY <1>6, <2>2, <2>5, <2>7 DEF WInv
<1> QED
  <2>1. CASE ~open[c]
    <3>1. \/ step' = [step EXCEPT ![c] = "closed"]
          \/ step' = [step EXCEPT ![c] = "read"]
      <4>1. CASE req[c].kind = "malformed"
        BY <2>1, <4>1 DEF WriteReply
      <4>2. CASE req[c].kind # "malformed"
        BY <2>1, <4>2 DEF WriteReply
      <4> QED
        BY <4>1, <4>2
    <3> QED
      BY <1>8, <2>1, <3>1 DEF WriteReply
  <2>2. CASE open[c]
    BY <1>9, <1>10, <2>2 DEF WriteReply
  <2> QED
    BY <2>1, <2>2

(***************************************************************************)
(* A fan-out task's writes keep the invariant: neither serve_conn nor      *)
(* another task of the connection is in a frame.                           *)
(***************************************************************************)
LEMMA FanWriteKeeps ==
  ASSUME TInv, WInv, NEW t \in Tasks, FanWrite(t)
  PROVE  WInv'
<1> USE TaskNames
<1> DEFINE c == t[1]
<1>c. c \in Conns
  OBVIOUS
<1>0. FanOK /\ HolderOK /\ WireOK
  BY Parts DEF TInv, TypeOK
<1>w. MutexHeld /\ TasksSpawned /\ Parity /\ FramesWhole
  BY DEF WInv
<1>1. UNCHANGED <<step, open, spawned>> /\ fan[t].state \in {"body", "newline"}
  BY DEF FanWrite, connVars
<1>2. holder[c] = t[2]
  BY <1>1, <1>w DEF MutexHeld
<1>3. /\ step[c] \notin {"off", "body", "newline"} /\ holder[c] # Main
      /\ \A u \in Tasks : u # t /\ u[1] = c =>
           fan[u].state \notin {"body", "newline"} /\ holder[c] # u[2]
  BY <1>2, <1>w DEF MutexHeld, TasksSpawned
<1>4. \A d \in Conns : d # c => holder'[d] = holder[d] /\ wire'[d] = wire[d]
  BY <1>0 DEF FanWrite, HolderOK, WireOK
<1>5. /\ \A u \in Tasks : u # t => fan'[u] = fan[u]
      /\ \A s \in {"ended", "newline", "recv"} : FanGoto(t, s) => fan'[t].state = s
  BY <1>0 DEF FanWrite, FanGoto, FanOK
<1>6. TasksSpawned'
  BY <1>1, <1>3, <1>4, <1>5, <1>w DEF TasksSpawned
<1>7. \A d \in Conns : d # c => (EvenWire(d)' <=> EvenWire(d)) /\ (OddWire(d)' <=> OddWire(d))
  BY <1>1, <1>4 DEF EvenWire, OddWire
<1> HIDE DEF c
<1>8. CASE /\ ~open[c] /\ FanGoto(t, "ended")
           /\ holder' = [holder EXCEPT ![c] = Nobody]
           /\ UNCHANGED wire
  <2>1. fan'[t].state = "ended" /\ holder'[c] = Nobody
    BY <1>0, <1>5, <1>8, <1>c DEF HolderOK
  <2>2. MutexHeld'
    BY <1>1, <1>3, <1>4, <1>5, <1>w, <2>1 DEF MutexHeld, c
  <2>3. EvenWire(c)' /\ OddWire(c)'
    BY <1>1, <1>8 DEF EvenWire, OddWire
  <2>4. Parity'
    BY <1>1, <1>3, <1>4, <1>5, <1>7, <1>w, <2>1, <2>3 DEF Parity
  <2>5. FramesWhole'
    BY <1>8, <1>w DEF FramesWhole
  <2> QED
    BY <1>6, <2>2, <2>4, <2>5 DEF WInv
<1>9. CASE /\ open[c] /\ fan[t].state = "body"
           /\ wire' = [wire EXCEPT ![c] = Append(@, fan[t].next - 1)]
           /\ FanGoto(t, "newline")
           /\ UNCHANGED holder
  <2>1. fan'[t].state = "newline" /\ holder'[c] = t[2]
    BY <1>2, <1>5, <1>9
  <2>2. MutexHeld'
    BY <1>1, <1>3, <1>4, <1>5, <1>w, <2>1 DEF MutexHeld, c
  <2>3. Len(wire[c]) \in Nat /\ Len(wire[c]) % 2 = 0 /\ Len(wire[c]) % 2 # 1
    <3>1. EvenWire(c)
      BY <1>9, <1>w DEF Parity, c
    <3>2. Len(wire[c]) \in Nat
      BY <1>0, <1>c DEF WireOK
    <3> QED
      <4>1. open[c]
        BY <1>9
      <4>2. Len(wire[c]) % 2 = 0
        BY <3>1, <4>1 DEF EvenWire
      <4> QED
        BY <3>2, <4>2, EvenNotOdd
  <2>4. fan[t].next - 1 \in Int /\ fan[t].next - 1 # Newline
    BY <1>0 DEF Newline, FanOK
  <2>5. FramesWhole' /\ Len(wire'[c]) = Len(wire[c]) + 1
    BY <1>0, <1>9, <1>c, <1>w, <2>3, <2>4, ChunkWritten
  <2>6. OddWire(c)'
    BY <2>3, <2>5, Parities DEF OddWire
  <2>7. Parity'
    BY <1>1, <1>3, <1>4, <1>5, <1>7, <1>w, <2>1, <2>6 DEF Parity, c
  <2> QED
    BY <1>6, <2>2, <2>5, <2>7 DEF WInv
<1>10. CASE /\ open[c] /\ fan[t].state = "newline"
            /\ wire' = [wire EXCEPT ![c] = Append(@, Newline)]
            /\ FanGoto(t, "recv")
            /\ holder' = [holder EXCEPT ![c] = Nobody]
  <2>1. fan'[t].state = "recv" /\ holder'[c] = Nobody
    BY <1>0, <1>5, <1>10, <1>c DEF HolderOK
  <2>2. MutexHeld'
    BY <1>1, <1>3, <1>4, <1>5, <1>w, <2>1 DEF MutexHeld, c
  <2>3. Len(wire[c]) \in Nat /\ Len(wire[c]) % 2 = 1
    <3>1. OddWire(c)
      BY <1>10, <1>w DEF Parity, c
    <3>2. Len(wire[c]) \in Nat
      BY <1>0, <1>c DEF WireOK
    <3> QED
      BY <1>10, <3>1, <3>2 DEF OddWire
  <2>4. Newline \in Int
    BY DEF Newline
  <2>5. FramesWhole' /\ Len(wire'[c]) = Len(wire[c]) + 1
    BY <1>0, <1>10, <1>c, <1>w, <2>3, <2>4, ChunkWritten
  <2>6. EvenWire(c)'
    BY <2>3, <2>5, Parities DEF EvenWire
  <2>7. Parity'
    BY <1>1, <1>3, <1>4, <1>5, <1>7, <1>w, <2>1, <2>6 DEF Parity, c
  <2> QED
    BY <1>6, <2>2, <2>5, <2>7 DEF WInv
<1> QED
  BY <1>8, <1>9, <1>10 DEF FanWrite, c

(***************************************************************************)
(* The invariant of the wires holds in every reachable state.              *)
(***************************************************************************)
LEMMA Wires == Spec => []WInv
<1>1. Init => WInv
  <2> SUFFICES ASSUME Init PROVE WInv
    OBVIOUS
  <2>1. MutexHeld
    BY TaskNames DEF Init, MutexHeld
  <2>2. TasksSpawned
    BY TaskNames DEF Init, TasksSpawned
  <2>3. Parity
    BY TaskNames DEF Init, Parity, EvenWire, OddWire
  <2>4. FramesWhole
    BY DEF Init, FramesWhole
  <2> QED
    BY <2>1, <2>2, <2>3, <2>4 DEF WInv
<1>2. TInv /\ WInv /\ [Next]_vars => WInv'
  <2> SUFFICES ASSUME TInv, WInv, [Next]_vars PROVE WInv'
    OBVIOUS
  <2>1. CASE Quiet
    BY <2>1, QuietKeeps
  <2>2. ASSUME NEW c \in Conns,
               \/ Accept(c) \/ LockReply(c) \/ ServeStep(c) \/ ClientRead(c)
               \/ ClientClose(c) \/ \E r \in Request : ReadLine(c, r)
        PROVE  WInv'
    <3>1. CASE Accept(c) \/ ClientClose(c) \/ Arm(c)
      BY <3>1, OtherKeeps
    <3>2. CASE LockReply(c)
      BY <3>2, LockKeeps
    <3>3. CASE WriteReply(c)
      BY <3>3, WriteReplyKeeps
    <3>4. CASE \/ Eof(c) \/ SetFilter(c) \/ Handle(c) \/ StorePaused(c)
               \/ NotifyPaused(c) \/ ClientRead(c) \/ \E r \in Request : ReadLine(c, r)
      <4>1. Quiet
        BY <3>4, QuietSteps
      <4> QED
        BY <2>1, <4>1
    <3> QED
      BY <2>2, <3>1, <3>2, <3>3, <3>4 DEF ServeStep
  <2>3. ASSUME NEW t \in Tasks, FanLock(t) \/ FanStep(t)
        PROVE  WInv'
    BY <2>3, OtherKeeps, LockKeeps, FanWriteKeeps DEF FanStep
  <2> QED
    BY <2>1, <2>2, <2>3, QuietSteps DEF Next
<1> QED
  BY <1>1, <1>2, Typed, PTL DEF Spec

(***************************************************************************)
(* Frame integrity: for any number of connections, requests, events and    *)
(* any capacities, a response and a notification never interleave on a     *)
(* socket, although serve_conn and its fan-out task write each frame with  *)
(* two separate write_all calls.                                           *)
(***************************************************************************)
THEOREM FramesNeverInterleave == Spec => []FramesWhole
<1>1. WInv => FramesWhole
  BY DEF WInv
<1> QED
  BY <1>1, Wires, PTL

-----------------------------------------------------------------------------
(***************************************************************************)
(* Notifications stay in order because a connection has one fan-out task,  *)
(* whose receipts only grow and which writes each of them at most once.    *)
(***************************************************************************)

\* No notification on the wire w is later than the n-th.
UpTo(w, n) == \A k \in DOMAIN w : w[k] > 0 => w[k] <= n

\* What the fan-out task has received and not yet written is later than
\* every notification on the wire.
Ahead ==
  \A c \in Conns :
    /\ fan[<<c, 1>>].state = "none" => UpTo(wire[c], 0)
    /\ fan[<<c, 1>>].state \in {"recv", "newline"} => UpTo(wire[c], fan[<<c, 1>>].next - 1)
    /\ fan[<<c, 1>>].state \in {"check", "lock", "body"} => UpTo(wire[c], fan[<<c, 1>>].next - 2)

OInv == Ahead /\ InOrderOnce

(***************************************************************************)
(* A chunk later than every notification on the wire, or no notification   *)
(* at all, leaves the wire in order.                                       *)
(***************************************************************************)
LEMMA ChunkInOrder ==
  ASSUME WireOK, InOrderOnce, NEW c \in Conns, NEW x \in Int,
         x <= 0 \/ UpTo(wire[c], x - 1),
         wire' = [wire EXCEPT ![c] = Append(@, x)]
  PROVE  /\ InOrderOnce'
         /\ \A d \in Conns : d # c => wire'[d] = wire[d]
         /\ \A n \in Int : UpTo(wire[c], n) /\ (x <= 0 \/ x <= n) => UpTo(wire'[c], n)
<1>1. /\ wire'[c] = Append(wire[c], x)
      /\ \A d \in Conns : d # c => wire'[d] = wire[d]
      /\ wire[c] \in Seq(Int)
  BY DEF WireOK
<1>2. /\ DOMAIN wire'[c] = 1 .. Len(wire[c]) + 1
      /\ \A k \in DOMAIN wire[c] : wire'[c][k] = wire[c][k] /\ wire[c][k] \in Int
      /\ wire'[c][Len(wire[c]) + 1] = x
      /\ DOMAIN wire[c] = 1 .. Len(wire[c]) /\ Len(wire[c]) \in Nat
  BY <1>1
<1>3. ASSUME NEW d \in Conns, NEW j \in DOMAIN wire'[d], NEW k \in DOMAIN wire'[d],
             j < k, wire'[d][j] > 0, wire'[d][k] > 0
      PROVE  wire'[d][j] < wire'[d][k]
  <2>1. CASE d # c
    BY <1>1, <1>3, <2>1 DEF InOrderOnce
  <2>2. CASE d = c /\ k \in DOMAIN wire[c]
    <3>1. j \in DOMAIN wire[c]
      BY <1>2, <1>3, <2>2
    <3> QED
      BY <1>2, <1>3, <2>2, <3>1 DEF InOrderOnce
  <2>3. CASE d = c /\ k = Len(wire[c]) + 1
    <3>1. j \in DOMAIN wire[c]
      BY <1>2, <1>3, <2>3
    <3>2. wire[c][j] <= x - 1
      BY <1>2, <1>3, <2>3, <3>1 DEF UpTo
    <3> QED
      BY <1>2, <2>3, <3>1, <3>2
  <2> QED
    BY <1>2, <2>1, <2>2, <2>3
<1>4. \A n \in Int : UpTo(wire[c], n) /\ (x <= 0 \/ x <= n) => UpTo(wire'[c], n)
  BY <1>2 DEF UpTo
<1> QED
  BY <1>1, <1>3, <1>4 DEF InOrderOnce

(***************************************************************************)
(* Every step keeps the order.                                             *)
(***************************************************************************)
LEMMA OrderKept ==
  ASSUME TInv, WInv, OInv, [Next]_vars
  PROVE  OInv'
<1> USE TaskNames
<1>0. /\ FanOK /\ WireOK /\ Ahead /\ InOrderOnce /\ TasksSpawned
      /\ sent \in Seq(Method)
  BY Parts DEF TInv, TypeOK, BusOK, WInv, OInv
<1>1. CASE UNCHANGED <<fan, wire>>
  BY <1>0, <1>1 DEF OInv, Ahead, UpTo, InOrderOnce
<1>2. ASSUME NEW c \in Conns, Arm(c)
      PROVE  OInv'
  <2>1. UNCHANGED wire
    BY <1>2 DEF Arm, sockVars
  <2>2. CASE UNCHANGED fan
    BY <1>1, <2>1, <2>2
  <2>3. CASE /\ spawned[c] = 0
             /\ fan' = [fan EXCEPT ![<<c, 1>>] =
                  [state |-> "recv", start |-> Len(sent) + 1, next |-> Len(sent) + 1]]
    <3>1. /\ fan'[<<c, 1>>].state = "recv" /\ fan'[<<c, 1>>].next = Len(sent) + 1
          /\ \A d \in Conns : d # c => fan'[<<d, 1>>] = fan[<<d, 1>>]
      BY <1>0, <2>3 DEF FanOK
    <3>2. fan[<<c, 1>>].state = "none"
      BY <1>0, <2>3 DEF TasksSpawned
    <3>3. UpTo(wire[c], 0)
      BY <1>0, <3>2 DEF Ahead
    <3>4. wire[c] \in Seq(Int) /\ Len(sent) \in Nat
      BY <1>0 DEF WireOK
    <3>5. UpTo(wire'[c], Len(sent))
      BY <2>1, <3>3, <3>4 DEF UpTo
    <3>6. fan'[<<c, 1>>].next - 1 = Len(sent)
      BY <3>1, <3>4
    <3>7. \A d \in Conns : wire'[d] = wire[d]
      BY <2>1
    <3>8. Ahead'
      BY <1>0, <3>1, <3>5, <3>6, <3>7 DEF Ahead
    <3> QED
      BY <1>0, <2>1, <3>8 DEF OInv, InOrderOnce
  <2> QED
    BY <1>2, <2>2, <2>3 DEF Arm
<1>3. ASSUME NEW c \in Conns, WriteReply(c)
      PROVE  OInv'
  <2>1. UNCHANGED fan
    BY <1>3 DEF WriteReply
  <2>2. CASE UNCHANGED wire
    BY <1>1, <2>1, <2>2
  <2>3. ASSUME NEW x \in {0, Newline}, wire' = [wire EXCEPT ![c] = Append(@, x)]
        PROVE  OInv'
    <3>1. x \in Int /\ x <= 0
      BY DEF Newline
    <3>2. /\ InOrderOnce'
          /\ \A d \in Conns : d # c => wire'[d] = wire[d]
          /\ \A n \in Int : UpTo(wire[c], n) /\ (x <= 0 \/ x <= n) => UpTo(wire'[c], n)
      BY <1>0, <2>3, <3>1, ChunkInOrder
    <3>3. fan[<<c, 1>>].next \in Nat \ {0}
      BY <1>0 DEF FanOK
    <3>4. Ahead'
      <4>1. \A n \in Int : UpTo(wire[c], n) => UpTo(wire'[c], n)
        BY <3>1, <3>2
      <4>2. /\ fan[<<c, 1>>].next - 1 \in Int /\ fan[<<c, 1>>].next - 2 \in Int
            /\ 0 \in Int
        BY <3>3
      <4> QED
        BY <1>0, <2>1, <3>2, <4>1, <4>2 DEF Ahead
    <3> QED
      BY <3>2, <3>4 DEF OInv
  <2> QED
    BY <1>3, <2>2, <2>3 DEF WriteReply
<1>4. ASSUME NEW t \in Tasks, FanLock(t) \/ FanStep(t)
      PROVE  OInv'
  <2> DEFINE c == t[1]
  <2>1. c \in Conns /\ t = <<c, 1>>
    <3>1. fan[t].state # "none"
      BY <1>4 DEF FanLock, FanStep, FanRecv, FanCheck, FanWrite
    <3>2. t[1] \in Conns /\ t[2] \in Nat \ {0}
      BY SizesNatural DEF Tasks
    <3>3. t[2] = 1
      BY <1>0, <3>1, <3>2 DEF TasksSpawned
    <3>4. <<c, 1>>[1] = t[1] /\ <<c, 1>>[2] = t[2] /\ <<c, 1>> \in Tasks
      BY <3>2, <3>3
    <3> QED
      BY <3>2, <3>4
  <2>2. /\ fan[t].next \in Nat \ {0} /\ wire[c] \in Seq(Int)
        /\ \A d \in Conns : d # c => fan'[<<d, 1>>] = fan[<<d, 1>>]
    BY <1>0, <1>4, <2>1 DEF FanOK, WireOK, FanLock, FanStep, FanRecv, FanCheck,
                            FanWrite, FanGoto
  <2> HIDE DEF c
  <2>3. ASSUME InOrderOnce', \A d \in Conns : d # c => wire'[d] = wire[d],
               fan'[t].state # "none",
               fan'[t].state \in {"recv", "newline"} => UpTo(wire'[c], fan'[t].next - 1),
               fan'[t].state \in {"check", "lock", "body"} => UpTo(wire'[c], fan'[t].next - 2)
        PROVE  OInv'
    <3>1. Ahead'
      BY <1>0, <2>1, <2>2, <2>3 DEF Ahead
    <3> QED
      BY <2>3, <3>1 DEF OInv
  <2>4. UNCHANGED wire => InOrderOnce' /\ \A d \in Conns : d # c => wire'[d] = wire[d]
    BY <1>0 DEF InOrderOnce
  <2>5. /\ fan[t].state \in {"recv", "newline"} => UpTo(wire[c], fan[t].next - 1)
        /\ fan[t].state \in {"check", "lock", "body"} => UpTo(wire[c], fan[t].next - 2)
    BY <1>0, <2>1 DEF Ahead
  <2>6. UpTo(wire[c], fan[t].next - 2) => UpTo(wire[c], fan[t].next - 1)
    BY <2>2 DEF UpTo
  <2>7. CASE FanRecv(t)
    <3>1. /\ UNCHANGED wire /\ fan[t].state = "recv"
          /\ \/ fan'[t].state = "ended"
             \/ fan'[t].state = "check" /\ fan'[t].next = fan[t].next + 1
      BY <1>0, <2>7 DEF FanRecv, FanGoto, FanOK, sockVars
    <3>2. fan'[t].state = "check" => fan'[t].next - 2 = fan[t].next - 1
      BY <2>2, <3>1
    <3>3. fan'[t].state = "check" => UpTo(wire'[c], fan'[t].next - 2)
      BY <2>5, <3>1, <3>2
    <3> QED
      BY <2>3, <2>4, <3>1, <3>3
  <2>8. CASE FanCheck(t) \/ FanLock(t)
    <3>1. /\ UNCHANGED wire /\ fan[t].state \in {"check", "lock"}
          /\ fan'[t].state \in {"lock", "recv", "body"} /\ fan'[t].next = fan[t].next
      BY <1>0, <2>8 DEF FanCheck, FanLock, FanGoto, FanOK, sockVars
    <3> QED
      BY <2>3, <2>4, <2>5, <2>6, <3>1
  <2>9. CASE FanGoto(t, "ended") /\ UNCHANGED wire
    <3>1. fan'[t].state = "ended"
      BY <1>0, <2>9 DEF FanGoto, FanOK
    <3> QED
      BY <2>3, <2>4, <2>9, <3>1
  <2>10. CASE /\ fan[t].state = "body" /\ FanGoto(t, "newline")
              /\ wire' = [wire EXCEPT ![c] = Append(@, fan[t].next - 1)]
    <3>1. fan'[t].state = "newline" /\ fan'[t].next = fan[t].next
      BY <1>0, <2>10 DEF FanGoto, FanOK
    <3>2. /\ fan[t].next - 1 \in Int /\ fan[t].next - 1 - 1 = fan[t].next - 2
          /\ fan[t].next - 1 <= fan[t].next - 1
      BY <2>2
    <3>3. /\ InOrderOnce' /\ \A d \in Conns : d # c => wire'[d] = wire[d]
          /\ \A n \in Int : UpTo(wire[c], n) /\ (fan[t].next - 1 <= 0 \/ fan[t].next - 1 <= n)
                              => UpTo(wire'[c], n)
      BY <1>0, <2>1, <2>5, <2>10, <3>2, ChunkInOrder
    <3>4. UpTo(wire'[c], fan[t].next - 1)
      BY <2>5, <2>6, <2>10, <3>2, <3>3
    <3> QED
      BY <2>3, <3>1, <3>3, <3>4
  <2>11. CASE /\ fan[t].state = "newline" /\ FanGoto(t, "recv")
              /\ wire' = [wire EXCEPT ![c] = Append(@, Newline)]
    <3>1. fan'[t].state = "recv" /\ fan'[t].next = fan[t].next
      BY <1>0, <2>11 DEF FanGoto, FanOK
    <3>2. fan[t].next - 1 \in Int /\ Newline \in Int /\ Newline <= 0
      BY <2>2 DEF Newline
    <3>3. /\ InOrderOnce' /\ \A d \in Conns : d # c => wire'[d] = wire[d]
          /\ \A n \in Int : UpTo(wire[c], n) /\ (Newline <= 0 \/ Newline <= n)
                              => UpTo(wire'[c], n)
      BY <1>0, <2>1, <2>11, <3>2, ChunkInOrder
    <3>4. UpTo(wire'[c], fan[t].next - 1)
      BY <2>5, <2>11, <3>2, <3>3
    <3> QED
      BY <2>3, <3>1, <3>3, <3>4
  <2>12. CASE FanWrite(t)
    BY <2>9, <2>10, <2>11, <2>12 DEF FanWrite, c
  <2> QED
    BY <1>4, <2>7, <2>8, <2>12 DEF FanStep
<1>5. ASSUME NEW c \in Conns,
             \/ Accept(c) \/ LockReply(c) \/ ServeStep(c) \/ ClientRead(c)
             \/ ClientClose(c) \/ \E r \in Request : ReadLine(c, r)
      PROVE  OInv'
  <2>1. CASE Accept(c) \/ LockReply(c) \/ ClientClose(c)
    <3>1. UNCHANGED <<fan, wire>>
      BY <2>1 DEF Accept, LockReply, ClientClose, taskVars, sockVars
    <3> QED
      BY <1>1, <3>1
  <2>2. CASE \/ Eof(c) \/ SetFilter(c) \/ Handle(c) \/ StorePaused(c)
             \/ NotifyPaused(c) \/ ClientRead(c) \/ \E r \in Request : ReadLine(c, r)
    <3>1. Quiet
      BY <2>2, QuietSteps
    <3> QED
      BY <1>1, <3>1 DEF Quiet
  <2> QED
    BY <1>2, <1>3, <1>5, <2>1, <2>2 DEF ServeStep
<1>6. CASE UNCHANGED vars \/ (\E m \in ApprovalMethods : Emit(m)) \/ FwdRecv \/ FwdSend
  <2>1. Quiet
    BY <1>6, QuietSteps
  <2> QED
    BY <1>1, <2>1 DEF Quiet
<1> QED
  BY <1>4, <1>5, <1>6 DEF Next

(***************************************************************************)
(* Order: for any number of connections, requests and events, the          *)
(* notifications on a socket are in the order they were broadcast and none *)
(* is there twice: a second subscribe replaces the filter and spawns no    *)
(* second fan-out task.                                                    *)
(***************************************************************************)
THEOREM NotificationsInOrder == Spec => []InOrderOnce
<1>1. Init => OInv
  BY TaskNames DEF Init, OInv, Ahead, UpTo, InOrderOnce
<1>2. TInv /\ WInv /\ OInv /\ [Next]_vars => OInv'
  BY OrderKept
<1>3. OInv => InOrderOnce
  BY DEF OInv
<1> QED
  BY <1>1, <1>2, <1>3, Typed, Wires, PTL DEF Spec

-----------------------------------------------------------------------------
(***************************************************************************)
(* Forward without gaps.  For one connection, with f its fan-out task, s   *)
(* what was broadcast, w its wire and a the filters its client asked for.  *)
(***************************************************************************)
Task == [state : {"none", "recv", "check", "lock", "body", "newline", "ended"},
         start : Nat \ {0}, next : Nat \ {0}]

Has(w, i) == \E k \in DOMAIN w : w[k] = i

\* Everything up to n that all filters admit is on the wire.
Passed(f, s, w, a, n) ==
  \A i \in f.start .. n : i <= Len(s) /\ (\A g \in a : s[i] \in g) => Has(w, i)

\* Everything on the wire was broadcast since the start and asked for.
Sound(f, s, w, a) ==
  \A k \in DOMAIN w : w[k] > 0 =>
    w[k] >= f.start /\ w[k] <= Len(s) /\ \E g \in a : s[w[k]] \in g

Covers(f, s, w, a) ==
  /\ f.state = "none" => \A k \in DOMAIN w : w[k] <= 0
  /\ f.state # "none" => f.next - 1 <= Len(s) /\ Sound(f, s, w, a)
  /\ f.state = "recv" => f.start <= f.next /\ Passed(f, s, w, a, f.next - 1)
  /\ f.state \in {"check", "lock", "body", "newline"} =>
       f.start <= f.next - 1 /\ Passed(f, s, w, a, f.next - 2)
  /\ f.state \in {"lock", "body", "newline"} => \E g \in a : s[f.next - 1] \in g
  /\ f.state = "newline" => Has(w, f.next - 1)

\* The filter in force is one the client asked for.
FilterAsked ==
  \A c \in Conns :
    /\ step[c] = "filter" => req[c].events \in asked[c]
    /\ step[c] = "arm" \/ spawned[c] > 0 => filter[c] \in asked[c]

GapInv ==
  /\ FilterAsked
  /\ \A c \in Conns : Covers(fan[<<c, 1>>], sent, wire[c], asked[c])

\* More broadcasts and more filters asked for leave what was covered covered.
LEMMA CoversGrows ==
  ASSUME NEW f \in Task, NEW s \in Seq(Method), NEW w \in Seq(Int), NEW a,
         NEW r \in Seq(Method), NEW b, a \subseteq b,
         Len(s) <= Len(r), \A i \in 1 .. Len(s) : r[i] = s[i],
         Covers(f, s, w, a)
  PROVE  Covers(f, r, w, b)
<1>0. /\ f.start \in Nat \ {0} /\ f.next \in Nat \ {0} /\ Len(s) \in Nat /\ Len(r) \in Nat
      /\ \A k \in DOMAIN w : w[k] \in Int
  BY DEF Task
<1>1. Sound(f, s, w, a) => Sound(f, r, w, b)
  <2> SUFFICES ASSUME Sound(f, s, w, a), NEW k \in DOMAIN w, w[k] > 0
               PROVE  w[k] >= f.start /\ w[k] <= Len(r) /\ \E g \in b : r[w[k]] \in g
    BY DEF Sound
  <2>1. w[k] >= f.start /\ w[k] <= Len(s) /\ \E g \in a : s[w[k]] \in g
    BY DEF Sound
  <2>2. w[k] \in 1 .. Len(s)
    BY <1>0, <2>1
  <2> QED
    BY <1>0, <2>1, <2>2
<1>2. ASSUME NEW n \in Int, n <= Len(s), Passed(f, s, w, a, n) PROVE Passed(f, r, w, b, n)
  <2> SUFFICES ASSUME NEW i \in f.start .. n, \A g \in b : r[i] \in g PROVE Has(w, i)
    BY DEF Passed
  <2>1. i \in 1 .. Len(s)
    BY <1>0, <1>2
  <2> QED
    BY <1>2, <2>1 DEF Passed
<1>3. f.state # "none" => /\ f.next - 1 \in Int /\ f.next - 2 \in Int
                          /\ f.next - 1 <= Len(s) /\ f.next - 2 <= Len(s)
  BY <1>0 DEF Covers
<1>4. f.state \in {"lock", "body", "newline"} => \E g \in b : r[f.next - 1] \in g
  <2> SUFFICES ASSUME f.state \in {"lock", "body", "newline"}
               PROVE  \E g \in b : r[f.next - 1] \in g
    OBVIOUS
  <2>1. f.next - 1 \in 1 .. Len(s) /\ \E g \in a : s[f.next - 1] \in g
    BY <1>0 DEF Covers
  <2> QED
    BY <2>1
<1>5. f.state # "none" => f.next - 1 <= Len(r)
  BY <1>0, <1>3
<1> QED
  BY <1>1, <1>2, <1>3, <1>4, <1>5 DEF Covers

\* So does another chunk on the wire that is no notification.
LEMMA CoversChunk ==
  ASSUME NEW f \in Task, NEW s, NEW w \in Seq(Int), NEW a, NEW x \in Int, x <= 0,
         Covers(f, s, w, a)
  PROVE  Covers(f, s, Append(w, x), a)
<1> DEFINE v == Append(w, x)
<1>1. /\ v \in Seq(Int) /\ \A k \in DOMAIN w : k \in DOMAIN v /\ v[k] = w[k]
      /\ \A k \in DOMAIN v : k \in DOMAIN w \/ v[k] = x
  OBVIOUS
<1> HIDE DEF v
<1>2. \A i : Has(w, i) => Has(v, i)
  BY <1>1 DEF Has
<1>3. Sound(f, s, w, a) => Sound(f, s, v, a)
  <2> SUFFICES ASSUME Sound(f, s, w, a), NEW k \in DOMAIN v, v[k] > 0
               PROVE  v[k] >= f.start /\ v[k] <= Len(s) /\ \E g \in a : s[v[k]] \in g
    BY DEF Sound
  <2>1. k \in DOMAIN w /\ v[k] = w[k]
    BY <1>1
  <2> QED
    BY <2>1 DEF Sound
<1>4. \A n : Passed(f, s, w, a, n) => Passed(f, s, v, a, n)
  BY <1>2 DEF Passed
<1>5. (\A k \in DOMAIN w : w[k] <= 0) => \A k \in DOMAIN v : v[k] <= 0
  BY <1>1
<1>6. Covers(f, s, v, a)
  BY <1>2, <1>3, <1>4, <1>5 DEF Covers
<1> QED
  BY <1>6 DEF v

\* A task that is armed starts at what is broadcast next.
LEMMA CoversArm ==
  ASSUME NEW f \in Task, NEW s \in Seq(Method), NEW w \in Seq(Int), NEW a,
         f.state = "none", Covers(f, s, w, a)
  PROVE  Covers([state |-> "recv", start |-> Len(s) + 1, next |-> Len(s) + 1], s, w, a)
<1> DEFINE h == [state |-> "recv", start |-> Len(s) + 1, next |-> Len(s) + 1]
<1>1. h.state = "recv" /\ h.start = Len(s) + 1 /\ h.next = Len(s) + 1 /\ Len(s) \in Nat
  OBVIOUS
<1>2. \A k \in DOMAIN w : w[k] \in Int /\ w[k] <= 0
  BY DEF Covers
<1> HIDE DEF h
<1>3. Sound(h, s, w, a)
  BY <1>2 DEF Sound
<1>4. Passed(h, s, w, a, h.next - 1)
  BY <1>1 DEF Passed
<1>5. Covers(h, s, w, a)
  BY <1>1, <1>3, <1>4 DEF Covers
<1> QED
  BY <1>5 DEF h

\* The steps of a fan-out task, one by one.
LEMMA CoversRecv ==
  ASSUME NEW f \in Task, NEW h \in Task, NEW s \in Seq(Method), NEW w, NEW a,
         Covers(f, s, w, a), h.start = f.start,
         \/ f.state = "recv" /\ f.next <= Len(s) /\ h.state = "check" /\ h.next = f.next + 1
         \/ f.state # "none" /\ h.state = "ended" /\ h.next = f.next
  PROVE  Covers(h, s, w, a)
<1>1. f.start \in Nat /\ f.next \in Nat /\ Len(s) \in Nat
  BY DEF Task
<1>2. Sound(h, s, w, a)
  BY DEF Covers, Sound
<1>3. CASE h.state = "check"
  <2>1. h.next - 1 <= Len(s) /\ h.start <= h.next - 1 /\ h.next - 2 = f.next - 1
    BY <1>1, <1>3 DEF Covers
  <2>2. Passed(h, s, w, a, h.next - 2)
    BY <1>3, <2>1 DEF Covers, Passed
  <2> QED
    BY <1>2, <1>3, <2>1, <2>2 DEF Covers
<1>4. CASE h.state = "ended"
  BY <1>1, <1>2, <1>4 DEF Covers
<1> QED
  BY <1>3, <1>4

\* FanCheck, under a filter the client asked for, and FanLock.
LEMMA CoversCheck ==
  ASSUME NEW f \in Task, NEW h \in Task, NEW s \in Seq(Method), NEW w, NEW a, NEW g \in a,
         Covers(f, s, w, a), h.start = f.start, h.next = f.next,
         \/ f.state = "check" /\ h.state = (IF s[f.next - 1] \in g THEN "lock" ELSE "recv")
         \/ f.state = "lock" /\ h.state = "body"
  PROVE  Covers(h, s, w, a)
<1>1. f.start \in Nat /\ f.next \in Nat \ {0} /\ Len(s) \in Nat
  BY DEF Task
<1>2. Sound(h, s, w, a) /\ h.next - 1 <= Len(s) /\ h.start <= h.next - 1
  BY DEF Covers, Sound
<1>3. Passed(h, s, w, a, h.next - 2)
  BY DEF Covers, Passed
<1>4. CASE h.state \in {"lock", "body"}
  <2>1. \E e \in a : s[h.next - 1] \in e
    BY <1>4 DEF Covers
  <2> QED
    BY <1>2, <1>3, <1>4, <2>1 DEF Covers
<1>5. CASE h.state = "recv"
  <2>1. ~(s[h.next - 1] \in g)
    BY <1>5
  <2>2. Passed(h, s, w, a, h.next - 1)
    <3> SUFFICES ASSUME NEW i \in h.start .. h.next - 1, i <= Len(s), \A e \in a : s[i] \in e
                 PROVE  Has(w, i)
      BY DEF Passed
    <3>1. i # h.next - 1
      BY <2>1
    <3>2. i \in h.start .. h.next - 2
      BY <1>1, <3>1
    <3> QED
      BY <1>3, <3>2 DEF Passed
  <2>3. h.start <= h.next
    BY <1>1, <1>2
  <2> QED
    BY <1>2, <1>5, <2>2, <2>3 DEF Covers
<1> QED
  BY <1>4, <1>5

\* FanWrite: the notification, then its newline.
LEMMA CoversWrite ==
  ASSUME NEW f \in Task, NEW h \in Task, NEW s \in Seq(Method), NEW w \in Seq(Int), NEW a,
         Covers(f, s, w, a), h.start = f.start, h.next = f.next
  PROVE  /\ f.state = "body" /\ h.state = "newline" => Covers(h, s, Append(w, f.next - 1), a)
         /\ f.state = "newline" /\ h.state = "recv" => Covers(h, s, w, a)
<1>1. f.start \in Nat \ {0} /\ f.next \in Nat \ {0} /\ Len(s) \in Nat
  BY DEF Task
<1>2. ASSUME f.state = "newline", h.state = "recv" PROVE Covers(h, s, w, a)
  <2>1. /\ Sound(h, s, w, a) /\ h.next - 1 <= Len(s) /\ h.start <= h.next - 1
        /\ Has(w, h.next - 1) /\ Passed(h, s, w, a, h.next - 2)
    BY <1>2 DEF Covers, Sound, Passed
  <2>2. Passed(h, s, w, a, h.next - 1)
    <3> SUFFICES ASSUME NEW i \in h.start .. h.next - 1, i <= Len(s), \A e \in a : s[i] \in e
                 PROVE  Has(w, i)
      BY DEF Passed
    <3>1. i = h.next - 1 \/ i \in h.start .. h.next - 2
      BY <1>1
    <3> QED
      BY <2>1, <3>1 DEF Passed
  <2>3. h.start <= h.next
    BY <1>1, <2>1
  <2> QED
    BY <1>2, <2>1, <2>2, <2>3 DEF Covers
<1>3. ASSUME f.state = "body", h.state = "newline"
      PROVE  Covers(h, s, Append(w, f.next - 1), a)
  <2> DEFINE x == f.next - 1
             v == Append(w, x)
  <2>0. x \in Int
    BY <1>1
  <2>1. /\ v \in Seq(Int) /\ \A k \in DOMAIN w : k \in DOMAIN v /\ v[k] = w[k]
        /\ \A k \in DOMAIN v : k \in DOMAIN w \/ v[k] = x
        /\ Len(w) + 1 \in DOMAIN v /\ v[Len(w) + 1] = x
    BY <2>0
  <2>2. /\ f.start <= x /\ x <= Len(s) /\ Sound(f, s, w, a) /\ Passed(f, s, w, a, f.next - 2)
        /\ \E g \in a : s[x] \in g
    BY <1>3 DEF Covers
  <2>3. x = h.next - 1
    OBVIOUS
  <2> HIDE DEF x, v
  <2>4. (\A i : Has(w, i) => Has(v, i)) /\ Has(v, x)
    BY <2>1 DEF Has
  <2>5. Sound(h, s, v, a)
    BY <2>1, <2>2 DEF Sound
  <2>6. Passed(h, s, v, a, h.next - 2)
    BY <2>2, <2>4 DEF Passed
  <2>7. Covers(h, s, v, a)
    BY <1>3, <2>2, <2>3, <2>4, <2>5, <2>6 DEF Covers
  <2> QED
    BY <2>7 DEF v, x
<1> QED
  BY <1>2, <1>3

\* What a step changes of a connection's view, connection by connection.
LEMMA GapKept == TInv /\ WInv /\ GapInv /\ [Next]_vars => GapInv'
<1> SUFFICES ASSUME TInv, WInv, GapInv, [Next]_vars PROVE GapInv'
  OBVIOUS
<1>0. /\ sent \in Seq(Method) /\ \A c \in Conns : wire[c] \in Seq(Int)
      /\ \A c \in Conns : fan[<<c, 1>>] \in Task /\ <<c, 1>> \in Tasks
      /\ fan \in [Tasks -> Task] /\ wire \in [Conns -> Seq(Int)]
      /\ TasksSpawned /\ ConnsOK
  BY TaskNames DEF TInv, TypeOK, BusOK, TasksOK, SocketsOK, Task, WInv
<1>c. /\ step \in [Conns -> {"off", "read", "filter", "arm", "handle", "notify",
                             "reply", "body", "newline", "closed"}]
      /\ req \in [Conns -> Request \cup {NoRequest}]
      /\ asked \in [Conns -> SUBSET Filters] /\ filter \in [Conns -> SUBSET Method]
      /\ spawned \in [Conns -> 0 .. MaxRequests]
  BY <1>0 DEF ConnsOK
<1>1. ASSUME FilterAsked', UNCHANGED <<fan, wire>>,
             \A c \in Conns : asked[c] \subseteq asked'[c],
             sent' \in Seq(Method), Len(sent) <= Len(sent'),
             \A i \in 1 .. Len(sent) : sent'[i] = sent[i]
      PROVE  GapInv'
  <2> SUFFICES ASSUME NEW c \in Conns
               PROVE  Covers(fan[<<c, 1>>], sent', wire[c], asked'[c])
    BY <1>1 DEF GapInv
  <2>1. Covers(fan[<<c, 1>>], sent, wire[c], asked[c])
    BY DEF GapInv
  <2> QED
    BY <1>0, <1>1, <2>1, CoversGrows
<1>2. ASSUME NEW m \in Method, Broadcast(m)
      PROVE  /\ sent' \in Seq(Method) /\ Len(sent) <= Len(sent')
             /\ \A i \in 1 .. Len(sent) : sent'[i] = sent[i]
  BY <1>0, <1>2 DEF Broadcast
<1>3. sent' = sent => /\ sent' \in Seq(Method) /\ Len(sent) <= Len(sent')
                      /\ \A i \in 1 .. Len(sent) : sent'[i] = sent[i]
  BY <1>0
<1>4. UNCHANGED <<asked, step, req, spawned, filter>> => FilterAsked'
  BY DEF GapInv, FilterAsked
<1>5. CASE UNCHANGED vars \/ (\E m \in ApprovalMethods : Emit(m)) \/ FwdRecv
  <2>1. UNCHANGED <<sent, fan, wire, asked, step, req, spawned, filter>>
    BY <1>5 DEF vars, busVars, connVars, taskVars, sockVars, Emit, FwdRecv
  <2> QED
    BY <1>1, <1>3, <1>4, <2>1
<1>6. CASE FwdSend
  <2>1. UNCHANGED <<fan, wire, asked, step, req, spawned, filter>> /\ Broadcast(events[fwd.next - 1])
    BY <1>6 DEF connVars, taskVars, sockVars, FwdSend
  <2>2. events[fwd.next - 1] \in Method
    BY <1>6, MethodsKnown DEF FwdSend, TInv, TypeOK, BusOK, ForwardsReceived, Method
  <2> QED
    BY <1>1, <1>2, <1>4, <2>1, <2>2
<1>7. ASSUME NEW c \in Conns,
             \/ Accept(c) \/ LockReply(c) \/ Eof(c) \/ Handle(c) \/ StorePaused(c)
             \/ NotifyPaused(c) \/ ClientRead(c) \/ ClientClose(c)
      PROVE  GapInv'
  <2>1. UNCHANGED <<fan, wire, asked, req, spawned, filter>>
    BY <1>7 DEF Accept, LockReply, Eof, Handle, StorePaused, NotifyPaused, ClientRead,
                ClientClose, connVars, taskVars, sockVars
  <2>2. step' = step \/ \E s \in {"read", "body", "closed", "reply", "notify"} :
                          step' = [step EXCEPT ![c] = s]
    BY <1>7 DEF Accept, LockReply, Eof, Handle, StorePaused, NotifyPaused, ClientRead,
                ClientClose, connVars
  <2>3. FilterAsked'
    BY <1>c, <2>1, <2>2 DEF GapInv, FilterAsked
  <2>4. sent' = sent \/ \E m \in Method : Broadcast(m)
    BY <1>7, MethodsKnown DEF Accept, LockReply, Eof, Handle, StorePaused, NotifyPaused,
            ClientRead, ClientClose, busVars, Method
  <2> QED
    BY <1>1, <1>2, <1>3, <2>1, <2>3, <2>4
<1>8. ASSUME NEW c \in Conns, SetFilter(c)
      PROVE  GapInv'
  <2>1. UNCHANGED <<sent, fan, wire, asked, req, spawned>>
    BY <1>8 DEF SetFilter, busVars, taskVars, sockVars
  <2>2. /\ step[c] = "filter" /\ step' = [step EXCEPT ![c] = "arm"]
        /\ filter' = [filter EXCEPT ![c] = req[c].events]
    BY <1>8 DEF SetFilter
  <2>3. FilterAsked'
    BY <1>c, <2>1, <2>2 DEF GapInv, FilterAsked
  <2> QED
    BY <1>1, <1>3, <2>1, <2>3
<1>9. ASSUME NEW c \in Conns, NEW r \in Request, ReadLine(c, r)
      PROVE  GapInv'
  <2>1. UNCHANGED <<sent, fan, wire, spawned, filter>>
    BY <1>9 DEF ReadLine, busVars, taskVars, sockVars
  <2>2. /\ req' = [req EXCEPT ![c] = r]
        /\ asked' = [asked EXCEPT ![c] = IF r.kind = "subscribe" THEN @ \cup {r.events} ELSE @]
        /\ \E s \in {"filter", "reply", "handle"} :
             step' = [step EXCEPT ![c] = s] /\ (s = "filter" => r.kind = "subscribe")
    BY <1>9 DEF ReadLine
  <2>3. \A d \in Conns : asked[d] \subseteq asked'[d]
    BY <1>c, <2>2
  <2>4. step'[c] = "filter" => req'[c].events \in asked'[c]
    BY <1>c, <2>2
  <2>5. \A d \in Conns : d # c => step'[d] = step[d] /\ req'[d] = req[d]
    BY <1>c, <2>2
  <2>6. step'[c] # "arm"
    BY <1>c, <2>2
  <2>7. FilterAsked'
    BY <2>1, <2>3, <2>4, <2>5, <2>6 DEF GapInv, FilterAsked
  <2> QED
    BY <1>1, <1>3, <2>1, <2>3, <2>7
<1>10. ASSUME NEW c \in Conns, Arm(c)
       PROVE  GapInv'
  <2>1. /\ UNCHANGED <<sent, wire, asked, req, filter>>
        /\ step[c] = "arm" /\ step' = [step EXCEPT ![c] = "reply"]
    BY <1>10 DEF Arm, busVars, sockVars
  <2>2. filter[c] \in asked[c]
    BY <2>1 DEF GapInv, FilterAsked
  <2>3. \A d \in Conns : d # c => spawned'[d] = spawned[d] /\ step'[d] = step[d]
    BY <1>c, <1>10, <2>1 DEF Arm
  <2>4. step'[c] = "reply"
    BY <1>c, <2>1
  <2>5. FilterAsked'
    BY <2>1, <2>2, <2>3, <2>4 DEF GapInv, FilterAsked
  <2>6. CASE UNCHANGED fan
    BY <1>1, <1>3, <2>1, <2>5, <2>6
  <2>7. CASE /\ spawned[c] = 0
             /\ fan' = [fan EXCEPT ![<<c, 1>>] =
                  [state |-> "recv", start |-> Len(sent) + 1, next |-> Len(sent) + 1]]
    <3>1. fan[<<c, 1>>].state = "none"
      BY <1>0, <2>7 DEF TasksSpawned
    <3>2. Covers(fan[<<c, 1>>], sent, wire[c], asked[c])
      BY DEF GapInv
    <3>3. Covers([state |-> "recv", start |-> Len(sent) + 1, next |-> Len(sent) + 1],
                 sent, wire[c], asked[c])
      BY <1>0, <3>1, <3>2, CoversArm
    <3>4. /\ fan'[<<c, 1>>] = [state |-> "recv", start |-> Len(sent) + 1, next |-> Len(sent) + 1]
          /\ \A d \in Conns : d # c => fan'[<<d, 1>>] = fan[<<d, 1>>]
      BY <1>0, <2>7
    <3>5. \A d \in Conns : Covers(fan'[<<d, 1>>], sent, wire[d], asked[d])
      BY <3>3, <3>4 DEF GapInv
    <3> QED
      BY <2>1, <2>5, <3>5 DEF GapInv
  <2> QED
    BY <1>10, <2>6, <2>7 DEF Arm
<1>11. ASSUME NEW c \in Conns, WriteReply(c)
       PROVE  GapInv'
  <2>1. UNCHANGED <<sent, fan, asked, req, spawned, filter>>
    BY <1>11 DEF WriteReply, busVars
  <2>2. \E s \in {"closed", "newline", "read"} : step' = [step EXCEPT ![c] = s]
    BY <1>11 DEF WriteReply
  <2>3. FilterAsked'
    BY <1>c, <2>1, <2>2 DEF GapInv, FilterAsked
  <2>4. CASE UNCHANGED wire
    BY <1>1, <1>3, <2>1, <2>3, <2>4
  <2>5. ASSUME NEW x \in {0, Newline}, wire' = [wire EXCEPT ![c] = Append(@, x)]
        PROVE  GapInv'
    <3>1. x \in Int /\ x <= 0
      BY DEF Newline
    <3>2. wire'[c] = Append(wire[c], x) /\ \A d \in Conns : d # c => wire'[d] = wire[d]
      BY <1>0, <2>5
    <3>3. Covers(fan[<<c, 1>>], sent, wire[c], asked[c])
      BY DEF GapInv
    <3>4. Covers(fan[<<c, 1>>], sent, Append(wire[c], x), asked[c])
      BY <1>0, <3>1, <3>3, CoversChunk
    <3>5. \A d \in Conns : Covers(fan[<<d, 1>>], sent, wire'[d], asked[d])
      BY <3>2, <3>4 DEF GapInv
    <3> QED
      BY <2>1, <2>3, <3>5 DEF GapInv
  <2> QED
    BY <1>11, <2>4, <2>5 DEF WriteReply
<1>12. ASSUME NEW t \in Tasks, FanLock(t) \/ FanStep(t)
       PROVE  GapInv'
  <2> DEFINE c == t[1]
  <2>1. c \in Conns /\ t = <<c, 1>> /\ spawned[c] > 0
    <3>1. fan[t].state # "none"
      BY <1>12 DEF FanLock, FanStep, FanRecv, FanCheck, FanWrite
    <3>2. t[1] \in Conns /\ t[2] \in Nat \ {0}
      BY SizesNatural DEF Tasks
    <3>3. t[2] = 1 /\ spawned[t[1]] > 0
      BY <1>0, <3>1, <3>2 DEF TasksSpawned
    <3>4. <<c, 1>>[1] = t[1] /\ <<c, 1>>[2] = t[2] /\ <<c, 1>> \in Tasks
      BY <3>2, <3>3, TaskNames
    <3> QED
      BY <3>2, <3>3, <3>4, TaskNames
  <2>2. /\ UNCHANGED <<sent, asked, step, req, spawned, filter>>
        /\ fan'[t] \in Task /\ fan'[t].start = fan[t].start
        /\ \A d \in Conns : d # c => fan'[<<d, 1>>] = fan[<<d, 1>>]
    <3>1. UNCHANGED <<sent, asked, step, req, spawned, filter>>
      BY <1>12 DEF FanLock, FanStep, FanRecv, FanCheck, FanWrite, busVars, connVars
    <3>2. fan'[t] \in Task /\ fan'[t].start = fan[t].start
      <4>1. ASSUME NEW s \in {"recv", "check", "lock", "body", "newline", "ended"}, FanGoto(t, s)
            PROVE  fan'[t] \in Task /\ fan'[t].start = fan[t].start
        BY <1>0, <4>1 DEF FanGoto, Task
      <4>2. CASE fan' = [fan EXCEPT ![t].state = "check", ![t].next = @ + 1]
        BY <1>0, <4>2 DEF Task
      <4> QED
        BY <1>12, <4>1, <4>2 DEF FanLock, FanStep, FanRecv, FanCheck, FanWrite
    <3>3. \A d \in Conns : d # c => fan'[<<d, 1>>] = fan[<<d, 1>>]
      BY <1>0, <1>12, <2>1 DEF FanLock, FanStep, FanRecv, FanCheck, FanWrite, FanGoto
    <3> QED
      BY <3>1, <3>2, <3>3
  <2>3. fan[t] \in Task /\ wire[c] \in Seq(Int) /\ Covers(fan[t], sent, wire[c], asked[c])
    BY <1>0, <2>1 DEF GapInv
  <2>4. filter[c] \in asked[c]
    BY <2>1 DEF GapInv, FilterAsked
  <2>5. ASSUME Covers(fan'[t], sent, wire'[c], asked[c]),
               \A d \in Conns : d # c => wire'[d] = wire[d]
        PROVE  GapInv'
    <3>1. \A d \in Conns : Covers(fan'[<<d, 1>>], sent, wire'[d], asked[d])
      BY <2>1, <2>2, <2>5 DEF GapInv
    <3> QED
      BY <1>4, <2>2, <3>1 DEF GapInv
  <2>6. CASE FanRecv(t)
    <3>1. /\ UNCHANGED wire /\ fan[t].state = "recv" /\ fan[t].next <= Len(sent)
          /\ \/ fan'[t].state = "ended" /\ fan'[t].next = fan[t].next
             \/ fan'[t].state = "check" /\ fan'[t].next = fan[t].next + 1
      BY <1>0, <2>6 DEF FanRecv, FanGoto, sockVars, Task
    <3>2. Covers(fan'[t], sent, wire[c], asked[c])
      BY <1>0, <2>2, <2>3, <3>1, CoversRecv
    <3> QED
      BY <2>5, <3>1, <3>2
  <2>7. CASE FanCheck(t) \/ FanLock(t)
    <3>1. /\ UNCHANGED wire /\ fan'[t].next = fan[t].next
          /\ \/ /\ fan[t].state = "check"
                /\ fan'[t].state = (IF sent[fan[t].next - 1] \in filter[c] THEN "lock" ELSE "recv")
             \/ fan[t].state = "lock" /\ fan'[t].state = "body"
      BY <1>0, <2>7 DEF FanCheck, FanLock, FanGoto, sockVars, Task
    <3>2. Covers(fan'[t], sent, wire[c], asked[c])
      BY <1>0, <2>2, <2>3, <2>4, <3>1, CoversCheck
    <3> QED
      BY <2>5, <3>1, <3>2
  <2>8. CASE FanGoto(t, "ended") /\ UNCHANGED wire
    <3>1. fan'[t].state = "ended" /\ fan'[t].next = fan[t].next /\ fan[t].state # "none"
      BY <1>0, <1>12, <2>8 DEF FanGoto, Task, FanLock, FanStep, FanRecv, FanCheck, FanWrite
    <3>2. Covers(fan'[t], sent, wire[c], asked[c])
      BY <1>0, <2>2, <2>3, <3>1, CoversRecv
    <3> QED
      BY <2>5, <2>8, <3>2
  <2>9. CASE /\ fan[t].state = "body" /\ FanGoto(t, "newline")
             /\ wire' = [wire EXCEPT ![c] = Append(@, fan[t].next - 1)]
    <3>1. fan'[t].state = "newline" /\ fan'[t].next = fan[t].next
      BY <1>0, <2>9 DEF FanGoto, Task
    <3>2. /\ wire'[c] = Append(wire[c], fan[t].next - 1)
          /\ \A d \in Conns : d # c => wire'[d] = wire[d]
      BY <1>0, <2>1, <2>9
    <3>3. Covers(fan'[t], sent, Append(wire[c], fan[t].next - 1), asked[c])
      <4>1. fan[t].state = "body"
        BY <2>9
      <4> QED
        BY <1>0, <2>2, <2>3, <3>1, <4>1, CoversWrite
    <3>4. Covers(fan'[t], sent, wire'[c], asked[c])
      BY <3>2, <3>3
    <3> QED
      BY <2>5, <3>2, <3>4
  <2>10. CASE /\ fan[t].state = "newline" /\ FanGoto(t, "recv")
              /\ wire' = [wire EXCEPT ![c] = Append(@, Newline)]
    <3>1. fan'[t].state = "recv" /\ fan'[t].next = fan[t].next
      BY <1>0, <2>10 DEF FanGoto, Task
    <3>2. /\ wire'[c] = Append(wire[c], Newline)
          /\ \A d \in Conns : d # c => wire'[d] = wire[d]
      BY <1>0, <2>1, <2>10
    <3>3. Covers(fan'[t], sent, wire[c], asked[c])
      BY <1>0, <2>2, <2>3, <2>10, <3>1, CoversWrite
    <3>4. Covers(fan'[t], sent, wire'[c], asked[c])
      BY <2>2, <2>3, <3>2, <3>3, CoversChunk DEF Newline
    <3> QED
      BY <2>5, <3>2, <3>4
  <2>11. CASE FanWrite(t)
    BY <2>8, <2>9, <2>10, <2>11 DEF FanWrite
  <2> QED
    BY <1>12, <2>6, <2>7, <2>11 DEF FanStep
<1> QED
  BY <1>5, <1>6, <1>7, <1>8, <1>9, <1>10, <1>11, <1>12 DEF Next, ServeStep

(***************************************************************************)
(* No gaps: for any number of connections, requests and events, a fan-out  *)
(* task that has not ended has forwarded everything since it was armed     *)
(* that every filter admits, and nothing else (serve_conn, issue #6).      *)
(***************************************************************************)
THEOREM NoGaps == Spec => []ForwardWithoutGaps
<1>1. Init => GapInv
  BY TaskNames DEF Init, GapInv, FilterAsked, Covers
<1>2. TInv /\ WInv /\ GapInv => ForwardWithoutGaps
  <2> SUFFICES ASSUME TInv, WInv, GapInv, NEW t \in Tasks, fan[t].state \notin {"none", "ended"}
               PROVE  LET c == t[1] IN
                      /\ \A i \in fan[t].start .. fan[t].next - 1 :
                           Wanted(c, i) => \/ Delivered(c, i)
                                           \/ i = fan[t].next - 1 /\ fan[t].state # "recv"
                      /\ t[2] = 1 => \A k \in DOMAIN wire[c] : wire[c][k] > 0 =>
                           wire[c][k] >= fan[t].start /\ \E f \in asked[c] : sent[wire[c][k]] \in f
    BY DEF ForwardWithoutGaps
  <2> DEFINE c == t[1]
  <2>1. c \in Conns /\ t = <<c, 1>>
    <3>1. t[1] \in Conns /\ t[2] \in Nat \ {0}
      BY SizesNatural DEF Tasks
    <3>2. t[2] = 1
      BY <3>1 DEF WInv, TasksSpawned
    <3>3. <<c, 1>>[1] = t[1] /\ <<c, 1>>[2] = t[2] /\ <<c, 1>> \in Tasks
      BY <3>1, <3>2, TaskNames
    <3> QED
      BY <3>1, <3>3, TaskNames
  <2>2. Covers(fan[t], sent, wire[c], asked[c]) /\ fan[t] \in Task
    BY <2>1 DEF GapInv, TInv, TypeOK, TasksOK, Task
  <2>3. fan[t].start \in Nat /\ fan[t].next \in Nat
    BY <2>2 DEF Task
  <2>4. ASSUME NEW i \in fan[t].start .. fan[t].next - 1, Wanted(c, i)
        PROVE  Delivered(c, i) \/ (i = fan[t].next - 1 /\ fan[t].state # "recv")
    <3>1. fan[t].state = "recv" => Passed(fan[t], sent, wire[c], asked[c], fan[t].next - 1)
      BY <2>2 DEF Covers
    <3>2. fan[t].state # "recv" => Passed(fan[t], sent, wire[c], asked[c], fan[t].next - 2)
      BY <2>2 DEF Covers, Task
    <3>3. i = fan[t].next - 1 \/ i \in fan[t].start .. fan[t].next - 2
      BY <2>3
    <3> QED
      BY <2>4, <3>1, <3>2, <3>3 DEF Passed, Has, Wanted, Delivered
  <2>5. Sound(fan[t], sent, wire[c], asked[c])
    BY <2>2 DEF Covers
  <2> QED
    BY <2>4, <2>5 DEF Sound
<1> QED
  BY <1>1, <1>2, GapKept, Typed, Wires, PTL DEF Spec
-----------------------------------------------------------------------------
(***************************************************************************)
(* Requests and responses.                                                 *)
(***************************************************************************)
\* The places of a wire at which the body of a response stands.
Answers(w) == {k \in DOMAIN w : w[k] = 0}

\* serve_conn has read a request and not written its response yet.
Owing == {"filter", "arm", "handle", "notify", "reply", "body"}

\* A connection, open or not, at a step at which every request is answered, and at
\* one at which the last one is not.
Settled(isOpen, s) == s = "off" \/ (isOpen /\ s \notin Owing \cup {"closed"})
Owes(isOpen, s) == isOpen /\ s \in Owing

\* serve_conn writes exactly one response per request, in turn: while a connection
\* is served, its wire carries as many responses as it has read requests, less
\* the one it is working on, however many notifications the fan-out task writes
\* between them; once the client has closed its end there is never one too many.
OneResponsePerRequest ==
  \A c \in Conns :
    /\ Settled(open[c], step[c]) => Cardinality(Answers(wire[c])) = served[c]
    /\ Owes(open[c], step[c]) => Cardinality(Answers(wire[c])) + 1 = served[c]
    /\ Cardinality(Answers(wire[c])) <= served[c]

\* A fan-out task with a notification in its hand has received it, so what it
\* writes does not look like a response; and a request that is handed to the
\* handler is one it handles.
InHand ==
  /\ \A t \in Tasks : fan[t].state \in {"check", "lock", "body", "newline"} => fan[t].next > 1
  /\ \A c \in Conns : step[c] = "handle" => req[c].kind \in {"call", "pause"}

\* Another chunk is a response or it is not.
LEMMA AnswersGrow ==
  ASSUME NEW w \in Seq(Int)
  PROVE  /\ Cardinality(Answers(w)) \in Nat
         /\ Cardinality(Answers(Append(w, 0))) = Cardinality(Answers(w)) + 1
         /\ \A x \in Int : x # 0 => Answers(Append(w, x)) = Answers(w)
<1>1. IsFiniteSet(Answers(w)) /\ Answers(w) \subseteq 1 .. Len(w)
  <2>1. IsFiniteSet(1 .. Len(w))
    BY FS_Interval
  <2>2. Answers(w) \subseteq 1 .. Len(w)
    BY DEF Answers
  <2> QED
    BY <2>1, <2>2, FS_Subset
<1>2. Len(w) + 1 \notin Answers(w)
  BY <1>1
<1>3. Answers(Append(w, 0)) = Answers(w) \cup {Len(w) + 1}
  BY DEF Answers
<1>4. Cardinality(Answers(w) \cup {Len(w) + 1}) = Cardinality(Answers(w)) + 1
  BY <1>1, <1>2, FS_AddElement
<1>5. \A x \in Int : x # 0 => Answers(Append(w, x)) = Answers(w)
  BY DEF Answers
<1>6. Cardinality(Answers(w)) \in Nat
  BY <1>1, FS_CardinalityType
<1> QED
  BY <1>3, <1>4, <1>5, <1>6

\* Every step leaves the fan-out tasks with what they received and the handler with
\* what it handles.
LEMMA HandKept == TInv /\ InHand /\ [Next]_vars => InHand'
<1> SUFFICES ASSUME TInv, InHand, [Next]_vars PROVE InHand'
  OBVIOUS
<1>1. /\ step \in [Conns -> {"off", "read", "filter", "arm", "handle", "notify",
                             "reply", "body", "newline", "closed"}]
      /\ DOMAIN req = Conns
      /\ FanOK
  BY Parts DEF TInv, TypeOK, ConnsOK
<1>2. ASSUME NEW t \in Tasks
      PROVE  fan'[t].state \in {"check", "lock", "body", "newline"} => fan'[t].next > 1
  <2>1. /\ fan[t].state \in {"check", "lock", "body", "newline"} => fan[t].next > 1
        /\ fan[t].next \in Nat \ {0}
    BY <1>1 DEF InHand, FanOK
  <2>2. CASE UNCHANGED fan
    BY <2>1, <2>2
  <2>3. ASSUME NEW c \in Conns, Arm(c)
        PROVE  fan'[t].state \in {"check", "lock", "body", "newline"} => fan'[t].next > 1
    <3>1. UNCHANGED fan \/ fan' = [fan EXCEPT ![<<c, 1>>] =
                    [state |-> "recv", start |-> Len(sent) + 1, next |-> Len(sent) + 1]]
      BY <2>3 DEF Arm
    <3>2. PICK f : f = [state |-> "recv", start |-> Len(sent) + 1, next |-> Len(sent) + 1]
      OBVIOUS
    <3>3. f.state = "recv"
      BY <3>2
    <3>4. UNCHANGED fan \/ fan' = [fan EXCEPT ![<<c, 1>>] = f]
      BY <3>1, <3>2
    <3>5. fan'[t] = fan[t] \/ fan'[t] = f
      BY <1>1, <3>4 DEF FanOK
    <3> QED
      BY <2>1, <3>3, <3>5
  <2>4. ASSUME NEW u \in Tasks, FanLock(u) \/ FanCheck(u) \/ FanWrite(u)
        PROVE  fan'[t].state \in {"check", "lock", "body", "newline"} => fan'[t].next > 1
    <3>1. /\ fan[u].state \in {"check", "lock", "body", "newline"}
          /\ \E x \in {"recv", "lock", "body", "newline", "ended"} : FanGoto(u, x)
      BY <2>4 DEF FanLock, FanCheck, FanWrite
    <3>2. PICK x \in {"recv", "lock", "body", "newline", "ended"} :
                 fan' = [fan EXCEPT ![u].state = x]
      BY <3>1 DEF FanGoto
    <3>3. CASE t = u
      <4>1. fan[u].next > 1
        BY <3>1 DEF InHand
      <4>2. fan'[u].next = fan[u].next
        BY <1>1, <3>2 DEF FanOK
      <4> QED
        BY <3>3, <4>1, <4>2
    <3>4. CASE t # u
      <4>1. fan'[t] = fan[t]
        BY <1>1, <3>2, <3>4 DEF FanOK
      <4> QED
        BY <2>1, <4>1
    <3> QED
      BY <3>3, <3>4
  <2>5. ASSUME NEW u \in Tasks, FanRecv(u)
        PROVE  fan'[t].state \in {"check", "lock", "body", "newline"} => fan'[t].next > 1
    <3>1. CASE fan' = [fan EXCEPT ![u].state = "ended"]
      <4>1. fan'[t] = fan[t] \/ fan'[t].state = "ended"
        BY <1>1, <3>1 DEF FanOK
      <4> QED
        BY <2>1, <4>1
    <3>2. CASE fan' = [fan EXCEPT ![u].state = "check", ![u].next = @ + 1]
      <4>1. fan'[t] = fan[t] \/ (t = u /\ fan'[t].next = fan[t].next + 1)
        BY <1>1, <3>2 DEF FanOK
      <4> QED
        BY <2>1, <4>1
    <3> QED
      BY <2>5, <3>1, <3>2 DEF FanRecv, FanGoto
  <2>6. ASSUME \/ UNCHANGED vars \/ (\E m \in ApprovalMethods : Emit(m)) \/ FwdRecv \/ FwdSend
               \/ \E c \in Conns :
                    \/ Accept(c) \/ LockReply(c) \/ ClientRead(c) \/ ClientClose(c)
                    \/ Eof(c) \/ SetFilter(c) \/ Handle(c) \/ StorePaused(c)
                    \/ NotifyPaused(c) \/ WriteReply(c) \/ \E r \in Request : ReadLine(c, r)
        PROVE  UNCHANGED fan
    BY <2>6 DEF vars, taskVars, Emit, FwdRecv, FwdSend, Accept, LockReply, ClientRead,
       ClientClose, Eof, SetFilter, Handle, StorePaused, NotifyPaused, WriteReply, ReadLine
  <2> QED
    BY <2>2, <2>3, <2>4, <2>5, <2>6 DEF Next, ServeStep, FanStep
<1>3. ASSUME NEW c \in Conns
      PROVE  step'[c] = "handle" => req'[c].kind \in {"call", "pause"}
  <2>1. step[c] = "handle" => req[c].kind \in {"call", "pause"}
    BY DEF InHand
  <2>2. CASE UNCHANGED <<step, req>>
    BY <2>1, <2>2
  <2>3. ASSUME NEW b \in Conns,
               \/ Accept(b) \/ LockReply(b) \/ Eof(b) \/ SetFilter(b) \/ Arm(b) \/ Handle(b)
               \/ StorePaused(b) \/ NotifyPaused(b) \/ WriteReply(b)
        PROVE  step'[c] = "handle" => req'[c].kind \in {"call", "pause"}
    BY <1>1, <2>1, <2>3 DEF Accept, LockReply, Eof, SetFilter, Arm, Handle, StorePaused,
       NotifyPaused, WriteReply
  <2>4. ASSUME NEW b \in Conns, NEW r \in Request, ReadLine(b, r)
        PROVE  step'[c] = "handle" => req'[c].kind \in {"call", "pause"}
    <3>1. r.kind \in {"subscribe", "pause", "call", "malformed"}
      BY DEF Request
    <3> QED
      BY <1>1, <2>1, <2>4, <3>1 DEF ReadLine
  <2>5. ASSUME \/ UNCHANGED vars \/ (\E m \in ApprovalMethods : Emit(m)) \/ FwdRecv \/ FwdSend
               \/ \E b \in Conns : ClientRead(b) \/ ClientClose(b)
               \/ \E u \in Tasks : FanLock(u) \/ FanStep(u)
        PROVE  UNCHANGED <<step, req>>
    BY <2>5 DEF vars, connVars, Emit, FwdRecv, FwdSend, ClientRead, ClientClose, FanLock,
       FanStep, FanRecv, FanCheck, FanWrite
  <2> QED
    BY <2>2, <2>3, <2>4, <2>5 DEF Next, ServeStep
<1> QED
  BY <1>2, <1>3 DEF InHand
\* serve_conn, its request and its wire, one connection at a time.
LEMMA CountKept ==
  TInv /\ WInv /\ InHand /\ OneResponsePerRequest /\ [Next]_vars => OneResponsePerRequest'
<1> SUFFICES ASSUME TInv, WInv, InHand, OneResponsePerRequest, [Next]_vars, NEW c \in Conns
             PROVE  /\ Settled(open'[c], step'[c]) =>
                         Cardinality(Answers(wire'[c])) = served'[c]
                    /\ Owes(open'[c], step'[c]) =>
                         Cardinality(Answers(wire'[c])) + 1 = served'[c]
                    /\ Cardinality(Answers(wire'[c])) <= served'[c]
  BY DEF OneResponsePerRequest, Settled, Owes, Owing, Answers
<1>0. /\ step \in [Conns -> {"off", "read", "filter", "arm", "handle", "notify",
                             "reply", "body", "newline", "closed"}]
      /\ served \in [Conns -> 0 .. MaxRequests] /\ open \in [Conns -> BOOLEAN]
      /\ WireOK /\ wire[c] \in Seq(Int) /\ served[c] \in Nat
      /\ FanOK
  BY Parts, SizesNatural DEF TInv, TypeOK, ConnsOK, WireOK, OpenOK
<1>1. /\ Settled(open[c], step[c]) => Cardinality(Answers(wire[c])) = served[c]
      /\ Owes(open[c], step[c]) => Cardinality(Answers(wire[c])) + 1 = served[c]
      /\ Cardinality(Answers(wire[c])) <= served[c]
      /\ Cardinality(Answers(wire[c])) \in Nat
  BY <1>0, AnswersGrow DEF OneResponsePerRequest
<1> DEFINE Same == /\ Answers(wire'[c]) = Answers(wire[c]) /\ served'[c] = served[c]
                   /\ Settled(open'[c], step'[c]) => Settled(open[c], step[c])
                   /\ Owes(open'[c], step'[c]) => Owes(open[c], step[c])
<1>2. CASE Same
  <2>1. PICK n : n = Cardinality(Answers(wire[c]))
    OBVIOUS
  <2>2. n = Cardinality(Answers(wire'[c]))
    BY <1>2, <2>1
  <2> QED
    BY <1>1, <1>2, <2>1, <2>2
<1>3. ASSUME NEW b \in Conns,
             \/ Accept(b) \/ LockReply(b) \/ Eof(b) \/ SetFilter(b) \/ Arm(b) \/ Handle(b)
             \/ StorePaused(b) \/ NotifyPaused(b)
      PROVE  Same
  BY <1>0, <1>3 DEF Accept, LockReply, Eof, SetFilter, Arm, Handle, StorePaused,
     NotifyPaused, sockVars, Owing, Settled, Owes
<1>4. ASSUME NEW b \in Conns, NEW r \in Request, ReadLine(b, r), b # c
      PROVE  Same
  BY <1>0, <1>4 DEF ReadLine, sockVars
<1>5. ASSUME NEW r \in Request, ReadLine(c, r)
      PROVE  /\ step[c] = "read" /\ step'[c] \in Owing /\ open'[c] = open[c]
             /\ wire'[c] = wire[c] /\ served'[c] = served[c] + 1
  BY <1>0, <1>5 DEF ReadLine, sockVars, Owing
<1>6. ASSUME NEW b \in Conns, WriteReply(b), b # c
      PROVE  Same
  BY <1>0, <1>6 DEF WriteReply, WireOK
<1>7. ASSUME WriteReply(c)
      PROVE  \/ Same
             \/ /\ step[c] = "body" /\ step'[c] = "newline" /\ served'[c] = served[c]
                /\ wire'[c] = Append(wire[c], 0) /\ open[c]
  <2>1. served' = served /\ open' = open
    BY <1>7 DEF WriteReply
  <2>2. \/ step'[c] \in {"read", "closed"} /\ wire' = wire /\ ~open[c]
        \/ /\ step[c] = "body" /\ step'[c] = "newline" /\ open[c]
           /\ wire'[c] = Append(wire[c], 0)
        \/ /\ step[c] = "newline" /\ step'[c] = "read" /\ open[c]
           /\ wire'[c] = Append(wire[c], Newline)
    <3>1. CASE req[c].kind = "malformed"
      BY <1>0, <1>7, <3>1 DEF WriteReply, WireOK
    <3>2. CASE req[c].kind # "malformed"
      BY <1>0, <1>7, <3>2 DEF WriteReply, WireOK
    <3> QED
      BY <3>1, <3>2
  <2>3. Answers(Append(wire[c], Newline)) = Answers(wire[c])
    BY <1>0, AnswersGrow DEF Newline
  <2> QED
    BY <2>1, <2>2, <2>3 DEF Owing, Settled, Owes
<1>8. ASSUME NEW t \in Tasks, FanWrite(t)
      PROVE  Same
  <2>1. step' = step /\ served' = served /\ open' = open
    BY <1>8 DEF FanWrite, connVars
  <2>2. fan[t].next > 1 /\ fan[t].next \in Nat
    BY <1>0, <1>8 DEF InHand, FanWrite, FanOK
  <2>3. \/ wire'[c] = wire[c]
        \/ wire'[c] = Append(wire[c], fan[t].next - 1)
        \/ wire'[c] = Append(wire[c], Newline)
    BY <1>0, <1>8 DEF FanWrite, WireOK
  <2>4. /\ Answers(Append(wire[c], Newline)) = Answers(wire[c])
        /\ Answers(Append(wire[c], fan[t].next - 1)) = Answers(wire[c])
    <3>1. Newline \in Int /\ Newline # 0
      BY DEF Newline
    <3>2. fan[t].next - 1 \in Int /\ fan[t].next - 1 # 0
      BY <2>2
    <3> QED
      BY <1>0, <3>1, <3>2, AnswersGrow
  <2> QED
    BY <2>1, <2>3, <2>4
<1>9. ASSUME \/ UNCHANGED vars \/ (\E m \in ApprovalMethods : Emit(m)) \/ FwdRecv \/ FwdSend
             \/ \E b \in Conns : ClientRead(b) \/ ClientClose(b)
             \/ \E t \in Tasks : FanLock(t) \/ FanRecv(t) \/ FanCheck(t)
      PROVE  Same
  <2>1. ASSUME NEW b \in Conns, ClientClose(b) PROVE Same
    <3>1. UNCHANGED <<step, served, wire>> /\ (open'[c] = open[c] \/ ~open'[c])
      BY <1>0, <2>1 DEF ClientClose, connVars
    <3> QED
      BY <3>1 DEF Settled, Owes
  <2>2. ASSUME UNCHANGED <<step, served, wire, open>> PROVE Same
    BY <2>2
  <2>3. ASSUME \/ UNCHANGED vars \/ (\E m \in ApprovalMethods : Emit(m)) \/ FwdRecv \/ FwdSend
               \/ \E b \in Conns : ClientRead(b)
               \/ \E t \in Tasks : FanLock(t) \/ FanRecv(t) \/ FanCheck(t)
        PROVE  UNCHANGED <<step, served, wire, open>>
    BY <2>3 DEF vars, connVars, sockVars, Emit, FwdRecv, FwdSend, ClientRead, FanLock, FanRecv,
       FanCheck
  <2> HIDE DEF Same
  <2> QED
    BY <1>9, <2>1, <2>2, <2>3
<1>10. ASSUME NEW r \in Request, ReadLine(c, r)
       PROVE  /\ ~Settled(open'[c], step'[c])
              /\ Owes(open'[c], step'[c]) => Cardinality(Answers(wire'[c])) + 1 = served'[c]
              /\ Cardinality(Answers(wire'[c])) <= served'[c]
  <2>1. /\ wire'[c] = wire[c] /\ served'[c] = served[c] + 1
        /\ ~Settled(open'[c], step'[c])
        /\ Owes(open'[c], step'[c]) => Settled(open[c], step[c])
    BY <1>5, <1>10 DEF Owing, Settled, Owes
  <2> QED
    BY <1>0, <1>1, <2>1
<1>11. ASSUME step[c] = "body", step'[c] = "newline", served'[c] = served[c],
              wire'[c] = Append(wire[c], 0), open[c]
       PROVE  ~Owes(open'[c], step'[c]) /\ Cardinality(Answers(wire'[c])) = served'[c]
  <2>1. Owes(open[c], step[c]) /\ ~Owes(open'[c], step'[c])
    BY <1>11 DEF Owing, Owes
  <2> QED
    BY <1>0, <1>1, <1>11, <2>1, AnswersGrow
<1>12. CASE \E r \in Request : ReadLine(c, r)
  BY <1>10, <1>12
<1>13. CASE WriteReply(c)
  BY <1>0, <1>2, <1>7, <1>11, <1>13
<1> HIDE DEF Same
<1> QED
  BY <1>2, <1>3, <1>4, <1>6, <1>8, <1>9, <1>12, <1>13 DEF Next, ServeStep, FanStep

\* For any number of connections, requests and notifications.
THEOREM EachRequestAnsweredOnce == Spec => []OneResponsePerRequest
<1>1. Init => InHand /\ OneResponsePerRequest
  <2> SUFFICES ASSUME Init PROVE InHand /\ OneResponsePerRequest
    OBVIOUS
  <2>1. InHand
    BY TaskNames DEF Init, InHand
  <2>2. \A c \in Conns : Answers(wire[c]) = {} /\ served[c] = 0 /\ step[c] = "off"
    <3>1. Answers(<<>>) = {}
      BY DEF Answers
    <3> QED
      BY <3>1 DEF Init
  <2>3. Cardinality({}) = 0
    BY FS_EmptySet
  <2> QED
    BY <2>1, <2>2, <2>3 DEF OneResponsePerRequest, Owing, Owes
<1> QED
  BY <1>1, HandKept, CountKept, Typed, Wires, PTL DEF Spec
-----------------------------------------------------------------------------
(***************************************************************************)
(* Nobody waits in vain: the part of RequestsAnswered that is not about    *)
(* fairness.                                                               *)
(***************************************************************************)
\* serve_conn of c can go on with its request.
ConnReady(c) ==
  \/ step[c] \in {"filter", "arm", "notify"}
  \/ step[c] = "handle" /\ req[c].kind \in {"call", "pause"}
  \/ step[c] = "reply" /\ holder[c] = Nobody
  \/ step[c] \in {"body", "newline"} /\ (~open[c] \/ Room(c))

\* The fan-out task that holds the writer mutex of c can go on with its write.
WriterReady(c) ==
  \E t \in Tasks : /\ t[1] = c /\ holder[c] = t[2]
                   /\ fan[t].state \in {"body", "newline"} /\ (~open[c] \/ Room(c))

\* The client of c has yet to read what fills its socket.
ClientBehind(c) == open[c] /\ read[c] < Len(wire[c])

\* A request that serve_conn has not answered waits for nobody but the client: it can
\* go on itself, or it waits for the mutex and the task that holds it can go on, or
\* the socket is full of what the client has not read.  The mutex is never left
\* with a task that has ended, and the two tasks never wait for one another.
NobodyWaitsInVain ==
  \A c \in Conns :
    \/ step[c] \in {"off", "read", "closed"}
    \/ ConnReady(c) \/ WriterReady(c) \/ ClientBehind(c)

\* Whoever holds the mutex is writing, and a socket without room has something to
\* read.
THEOREM NoConnectionStuck == Spec => []NobodyWaitsInVain
<1>1. TInv /\ WInv /\ InHand => NobodyWaitsInVain
  <2> SUFFICES ASSUME TInv, WInv, InHand, NEW c \in Conns,
                      step[c] \notin {"off", "read", "closed"}
               PROVE  ConnReady(c) \/ WriterReady(c) \/ ClientBehind(c)
    BY DEF NobodyWaitsInVain
  <2>1. step[c] \in {"filter", "arm", "handle", "notify", "reply", "body", "newline"}
    BY DEF TInv, TypeOK, ConnsOK
  <2>2. holder[c] \in Nobody .. MaxRequests /\ open[c] \in BOOLEAN
    BY DEF TInv, TypeOK, TasksOK, SocketsOK
  <2>3. ~open[c] \/ Room(c) \/ ClientBehind(c)
    <3>1. Len(wire[c]) \in Nat /\ read[c] \in Nat
      BY DEF TInv, TypeOK, SocketsOK
    <3> QED
      BY <3>1, SizesNatural DEF Room, ClientBehind
  <2>4. CASE step[c] \in {"filter", "arm", "handle", "notify"}
    BY <2>4 DEF ConnReady, InHand
  <2>5. CASE step[c] \in {"body", "newline"}
    BY <2>3, <2>5 DEF ConnReady
  <2>6. CASE step[c] = "reply" /\ holder[c] = Nobody
    BY <2>6 DEF ConnReady
  <2>7. CASE step[c] = "reply" /\ holder[c] # Nobody
    <3>1. holder[c] # Main
      BY <2>7 DEF WInv, MutexHeld
    <3>2. holder[c] \in 1 .. MaxRequests
      BY <2>2, <2>7, <3>1, SizesNatural DEF Nobody, Main
    <3>3. PICK t \in Tasks : t[1] = c /\ t[2] = holder[c]
      <4>1. <<c, holder[c]>> \in Tasks
        BY <3>2 DEF Tasks
      <4> QED
        BY <4>1
    <3>4. fan[t].state \in {"body", "newline"}
      BY <3>3 DEF WInv, MutexHeld
    <3> QED
      BY <2>3, <3>3, <3>4 DEF WriterReady
  <2> QED
    BY <2>1, <2>4, <2>5, <2>6, <2>7
<1>2. Init => InHand
  BY TaskNames DEF Init, InHand
<1> QED
  BY <1>1, <1>2, HandKept, Typed, Wires, PTL DEF Spec
=============================================================================
