----------------------------- MODULE PipeClient -----------------------------
(***************************************************************************)
(* The Windows tray's IpcClient (tray-app-win/MailMCP/IPC/IpcClient.cs):   *)
(* view models on several threads call over one named pipe, a read loop    *)
(* routes the responses.  StartupAsync connects once, and nobody connects  *)
(* again.                                                                  *)
(*                                                                         *)
(* StreamWriter is external.  It keeps written lines in a buffer until     *)
(* they are flushed, throws InvalidOperationException while a flush that   *)
(* somebody else has started is under way, and is not meant for two        *)
(* threads at once (Overlap).  Requests are shorter than its buffer.       *)
(* Notifications are the subject of TrayApprovals; DisposeAsync, which     *)
(* fails what is pending when the application ends, is left out.           *)
(***************************************************************************)
EXTENDS Naturals, Sequences

CONSTANTS
  Callers,   \* tasks of the tray that call the daemon
  Faults,    \* "exit": the daemon may exit; "overlap": two threads may write
             \* at the same moment
  MaxCalls,  \* bound: calls made
  None

VARIABLES
  nextId,    \* _nextId
  call,      \* call[c]: the call of c
  pending,   \* _pending: id, and the call whose task it completes
  buffer,    \* lines in _writer that are not flushed
  flusher,   \* the caller whose flush is under way, or None
  reader,    \* ReadLoopAsync: reading, ended, or faulted by an exception
  open,      \* the daemon's end of the pipe is open
  up, down,  \* lines on their way to the daemon and back
  overlapped, \* whether two threads have written at the same moment
  calls

writer == <<buffer, flusher>>
pipe == <<reader, open, up, down>>
vars == <<nextId, call, pending, writer, pipe, overlapped, calls>>

\* A request, and the response to it: its id, and which call of the tray it
\* is.  The response to a line the daemon cannot parse has the id null.
Frame(c) == [id |-> call[c].id, serial |-> call[c].serial]
Damaged == [id |-> 0, serial |-> 0]

Idle == [step |-> "idle", id |-> 0, serial |-> 0, answer |-> 0]
Running == {"ready", "written", "flushing", "sent"}

Init ==
  /\ nextId = 0 /\ call = [c \in Callers |-> Idle] /\ pending = {}
  /\ buffer = <<>> /\ flusher = None
  /\ reader = "reading" /\ open = TRUE /\ up = <<>> /\ down = <<>>
  /\ overlapped = FALSE /\ calls = 0
------------------------------------------------------------------------------
(***************************************************************************)
(* CallAsync.                                                              *)
(***************************************************************************)
Goto(c, step) == call' = [call EXCEPT ![c].step = step]

Registered(id, serial, c) ==
  {p \in pending : p.id # id} \union {[id |-> id, serial |-> serial, of |-> c]}

MutantBegin(c) ==   \* two threads may read the same _nextId
  /\ call[c].step \notin Running /\ calls < MaxCalls /\ calls' = calls + 1
  /\ nextId' \in {nextId, nextId + 1}
  /\ call' = [call EXCEPT ![c] = [Idle EXCEPT !.step = "ready", !.id = nextId + 1,
                                              !.serial = calls + 1]]
  /\ pending' = Registered(nextId + 1, calls + 1, c)
  /\ UNCHANGED <<writer, pipe, overlapped>>

\* The id and the task are taken and registered before anything is written.
Begin(c) ==
  /\ call[c].step \notin Running /\ calls < MaxCalls /\ calls' = calls + 1
  /\ nextId' = nextId + 1
  /\ call' = [call EXCEPT ![c] = [Idle EXCEPT !.step = "ready", !.id = nextId + 1,
                                              !.serial = calls + 1]]
  /\ pending' = Registered(nextId + 1, calls + 1, c)
  /\ UNCHANGED <<writer, pipe, overlapped>>

\* WriteLineAsync.  The task stays registered when it throws.
WriteLine(c) ==
  /\ call[c].step = "ready"
  /\ \/ /\ flusher = None /\ Goto(c, "written") /\ buffer' = Append(buffer, Frame(c))
     \/ /\ flusher # None /\ Goto(c, "threw") /\ UNCHANGED buffer
  /\ UNCHANGED <<nextId, pending, flusher, pipe, overlapped, calls>>

\* Two threads in WriteLineAsync at once: a line of both, or of one of them.
Overlap(c, d) ==
  /\ "overlap" \in Faults /\ c # d /\ flusher = None
  /\ call[c].step = "ready" /\ call[d].step = "ready"
  /\ call' = [call EXCEPT ![c].step = "written", ![d].step = "written"]
  /\ \E line \in {Damaged, Frame(c), Frame(d)} : buffer' = Append(buffer, line)
  /\ overlapped' = TRUE
  /\ UNCHANGED <<nextId, pending, flusher, pipe, calls>>

\* FlushAsync sends everybody's lines, and throws when another flush is under
\* way or the pipe is broken.
StartFlush(c) ==
  /\ call[c].step = "written"
  /\ \/ /\ flusher # None /\ Goto(c, "threw") /\ UNCHANGED <<writer, up>>
     \/ /\ flusher = None /\ open
        /\ flusher' = c /\ up' = up \o buffer /\ buffer' = <<>> /\ Goto(c, "flushing")
     \/ /\ flusher = None /\ ~open
        /\ buffer' = <<>> /\ Goto(c, "threw") /\ UNCHANGED <<flusher, up>>
  /\ UNCHANGED <<nextId, pending, reader, open, down, overlapped, calls>>

EndFlush(c) ==
  /\ flusher = c /\ flusher' = None
  /\ Goto(c, "sent") \/ (~open /\ Goto(c, "threw"))
  /\ UNCHANGED <<nextId, pending, buffer, pipe, overlapped, calls>>

\* await tcs.Task: no timeout, and the callers' tokens are cancelled only when
\* the application ends.
Return(c) ==
  /\ call[c].step = "sent" /\ call[c].answer # 0 /\ Goto(c, "ok")
  /\ UNCHANGED <<nextId, pending, writer, pipe, overlapped, calls>>
------------------------------------------------------------------------------
(***************************************************************************)
(* ReadLoopAsync and RouteFrame.                                           *)
(***************************************************************************)
Route(f, hits) ==
  /\ reader = "reading" /\ down # <<>> /\ f = Head(down) /\ down' = Tail(down)
  /\ pending' = pending \ hits
  /\ call' = [c \in Callers |->
                IF \E p \in hits : p.of = c /\ p.serial = call[c].serial
                THEN [call[c] EXCEPT !.answer = f.serial] ELSE call[c]]
  \* neither a response nor a notification: Decode throws, and the loop with it
  /\ reader' = IF hits = {} THEN "faulted" ELSE reader
  /\ UNCHANGED <<nextId, writer, open, up, overlapped, calls>>

RouteFrame ==
  down # <<>> /\ LET f == Head(down) IN Route(f, {p \in pending : p.id = f.id})

\* ReadLineAsync returns null: the loop ends, and that is all.
Eof ==
  /\ reader = "reading" /\ down = <<>> /\ ~open /\ reader' = "ended"
  /\ UNCHANGED <<nextId, call, pending, writer, open, up, down, overlapped, calls>>
------------------------------------------------------------------------------
(***************************************************************************)
(* The daemon: serve_conn answers one line after the other.                *)
(***************************************************************************)
Answer ==
  /\ open /\ up # <<>> /\ up' = Tail(up) /\ down' = Append(down, Head(up))
  /\ UNCHANGED <<nextId, call, pending, writer, reader, open, overlapped, calls>>

Exit ==
  /\ "exit" \in Faults /\ open /\ open' = FALSE
  /\ UNCHANGED <<nextId, call, pending, writer, reader, up, down, overlapped, calls>>

Step(c) == WriteLine(c) \/ StartFlush(c) \/ EndFlush(c) \/ Return(c)

Next ==
  \/ \E c \in Callers : Begin(c) \/ Step(c)
  \/ \E c, d \in Callers : Overlap(c, d)
  \/ RouteFrame \/ Eof \/ Answer \/ Exit

Spec == Init /\ [][Next]_vars

\* The thread pool runs every task, a write to the pipe ends, and the daemon
\* answers what it has read.
Fairness ==
  /\ \A c \in Callers : WF_vars(Step(c))
  /\ WF_vars(RouteFrame) /\ WF_vars(Eof) /\ WF_vars(Answer)

LiveSpec == Spec /\ Fairness
------------------------------------------------------------------------------
(***************************************************************************)
(* Properties.                                                             *)
(***************************************************************************)
TypeOK ==
  /\ nextId \in 0 .. MaxCalls /\ calls \in 0 .. MaxCalls
  /\ call \in [Callers -> [step : Running \union {"idle", "ok", "threw"},
                           id : 0 .. MaxCalls, serial : 0 .. MaxCalls,
                           answer : 0 .. MaxCalls]]
  /\ pending \subseteq [id : 1 .. MaxCalls, serial : 1 .. MaxCalls, of : Callers]
  /\ flusher # None => call[flusher].step = "flushing"
  /\ reader \in {"reading", "ended", "faulted"} /\ open \in BOOLEAN

\* "Send a JSON-RPC request and await the matching response" (IpcClient.cs:68):
\* a call gets the response to its own request, whatever calls threw before it
\* and left their tasks registered and their lines in the buffer.
AnswerIsMine ==
  \A c \in Callers : call[c].step = "ok" => call[c].answer = call[c].serial

Waits(c) == call[c].step \in Running
Returned(c) == ~Waits(c) \/ ~open \/ overlapped

\* And every call gets one or throws (CallAsync has no timeout): a response may
\* come before the flush that sent the request has ended.  When the daemon exits
\* or a line is damaged, calls wait for ever: those cases are left out.
EveryCallReturns == \A c \in Callers : Waits(c) ~> Returned(c)
==============================================================================
