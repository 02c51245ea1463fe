----------------------------- MODULE Trays_proofs -----------------------------
(***************************************************************************)
(* Proofs about Trays: AnswerIsMine, PendingIsUnderWay and that no call is *)
(* forgotten, for every number of callers, calls, connections, exits and   *)
(* approvals.                                                              *)
(*                                                                         *)
(* The invariant has a part for each client and one for the approvals.  A  *)
(* client's says that a frame anywhere under way carries the call that its *)
(* id stands for; the approvals' follow the request for a modal from       *)
(* `todo' to the screen, and with it the filter and the one subscription.  *)
(***************************************************************************)
EXTENDS Trays, SequenceTheorems, NaturalsInduction, WellFoundedInduction, TLAPS

(***************************************************************************)
(* The invariants.                                                         *)
(***************************************************************************)
\* macOS: an id that has been given out belongs to one call, in the frames as in
\* the calls that wait.
MacGenuine ==
  {f \in Mac!Frame : /\ f.id < nextId
                     /\ \A c \in Callers : call[c].step \in Mac!Running /\ call[c].id = f.id
                                             => f.serial = call[c].serial}

MacInv ==
  /\ fd \in {0} \union Mac!Conns
  /\ nextId \in Nat /\ calls \in Nat /\ call \in [Callers -> Mac!CallState]
  /\ \A c \in Callers : call[c].step \in Mac!Running => call[c].id < nextId
  /\ pending \subseteq {c \in Callers : call[c].step = "parked"}
  /\ early \subseteq MacGenuine
  /\ up \in [Mac!Conns -> Seq(MacGenuine)] /\ down \in [Mac!Conns -> Seq(MacGenuine)]
  /\ Mac!AnswerIsMine

\* Windows: a line carries the call that is registered under its id, and so does
\* the line that a call would write; damaged lines have an id nobody has.
WinCall == [step : Win!Running \union {"idle", "ok", "threw"}, id : Nat, serial : Nat,
            answer : Nat]

WinGenuine ==
  {f \in [id : Nat, serial : Nat] :
     f.id <= winNextId /\ \A p \in winPending : p.id = f.id => p.serial = f.serial}

WinInv ==
  /\ winNextId \in Nat /\ winCalls \in Nat /\ winCall \in [Callers -> WinCall]
  /\ winPending \subseteq [id : Nat \ {0}, serial : Nat, of : Callers]
  /\ \A c \in Callers : Win!Frame(c) \in WinGenuine
  /\ buffer \in Seq(WinGenuine) /\ winUp \in Seq(WinGenuine) /\ winDown \in Seq(WinGenuine)
  /\ \A c \in Callers : winCall[c].answer \in {0, winCall[c].serial}
  /\ Win!AnswerIsMine

\* The approvals.
Names == Approvals \union Counted \union {None}
Events == {"requested", "resolved", "account"} \X Names
Tasks == {"loop", "notes"}
Counts == {Menu!Cardinality(q) : q \in SUBSET Names}
Requests(S) == [kind : {"subscribe"}, arg : S] \union [kind : {"status", "list"}, arg : Tasks]
                 \union [kind : {"decide"}, arg : Names]
Replies(S) == [kind : {"ack"}, arg : S] \union [kind : {"status"}, arg : Tasks]
                \union [kind : {"list"}, arg : Tasks, n : Counts]
                \union [kind : {"decided"}, arg : Names] \union [kind : {"note"}, arg : Events]

TrayTypes(S) ==
  /\ queue \subseteq born /\ covered \subseteq born /\ born \subseteq Names
  /\ todo \subseteq Events /\ bus \in Seq(Events)
  /\ toDaemon \in Seq(Requests(S)) /\ toTray \in Seq(Replies(S))
  /\ sub \in [S -> {"new", "asked", "acked", "streaming", "ended"}]
  /\ inbox \in [S \ {"accounts"} -> Seq(Events)]
  /\ modal \in [approval : Names, decided : BOOLEAN] /\ restarts \in Nat

\* The coordinator's subscription, on its way to the daemon and back.
Asks == [kind |-> "subscribe", arg |-> "coordinator"]
Acks == [kind |-> "ack", arg |-> "coordinator"]

AtMostOnce(s, x) == \A i, j \in DOMAIN s : s[i] = x /\ s[j] = x => i = j

\* It subscribes once: an answer to it never comes when it has its stream.
Once ==
  /\ AtMostOnce(toDaemon, Asks) /\ AtMostOnce(toTray, Acks)
  /\ ~(Asks \in Menu!ToSet(toDaemon) /\ Acks \in Menu!ToSet(toTray))
  /\ Asks \in Menu!ToSet(toDaemon) \/ Acks \in Menu!ToSet(toTray)
       => sub["coordinator"] = "asked"

\* From then on the filter lets requests through, unless somebody has displaced it.
Filtered ==
  \/ Menu!Displaced
  \/ /\ filter # {} => "requested" \in filter
     /\ Acks \in Menu!ToSet(toTray) => filter # {}
     /\ sub["coordinator"] \in {"acked", "streaming"} => filter # {}
     /\ \A r \in Menu!ToSet(toDaemon) : r.kind = "subscribe" => "requested" \in Menu!Wants(r.arg)

\* An approval that counts was asked for under the stream that is still there.
Streaming == queue \intersect covered # {} => sub["coordinator"] = "streaming"

TrayInv(S) == TrayTypes(S) /\ Once /\ Filtered /\ Streaming /\ Menu!PendingIsUnderWay

ModalsSubs == {"accounts", "coordinator"}
MenuSubs == {"status", "coordinator"}

TInv ==
  /\ MacInv /\ WinInv
  /\ part = "modals" => TrayInv(ModalsSubs)
  /\ part # "modals" => TrayInv(MenuSubs)
------------------------------------------------------------------------------
(***************************************************************************)
(* Sequences.                                                              *)
(***************************************************************************)
\* A sequence over a set is one over every larger set.
LEMMA SeqMono == \A A, B : A \subseteq B => Seq(A) \subseteq Seq(B)
  OBVIOUS

\* What appending and taking the head do to the members of a sequence.
LEMMA Members ==
  ASSUME NEW S, NEW s \in Seq(S)
  PROVE  /\ \A x \in S : Menu!ToSet(Append(s, x)) = Menu!ToSet(s) \union {x}
         /\ s # <<>> => Menu!ToSet(s) = Menu!ToSet(Tail(s)) \union {Head(s)}
<1>1. ASSUME NEW x \in S
      PROVE  Menu!ToSet(Append(s, x)) = Menu!ToSet(s) \union {x}
  <2>1. /\ DOMAIN Append(s, x) = 1 .. Len(s) + 1 /\ DOMAIN s = 1 .. Len(s) /\ Len(s) \in Nat
        /\ \A i \in 1 .. Len(s) : Append(s, x)[i] = s[i]
        /\ Append(s, x)[Len(s) + 1] = x
    OBVIOUS
  <2> QED
    BY <2>1 DEF Menu!ToSet
<1>2. ASSUME s # <<>>
      PROVE  Menu!ToSet(s) = Menu!ToSet(Tail(s)) \union {Head(s)}
  <2>1. /\ DOMAIN Tail(s) = 1 .. Len(s) - 1 /\ DOMAIN s = 1 .. Len(s)
        /\ Len(s) \in Nat \ {0} /\ Head(s) = s[1]
        /\ \A i \in 1 .. Len(s) - 1 : Tail(s)[i] = s[i + 1]
    BY <1>2
  <2>2. \A i \in 1 .. Len(s) : i = 1 \/ (i - 1 \in 1 .. Len(s) - 1 /\ Tail(s)[i - 1] = s[i])
    BY <2>1
  <2>3. Menu!ToSet(s) \subseteq Menu!ToSet(Tail(s)) \union {Head(s)}
    <3> SUFFICES ASSUME NEW x \in Menu!ToSet(s)
                 PROVE  x = Head(s) \/ x \in Menu!ToSet(Tail(s))
      OBVIOUS
    <3>1. PICK i \in 1 .. Len(s) : x = s[i]
      BY <2>1 DEF Menu!ToSet
    <3>2. CASE i - 1 \in 1 .. Len(s) - 1 /\ Tail(s)[i - 1] = s[i]
      BY <2>1, <3>1, <3>2 DEF Menu!ToSet
    <3> QED
      BY <2>1, <2>2, <3>1, <3>2
  <2>4. Menu!ToSet(Tail(s)) \union {Head(s)} \subseteq Menu!ToSet(s)
    BY <2>1 DEF Menu!ToSet
  <2> QED
    BY <2>3, <2>4
<1> QED
  BY <1>1, <1>2

\* What they do to an entry that a sequence has at most once.
LEMMA OnceKept ==
  ASSUME NEW S, NEW s \in Seq(S), NEW x, AtMostOnce(s, x)
  PROVE  /\ \A y \in S : y # x \/ x \notin Menu!ToSet(s) => AtMostOnce(Append(s, y), x)
         /\ s # <<>> => /\ AtMostOnce(Tail(s), x)
                        /\ Head(s) = x => x \notin Menu!ToSet(Tail(s))
<1>1. ASSUME NEW y \in S, y # x \/ x \notin Menu!ToSet(s)
      PROVE  AtMostOnce(Append(s, y), x)
  <2>1. /\ DOMAIN Append(s, y) = 1 .. Len(s) + 1 /\ DOMAIN s = 1 .. Len(s) /\ Len(s) \in Nat
        /\ \A i \in 1 .. Len(s) : Append(s, y)[i] = s[i]
        /\ Append(s, y)[Len(s) + 1] = y
    OBVIOUS
  <2> QED
    BY <1>1, <2>1 DEF AtMostOnce, Menu!ToSet
<1>2. ASSUME s # <<>>
      PROVE  AtMostOnce(Tail(s), x) /\ (Head(s) = x => x \notin Menu!ToSet(Tail(s)))
  <2>1. /\ DOMAIN Tail(s) = 1 .. Len(s) - 1 /\ DOMAIN s = 1 .. Len(s)
        /\ Len(s) \in Nat \ {0} /\ Head(s) = s[1]
        /\ \A i \in 1 .. Len(s) - 1 : Tail(s)[i] = s[i + 1]
    BY <1>2
  <2>2. AtMostOnce(Tail(s), x)
    BY <2>1 DEF AtMostOnce
  <2>3. ASSUME Head(s) = x, NEW i \in 1 .. Len(s) - 1, Tail(s)[i] = x PROVE FALSE
    <3>1. 1 \in DOMAIN s /\ i + 1 \in DOMAIN s /\ s[1] = x /\ s[i + 1] = x
      BY <2>1, <2>3
    <3> QED
      BY <3>1 DEF AtMostOnce
  <2> QED
    BY <2>1, <2>2, <2>3 DEF Menu!ToSet
<1> QED
  BY <1>1, <1>2

------------------------------------------------------------------------------
(***************************************************************************)
(* The macOS client.                                                       *)
(***************************************************************************)
\* Frames stay genuine when ids grow and a call that waits is one that waited
\* before, or has an id that no frame has.
LEMMA MacCarry ==
  ASSUME MacInv, nextId' \in Nat, nextId <= nextId',
         \A c \in Callers : call'[c].step \in Mac!Running =>
           \/ /\ call[c].step \in Mac!Running /\ call'[c].id = call[c].id
              /\ call'[c].serial = call[c].serial
           \/ call'[c].id = nextId
  PROVE  /\ MacGenuine \subseteq MacGenuine'
         /\ \A s \in Seq(MacGenuine) : s \in Seq(MacGenuine')
<1>1. MacGenuine \subseteq MacGenuine'
  BY DEF MacInv, MacGenuine, Mac!Frame
<1> QED
  BY <1>1, SeqMono

\* A step that only moves calls on: nothing is sent, stashed or delivered.
LEMMA MacQuiet ==
  ASSUME MacInv, UNCHANGED <<nextId, up, down, calls>>, early' \subseteq early,
         fd' \in {0, fd}, call' \in [Callers -> Mac!CallState],
         pending' \subseteq {c \in Callers : call'[c].step = "parked"},
         \A c \in Callers :
           /\ call'[c].step \in Mac!Running =>
                /\ call[c].step \in Mac!Running /\ call'[c].id = call[c].id
                /\ call'[c].serial = call[c].serial
           /\ call'[c].step = "ok" => call'[c].got.serial = call'[c].serial
  PROVE  MacInv'
<1>1. /\ MacGenuine \subseteq MacGenuine'
      /\ \A s \in Seq(MacGenuine) : s \in Seq(MacGenuine')
  BY MacCarry DEF MacInv
<1>2. up' \in [Mac!Conns -> Seq(MacGenuine')] /\ down' \in [Mac!Conns -> Seq(MacGenuine')]
  BY <1>1 DEF MacInv
<1>3. early' \subseteq MacGenuine'
  BY <1>1 DEF MacInv
<1> QED
  BY <1>2, <1>3 DEF MacInv, Mac!AnswerIsMine

\* A call that returns: late, or with this step and frame.
LEMMA MacReturn ==
  ASSUME NEW k \in Mac!CallState, NEW s \in {"ok", "failed"}, NEW f \in Mac!Frame
  PROVE  /\ Mac!Return(k, s, f) \in Mac!CallState
         /\ Mac!Return(k, s, f).step \in {"timeout", s}
         /\ Mac!Return(k, s, f).got = f
         /\ Mac!Return(k, s, f).id = k.id /\ Mac!Return(k, s, f).serial = k.serial
<1> DEFINE t == IF k.timedOut THEN "timeout" ELSE s
<1>1. t \in {"timeout", s}
  OBVIOUS
<1>2. Mac!Return(k, s, f) = [k EXCEPT !.step = t, !.got = f]
  BY DEF Mac!Return
<1> HIDE DEF t
<1> QED
  BY <1>1, <1>2 DEF Mac!CallState, Mac!Running

\* A new connection is one that was never made.
LEMMA MacUsed ==
  ASSUME ~Mac!Connected, Mac!Used # 0
  PROVE  Mac!Used \in Mac!Conns /\ reader[Mac!Used] = "none"
<1> DEFINE New == {k \in Mac!Conns : reader[k] = "none"}
           R == OpToRel(<, Nat)
           P(k) == reader[k] = "none" /\ \A j \in 1 .. k - 1 : reader[j] # "none"
<1>1. /\ Mac!Used = CHOOSE k \in Mac!Conns : P(k)
      /\ New # {}
  BY DEF Mac!Used
<1>2. New \subseteq Nat /\ Mac!Conns \subseteq Nat
  BY ConnsSome DEF Mac!Conns
<1>3. PICK m \in New : \A y \in New : ~ (<<y, m>> \in R)
  <2> HIDE DEF New, R
  <2>1. IsWellFoundedOn(R, Nat)
    BY NatLessThanWellFounded DEF R
  <2> QED
    BY <1>1, <1>2, <2>1, WFMin
<1>4. P(m)
  <2> SUFFICES ASSUME NEW j \in 1 .. m - 1, reader[j] = "none" PROVE FALSE
    BY <1>3
  <2>1. m \in Mac!Conns /\ m \in Nat
    BY <1>2, <1>3
  <2>2. j \in Mac!Conns /\ j \in Nat /\ j < m
    BY <2>1, ConnsSome DEF Mac!Conns
  <2> QED
    BY <1>3, <2>1, <2>2 DEF OpToRel
<1>5. m \in Mac!Conns
  BY <1>3
<1> HIDE DEF P
<1>6. Mac!Used \in Mac!Conns /\ P(Mac!Used)
  BY <1>1, <1>4, <1>5
<1> QED
  BY <1>6 DEF P

\* Every step of the macOS client keeps its invariant.
LEMMA MacStep == MacInv /\ Mac!Next => MacInv'
<1> SUFFICES ASSUME MacInv, Mac!Next PROVE MacInv'
  OBVIOUS
<1>0. /\ call \in [Callers -> Mac!CallState] /\ nextId \in Nat /\ calls \in Nat
      /\ fd \in {0} \union Mac!Conns
      /\ pending \subseteq {c \in Callers : call[c].step = "parked"}
      /\ Mac!NoFrame \in Mac!Frame
      /\ \A c \in Callers : call[c].step = "ok" => call[c].got.serial = call[c].serial
  BY DEF MacInv, Mac!NoFrame, Mac!Frame, Mac!AnswerIsMine
<1>1. ASSUME NEW c \in Callers, Mac!Call(c) PROVE MacInv'
  <2> DEFINE new == [id |-> nextId, serial |-> calls + 1]
  <2>1. /\ call[c].step \notin Mac!Running /\ calls' = calls + 1 /\ nextId' = nextId + 1
        /\ call' = [call EXCEPT ![c] = Mac!Written(nextId)]
        /\ up' = [up EXCEPT ![Mac!Used] = Append(@, new)]
        /\ Mac!Used # 0 /\ Mac!Reconnect(Mac!Used) /\ UNCHANGED <<pending, early, down>>
    BY <1>1 DEF Mac!Call, Mac!Start
  <2>a. Mac!Used \in {0} \union Mac!Conns /\ fd' \in {0} \union Mac!Conns
    <3>1. CASE Mac!Connected
      BY <1>0, <2>1, <3>1 DEF Mac!Used, Mac!Reconnect
    <3>2. CASE ~Mac!Connected
      BY <2>1, <3>2, MacUsed DEF Mac!Reconnect
    <3> QED
      BY <3>1, <3>2
  <2>2. /\ Mac!Written(nextId).step = "written" /\ Mac!Written(nextId).id = nextId
        /\ Mac!Written(nextId).serial = calls + 1
    BY DEF Mac!Written, Mac!Idle
  <2>3. Mac!Written(nextId) \in Mac!CallState
    <3>1. Mac!Idle \in Mac!CallState
      BY DEF Mac!Idle, Mac!CallState, Mac!Frame
    <3>2. calls + 1 \in Nat
      BY <1>0
    <3>3. PICK u \in {0} \union Mac!Conns : u = Mac!Used
      BY <2>a
    <3> QED
      BY <1>0, <3>1, <3>2, <3>3 DEF Mac!Written, Mac!CallState, Mac!Running
  <2>4. call' \in [Callers -> Mac!CallState]
    BY <1>0, <2>1, <2>3
  <2>5. \A e \in Callers : call'[e] = IF e = c THEN Mac!Written(nextId) ELSE call[e]
    BY <1>0, <2>1
  <2>6. /\ MacGenuine \subseteq MacGenuine'
        /\ \A s \in Seq(MacGenuine) : s \in Seq(MacGenuine')
    BY <1>0, <2>1, <2>2, <2>5, MacCarry
  <2>7. new \in MacGenuine'
    <3>1. new \in Mac!Frame /\ new.id < nextId'
      BY <1>0, <2>1 DEF Mac!Frame
    <3>2. ASSUME NEW e \in Callers, call'[e].step \in Mac!Running, call'[e].id = new.id
          PROVE  new.serial = call'[e].serial
      <4>1. CASE e = c
        BY <2>2, <2>5, <4>1
      <4>2. CASE e # c
        BY <1>0, <2>5, <3>2, <4>2 DEF MacInv
      <4> QED
        BY <4>1, <4>2
    <3> QED
      BY <3>1, <3>2 DEF MacGenuine
  <2>8. up' \in [Mac!Conns -> Seq(MacGenuine')] /\ down' \in [Mac!Conns -> Seq(MacGenuine')]
    <3> HIDE DEF new
    <3>1. \A k \in Mac!Conns : up[k] \in Seq(MacGenuine') /\ Append(up[k], new) \in Seq(MacGenuine')
      BY <2>6, <2>7 DEF MacInv
    <3>2. up' \in [Mac!Conns -> Seq(MacGenuine')]
      BY <2>1, <3>1 DEF MacInv
    <3>3. down' \in [Mac!Conns -> Seq(MacGenuine')]
      BY <2>1, <2>6 DEF MacInv
    <3> QED
      BY <3>2, <3>3
  <2>9. pending' \subseteq {e \in Callers : call'[e].step = "parked"}
    BY <1>0, <2>1, <2>5 DEF Mac!Running
  <2>10. \A e \in Callers : call'[e].step \in Mac!Running => call'[e].id < nextId'
    BY <1>0, <2>1, <2>2, <2>5 DEF MacInv, Mac!CallState
  <2>11. \A e \in Callers : call'[e].step = "ok" => call'[e].got.serial = call'[e].serial
    BY <1>0, <2>2, <2>5
  <2> QED
    BY <1>0, <2>1, <2>a, <2>4, <2>6, <2>8, <2>9, <2>10, <2>11 DEF MacInv, Mac!AnswerIsMine
<1>2. ASSUME NEW c \in Callers, Mac!CallFails(c) PROVE MacInv'
  <2>1. /\ call[c].step \notin Mac!Running /\ calls' = calls + 1
        /\ nextId' \in {nextId, nextId + 1}
        /\ call' = [call EXCEPT ![c] = [Mac!Idle EXCEPT !.step = "failed"]]
        /\ UNCHANGED <<fd, pending, early, up, down>>
    BY <1>0, <1>2 DEF Mac!CallFails, Mac!Start, Mac!wire
  <2>2. /\ [Mac!Idle EXCEPT !.step = "failed"] \in Mac!CallState
        /\ [Mac!Idle EXCEPT !.step = "failed"].step = "failed"
    BY DEF Mac!Idle, Mac!CallState, Mac!Frame
  <2>3. call' \in [Callers -> Mac!CallState]
    BY <1>0, <2>1, <2>2
  <2>4. \A e \in Callers : call'[e] = IF e = c THEN [Mac!Idle EXCEPT !.step = "failed"]
                                      ELSE call[e]
    BY <1>0, <2>1
  <2>5. /\ MacGenuine \subseteq MacGenuine'
        /\ \A s \in Seq(MacGenuine) : s \in Seq(MacGenuine')
    BY <1>0, <2>1, <2>2, <2>4, MacCarry DEF Mac!Running
  <2>6. up' \in [Mac!Conns -> Seq(MacGenuine')] /\ down' \in [Mac!Conns -> Seq(MacGenuine')]
    BY <2>1, <2>5 DEF MacInv
  <2>7. pending' \subseteq {e \in Callers : call'[e].step = "parked"}
    BY <1>0, <2>1, <2>4 DEF Mac!Running
  <2>8. \A e \in Callers : call'[e].step \in Mac!Running => call'[e].id < nextId'
    BY <1>0, <2>1, <2>2, <2>4 DEF MacInv, Mac!CallState, Mac!Running
  <2>9. \A e \in Callers : call'[e].step = "ok" => call'[e].got.serial = call'[e].serial
    BY <1>0, <2>2, <2>4
  <2> QED
    BY <1>0, <2>1, <2>3, <2>5, <2>6, <2>7, <2>8, <2>9 DEF MacInv, Mac!AnswerIsMine
<1>3. ASSUME NEW c \in Callers, Mac!Await(c) PROVE MacInv'
  <2>0. /\ call[c].step = "written" /\ UNCHANGED <<fd, nextId, up, down, calls>>
    BY <1>3 DEF Mac!Await, Mac!wire
  <2>1. c \notin pending
    BY <1>0, <2>0
  <2>2. CASE /\ call' = [call EXCEPT ![c] = Mac!Return(@, "failed", Mac!NoFrame)]
             /\ UNCHANGED <<pending, early>>
    <3>1. \A e \in Callers : call'[e] = IF e = c THEN Mac!Return(call[c], "failed", Mac!NoFrame)
                                        ELSE call[e]
      BY <1>0, <2>2
    <3>2. /\ Mac!Return(call[c], "failed", Mac!NoFrame) \in Mac!CallState
          /\ Mac!Return(call[c], "failed", Mac!NoFrame).step \in {"timeout", "failed"}
      BY <1>0, MacReturn
    <3>3. call' \in [Callers -> Mac!CallState]
      BY <1>0, <2>2, <3>2
    <3> QED
      BY <1>0, <2>0, <2>1, <2>2, <3>1, <3>2, <3>3, MacQuiet DEF Mac!Running
  <2>3. CASE \E f \in early : /\ f.id = call[c].id
                              /\ call' = [call EXCEPT ![c] = Mac!Return(@, "ok", f)]
                              /\ early' = early \ {f} /\ UNCHANGED pending
    <3>1. PICK f \in early : /\ f.id = call[c].id
                             /\ call' = [call EXCEPT ![c] = Mac!Return(@, "ok", f)]
                             /\ early' = early \ {f} /\ UNCHANGED pending
      BY <2>3
    <3>2. f \in Mac!Frame /\ f.serial = call[c].serial
      BY <2>0, <3>1 DEF MacInv, MacGenuine, Mac!Running
    <3>3. \A e \in Callers : call'[e] = IF e = c THEN Mac!Return(call[c], "ok", f) ELSE call[e]
      BY <1>0, <3>1
    <3>4. /\ Mac!Return(call[c], "ok", f) \in Mac!CallState
          /\ Mac!Return(call[c], "ok", f).step \in {"timeout", "ok"}
          /\ Mac!Return(call[c], "ok", f).got = f
          /\ Mac!Return(call[c], "ok", f).serial = call[c].serial
      BY <1>0, <3>2, MacReturn
    <3>5. call' \in [Callers -> Mac!CallState]
      BY <1>0, <3>1, <3>4
    <3> QED
      BY <1>0, <2>0, <2>1, <3>1, <3>2, <3>3, <3>4, <3>5, MacQuiet DEF Mac!Running
  <2>4. CASE /\ call' = [call EXCEPT ![c].step = "parked"] /\ pending' = pending \union {c}
             /\ UNCHANGED early
    <3>1. \A e \in Callers : call'[e] = IF e = c THEN [call[c] EXCEPT !.step = "parked"] ELSE call[e]
      BY <1>0, <2>4
    <3>2. /\ [call[c] EXCEPT !.step = "parked"] \in Mac!CallState
          /\ [call[c] EXCEPT !.step = "parked"].step = "parked"
          /\ [call[c] EXCEPT !.step = "parked"].id = call[c].id
          /\ [call[c] EXCEPT !.step = "parked"].serial = call[c].serial
      BY <1>0 DEF Mac!CallState, Mac!Running
    <3>3. call' \in [Callers -> Mac!CallState]
      BY <1>0, <2>4, <3>2
    <3> QED
      BY <1>0, <2>0, <2>1, <2>4, <3>1, <3>2, <3>3, MacQuiet DEF Mac!Running
  <2> QED
    BY <1>3, <2>2, <2>3, <2>4 DEF Mac!Await
<1>4. ASSUME NEW c \in Callers, Mac!Timeout(c) PROVE MacInv'
  <2>1. /\ call[c].step \in Mac!Running /\ call' = [call EXCEPT ![c].timedOut = TRUE]
        /\ UNCHANGED <<fd, nextId, pending, early, up, down, calls>>
    BY <1>4 DEF Mac!Timeout, Mac!wire
  <2>2. \A e \in Callers : /\ call'[e].step = call[e].step /\ call'[e].id = call[e].id
                           /\ call'[e].serial = call[e].serial /\ call'[e].got = call[e].got
    BY <1>0, <2>1 DEF Mac!CallState
  <2>3. call' \in [Callers -> Mac!CallState]
    BY <1>0, <2>1 DEF Mac!CallState
  <2> QED
    BY <1>0, <2>1, <2>2, <2>3, MacQuiet
<1>5. ASSUME NEW k \in Mac!Conns, Mac!RouteFrame(k) PROVE MacInv'
  <2> DEFINE f == Head(down[k])
             to == {c \in pending : call[c].id = f.id}
  <2>1. /\ down[k] # <<>> /\ down' = [down EXCEPT ![k] = Tail(@)]
        /\ call' = [c \in Callers |-> IF c \in to THEN Mac!Return(call[c], "ok", f) ELSE call[c]]
        /\ pending' = pending \ to /\ early' = IF to = {} THEN early \union {f} ELSE early
        /\ UNCHANGED <<fd, nextId, up, calls>>
    BY <1>5 DEF Mac!RouteFrame, Mac!Take
  <2>2. f \in MacGenuine /\ Tail(down[k]) \in Seq(MacGenuine)
    BY <2>1 DEF MacInv
  <2>3. f \in Mac!Frame /\ \A c \in to : c \in Callers /\ f.serial = call[c].serial
    BY <1>0, <2>2 DEF MacGenuine, Mac!Running
  <2>4. \A c \in to : c \in pending /\ c \in Callers
    BY <1>0
  <2> HIDE DEF f, to
  <2>5. ASSUME NEW c \in to
        PROVE  /\ Mac!Return(call[c], "ok", f) \in Mac!CallState
               /\ Mac!Return(call[c], "ok", f).step \in {"timeout", "ok"}
               /\ Mac!Return(call[c], "ok", f).got = f
               /\ Mac!Return(call[c], "ok", f).serial = call[c].serial
    <3>1. call[c] \in Mac!CallState /\ f \in Mac!Frame
      BY <1>0, <2>3, <2>4
    <3>2. PICK r : r = call[c]
      OBVIOUS
    <3>3. r \in Mac!CallState /\ "ok" \in {"ok", "failed"}
      BY <3>1, <3>2
    <3> QED
      BY ONLY <3>1, <3>2, <3>3, MacReturn
  <2>6. call' \in [Callers -> Mac!CallState]
    BY <1>0, <2>1, <2>5
  <2>7. \A c \in Callers : /\ c \in to => /\ call'[c].step \in {"timeout", "ok"}
                                          /\ call'[c].got = f /\ call'[c].serial = call[c].serial
                           /\ c \notin to => call'[c] = call[c]
    BY <2>1, <2>5
  <2>8. /\ MacGenuine \subseteq MacGenuine'
        /\ \A s \in Seq(MacGenuine) : s \in Seq(MacGenuine')
    BY <1>0, <2>1, <2>7, MacCarry DEF Mac!Running
  <2>9. up' \in [Mac!Conns -> Seq(MacGenuine')] /\ down' \in [Mac!Conns -> Seq(MacGenuine')]
    <3>1. up' \in [Mac!Conns -> Seq(MacGenuine')]
      BY <2>1, <2>8 DEF MacInv
    <3>2. down' \in [Mac!Conns -> Seq(MacGenuine)]
      BY <2>1, <2>2 DEF MacInv
    <3> QED
      BY <2>8, <3>1, <3>2
  <2>10. early' \subseteq MacGenuine'
    BY <2>1, <2>2, <2>8 DEF MacInv
  <2>11. pending' \subseteq {c \in Callers : call'[c].step = "parked"}
    BY <1>0, <2>1, <2>7
  <2>12. \A c \in Callers : call'[c].step \in Mac!Running => call'[c].id < nextId'
    BY <2>1, <2>7 DEF MacInv, Mac!Running
  <2>13. \A c \in Callers : call'[c].step = "ok" => call'[c].got.serial = call'[c].serial
    BY <1>0, <2>3, <2>7
  <2> QED
    BY <1>0, <2>1, <2>6, <2>9, <2>10, <2>11, <2>12, <2>13 DEF MacInv,
       Mac!AnswerIsMine
<1>6. ASSUME NEW k \in Mac!Conns, Mac!FailOnEof(k) PROVE MacInv'
  <2>1. fd' \in {0, fd} /\ UNCHANGED <<nextId, early, up, down, calls>>
    BY <1>6 DEF Mac!FailOnEof
  <2>2. CASE UNCHANGED <<call, pending>>
    BY <1>0, <2>1, <2>2, MacQuiet
  <2>3. CASE /\ call' = [c \in Callers |-> IF c \in pending
                           THEN Mac!Return(call[c], "failed", Mac!NoFrame) ELSE call[c]]
             /\ pending' = {}
    <3>1. ASSUME NEW c \in pending
          PROVE  /\ Mac!Return(call[c], "failed", Mac!NoFrame) \in Mac!CallState
                 /\ Mac!Return(call[c], "failed", Mac!NoFrame).step \in {"timeout", "failed"}
      <4>1. c \in Callers
        BY <1>0
      <4> QED
        BY <1>0, <4>1, MacReturn
    <3>2. call' \in [Callers -> Mac!CallState]
      BY <1>0, <2>3, <3>1
    <3>3. \A c \in Callers : /\ c \in pending => call'[c].step \in {"timeout", "failed"}
                             /\ c \notin pending => call'[c] = call[c]
      BY <2>3, <3>1
    <3> QED
      BY <1>0, <2>1, <2>3, <3>2, <3>3, MacQuiet DEF Mac!Running
  <2> QED
    BY <1>6, <2>2, <2>3 DEF Mac!FailOnEof
<1>7. ASSUME NEW k \in Mac!Conns, Mac!Answer(k) PROVE MacInv'
  <2>1. /\ up[k] # <<>> /\ up' = [up EXCEPT ![k] = Tail(@)]
        /\ down' = [down EXCEPT ![k] = Append(@, Head(up[k]))]
        /\ UNCHANGED <<fd, nextId, call, pending, early, calls>>
    BY <1>7 DEF Mac!Answer, Mac!actor
  <2>2. /\ Tail(up[k]) \in Seq(MacGenuine) /\ Head(up[k]) \in MacGenuine
        /\ Append(down[k], Head(up[k])) \in Seq(MacGenuine)
    BY <2>1 DEF MacInv
  <2>3. up' \in [Mac!Conns -> Seq(MacGenuine)] /\ down' \in [Mac!Conns -> Seq(MacGenuine)]
    BY <2>1, <2>2 DEF MacInv
  <2>4. MacGenuine' = MacGenuine
    BY <2>1 DEF MacGenuine
  <2> QED
    BY <2>1, <2>3, <2>4 DEF MacInv, Mac!AnswerIsMine
<1>8. ASSUME Mac!Exit \/ Mac!Restart PROVE MacInv'
  <2>1. UNCHANGED <<fd, nextId, call, pending, early, up, down, calls>>
    BY <1>8 DEF Mac!Exit, Mac!Restart, Mac!actor
  <2> QED
    BY <1>0, <2>1, MacQuiet
<1> QED
  BY <1>1, <1>2, <1>3, <1>4, <1>5, <1>6, <1>7, <1>8 DEF Mac!Next

------------------------------------------------------------------------------
(***************************************************************************)
(* The Windows client.                                                     *)
(***************************************************************************)
\* Lines stay genuine when no id is given out and nothing new is registered.
LEMMA WinCarry ==
  ASSUME WinInv, winNextId' = winNextId, winPending' \subseteq winPending
  PROVE  /\ WinGenuine \subseteq WinGenuine'
         /\ \A s \in Seq(WinGenuine) : s \in Seq(WinGenuine')
<1>1. WinGenuine \subseteq WinGenuine'
  BY DEF WinGenuine
<1> QED
  BY <1>1, SeqMono

\* A step that gives out no id, moves calls on and moves lines.
LEMMA WinMoves ==
  ASSUME WinInv, UNCHANGED <<winNextId, winCalls>>, winPending' \subseteq winPending,
         winCall' \in [Callers -> WinCall],
         \A c \in Callers : /\ winCall'[c].id = winCall[c].id
                            /\ winCall'[c].serial = winCall[c].serial
                            /\ winCall'[c].answer \in {0, winCall[c].serial}
                            /\ winCall'[c].step = "ok" =>
                                 winCall'[c].answer = winCall[c].serial,
         buffer' \in Seq(WinGenuine), winUp' \in Seq(WinGenuine), winDown' \in Seq(WinGenuine)
  PROVE  WinInv'
<1>1. /\ WinGenuine \subseteq WinGenuine'
      /\ \A s \in Seq(WinGenuine) : s \in Seq(WinGenuine')
  BY WinCarry
<1>2. \A c \in Callers : Win!Frame(c)' = Win!Frame(c)
  BY DEF Win!Frame
<1>3. \A c \in Callers : Win!Frame(c)' \in WinGenuine'
  BY <1>1, <1>2 DEF WinInv
<1> QED
  BY <1>1, <1>3 DEF WinInv, Win!AnswerIsMine

\* A call that goes on to another step, to "ok" only with an answer.
LEMMA WinGoto ==
  ASSUME WinInv, NEW c \in Callers,
         NEW s \in {"written", "flushing", "sent", "ok", "threw"}, Win!Goto(c, s),
         s = "ok" => winCall[c].answer # 0
  PROVE  /\ winCall' \in [Callers -> WinCall]
         /\ \A e \in Callers : /\ winCall'[e].id = winCall[e].id
                               /\ winCall'[e].serial = winCall[e].serial
                               /\ winCall'[e].answer \in {0, winCall[e].serial}
                               /\ winCall'[e].step = "ok" =>
                                    winCall'[e].answer = winCall[e].serial
<1>1. winCall \in [Callers -> WinCall] /\ winCall' = [winCall EXCEPT ![c].step = s]
  BY DEF WinInv, Win!Goto
<1>2. /\ winCall' \in [Callers -> WinCall]
      /\ \A e \in Callers : /\ winCall'[e].id = winCall[e].id
                            /\ winCall'[e].serial = winCall[e].serial
                            /\ winCall'[e].answer = winCall[e].answer
                            /\ winCall'[e].step = IF e = c THEN s ELSE winCall[e].step
  BY <1>1 DEF WinCall, Win!Running
<1>3. \A e \in Callers : /\ winCall[e].answer \in {0, winCall[e].serial}
                         /\ winCall[e].step = "ok" => winCall[e].answer = winCall[e].serial
  BY DEF WinInv, Win!AnswerIsMine
<1> QED
  BY <1>2, <1>3

\* Every step of the Windows client keeps its invariant.
LEMMA WinStep == WinInv /\ Win!Next => WinInv'
<1> SUFFICES ASSUME WinInv, Win!Next PROVE WinInv'
  OBVIOUS
<1>0. /\ winCall \in [Callers -> WinCall] /\ winNextId \in Nat /\ winCalls \in Nat
      /\ winPending \subseteq [id : Nat \ {0}, serial : Nat, of : Callers]
      /\ buffer \in Seq(WinGenuine) /\ winUp \in Seq(WinGenuine) /\ winDown \in Seq(WinGenuine)
      /\ \A c \in Callers : Win!Frame(c) \in WinGenuine
      /\ \A c \in Callers : /\ winCall[c].answer \in {0, winCall[c].serial}
                            /\ winCall[c].step = "ok" => winCall[c].answer = winCall[c].serial
  BY DEF WinInv, Win!AnswerIsMine
<1>1. ASSUME NEW c \in Callers, Win!Begin(c) PROVE WinInv'
  <2> DEFINE id == winNextId + 1
             serial == winCalls + 1
             begun == [Win!Idle EXCEPT !.step = "ready", !.id = id, !.serial = serial]
  <2>1. /\ winCalls' = serial /\ winNextId' = id /\ winCall' = [winCall EXCEPT ![c] = begun]
        /\ winPending' = {p \in winPending : p.id # id}
                           \union {[id |-> id, serial |-> serial, of |-> c]}
        /\ UNCHANGED <<buffer, winUp, winDown>>
    BY <1>1 DEF Win!Begin, Win!Registered, Win!writer, Win!pipe
  <2>2. /\ begun \in WinCall /\ begun.id = id /\ begun.serial = serial /\ begun.answer = 0
        /\ begun.step = "ready"
    <3>1. Win!Idle \in WinCall /\ Win!Idle.answer = 0
      BY DEF Win!Idle, WinCall
    <3>2. id \in Nat /\ serial \in Nat
      BY <1>0
    <3> QED
      BY <3>1, <3>2 DEF WinCall, Win!Running
  <2>3. id \in Nat \ {0} /\ serial \in Nat /\ winNextId < id
    BY <1>0
  <2> HIDE DEF begun
  <2>4. /\ winCall' \in [Callers -> WinCall]
        /\ \A e \in Callers : winCall'[e] = IF e = c THEN begun ELSE winCall[e]
    BY <1>0, <2>1, <2>2
  <2>5. winPending' \subseteq [id : Nat \ {0}, serial : Nat, of : Callers]
    BY <1>0, <2>1, <2>3
  <2>6. WinGenuine \subseteq WinGenuine'
    <3> SUFFICES ASSUME NEW f \in WinGenuine PROVE f \in WinGenuine'
      OBVIOUS
    <3>1. f.id \in Nat /\ f.id <= winNextId /\ f.id # id
      BY <1>0, <2>3 DEF WinGenuine
    <3>2. f.id <= winNextId'
      BY <1>0, <2>1, <2>3, <3>1
    <3>3. \A p \in winPending' : p.id = f.id => p.serial = f.serial
      BY <2>1, <3>1 DEF WinGenuine
    <3> QED
      BY <3>2, <3>3 DEF WinGenuine
  <2>7. buffer' \in Seq(WinGenuine') /\ winUp' \in Seq(WinGenuine') /\ winDown' \in Seq(WinGenuine')
    BY <1>0, <2>1, <2>6, SeqMono
  <2>8. ASSUME NEW e \in Callers PROVE Win!Frame(e)' \in WinGenuine'
    <3>1. CASE e = c
      <4>1. Win!Frame(e)' = [id |-> id, serial |-> serial]
        BY <2>2, <2>4, <3>1 DEF Win!Frame
      <4>2. [id |-> id, serial |-> serial] \in WinGenuine'
        BY <2>1, <2>3 DEF WinGenuine
      <4> QED
        BY <4>1, <4>2
    <3>2. CASE e # c
      <4>1. Win!Frame(e)' = Win!Frame(e)
        BY <2>4, <3>2 DEF Win!Frame
      <4> QED
        BY <1>0, <2>6, <4>1
    <3> QED
      BY <3>1, <3>2
  <2>9. \A e \in Callers : /\ winCall'[e].answer \in {0, winCall'[e].serial}
                           /\ winCall'[e].step = "ok" => winCall'[e].answer = winCall'[e].serial
    BY <1>0, <2>2, <2>4
  <2> QED
    BY <2>1, <2>3, <2>4, <2>5, <2>7, <2>8, <2>9 DEF WinInv, Win!AnswerIsMine
<1>2. ASSUME NEW c \in Callers, Win!WriteLine(c) PROVE WinInv'
  <2>1. UNCHANGED <<winNextId, winPending, winUp, winDown, winCalls>>
    BY <1>2 DEF Win!WriteLine, Win!pipe
  <2>2. \E s \in {"written", "threw"} : Win!Goto(c, s)
    BY <1>2 DEF Win!WriteLine
  <2>3. buffer' \in Seq(WinGenuine)
    <3>1. buffer' = buffer \/ buffer' = Append(buffer, Win!Frame(c))
      BY <1>2 DEF Win!WriteLine
    <3>2. Win!Frame(c) \in WinGenuine
      BY <1>0
    <3>3. Append(buffer, Win!Frame(c)) \in Seq(WinGenuine)
      BY <1>0, <3>2
    <3> QED
      BY <1>0, <3>1, <3>3
  <2> QED
    BY <1>0, <2>1, <2>2, <2>3, WinGoto, WinMoves
<1>3. ASSUME NEW c \in Callers, Win!StartFlush(c) PROVE WinInv'
  <2>1. UNCHANGED <<winNextId, winPending, winDown, winCalls>>
    BY <1>3 DEF Win!StartFlush
  <2>2. \E s \in {"flushing", "threw"} : Win!Goto(c, s)
    BY <1>3 DEF Win!StartFlush
  <2>3. /\ buffer' = buffer \/ buffer' = <<>>
        /\ winUp' = winUp \/ winUp' = winUp \o buffer
    BY <1>3 DEF Win!StartFlush, Win!writer
  <2>4. buffer' \in Seq(WinGenuine) /\ winUp' \in Seq(WinGenuine)
    <3>1. <<>> \in Seq(WinGenuine)
      BY EmptySeq
    <3>2. winUp \o buffer \in Seq(WinGenuine)
      BY <1>0, ConcatProperties
    <3> QED
      BY <1>0, <2>3, <3>1, <3>2
  <2> QED
    <3>1. /\ winCall' \in [Callers -> WinCall]
          /\ \A e \in Callers : /\ winCall'[e].id = winCall[e].id
                                /\ winCall'[e].serial = winCall[e].serial
                                /\ winCall'[e].answer \in {0, winCall[e].serial}
                                /\ winCall'[e].step = "ok" =>
                                     winCall'[e].answer = winCall[e].serial
      BY <2>2, WinGoto
    <3> QED
      BY <1>0, <2>1, <2>4, <3>1, WinMoves
<1>4. ASSUME NEW c \in Callers, Win!EndFlush(c) \/ Win!Return(c) PROVE WinInv'
  <2>1. UNCHANGED <<winNextId, winPending, buffer, winUp, winDown, winCalls>>
    BY <1>4 DEF Win!EndFlush, Win!Return, Win!pipe, Win!writer
  <2>2. \E s \in {"sent", "threw", "ok"} :
          Win!Goto(c, s) /\ (s = "ok" => winCall[c].answer # 0)
    BY <1>4 DEF Win!EndFlush, Win!Return
  <2> QED
    <3>1. /\ winCall' \in [Callers -> WinCall]
          /\ \A e \in Callers : /\ winCall'[e].id = winCall[e].id
                                /\ winCall'[e].serial = winCall[e].serial
                                /\ winCall'[e].answer \in {0, winCall[e].serial}
                                /\ winCall'[e].step = "ok" =>
                                     winCall'[e].answer = winCall[e].serial
      BY <2>2, WinGoto
    <3> QED
      BY <1>0, <2>1, <3>1, WinMoves
<1>5. ASSUME NEW c \in Callers, NEW d \in Callers, Win!Overlap(c, d) PROVE WinInv'
  <2>1. /\ winCall' = [winCall EXCEPT ![c].step = "written", ![d].step = "written"]
        /\ UNCHANGED <<winNextId, winPending, winUp, winDown, winCalls>>
    BY <1>5 DEF Win!Overlap, Win!pipe
  <2>2. PICK line \in {Win!Damaged, Win!Frame(c), Win!Frame(d)} : buffer' = Append(buffer, line)
    BY <1>5 DEF Win!Overlap
  <2>3. Win!Damaged \in WinGenuine
    BY <1>0 DEF Win!Damaged, WinGenuine
  <2>4. buffer' \in Seq(WinGenuine)
    BY <1>0, <2>2, <2>3
  <2>5. /\ winCall' \in [Callers -> WinCall]
        /\ \A e \in Callers : /\ winCall'[e].id = winCall[e].id
                              /\ winCall'[e].serial = winCall[e].serial
                              /\ winCall'[e].answer = winCall[e].answer
                              /\ winCall'[e].step \in {winCall[e].step, "written"}
    <3> DEFINE one == [winCall EXCEPT ![c].step = "written"]
    <3>2. one \in [Callers -> WinCall]
      BY <1>0 DEF WinCall, Win!Running
    <3>3. \A e \in Callers : /\ one[e].id = winCall[e].id /\ one[e].serial = winCall[e].serial
                             /\ one[e].answer = winCall[e].answer
                             /\ one[e].step \in {winCall[e].step, "written"}
      BY <1>0 DEF WinCall
    <3>4. winCall' = [one EXCEPT ![d].step = "written"]
      BY <1>0, <2>1
    <3> HIDE DEF one
    <3> QED
      BY <3>2, <3>3, <3>4 DEF WinCall, Win!Running
  <2>6. \A e \in Callers : /\ winCall'[e].answer \in {0, winCall[e].serial}
                           /\ winCall'[e].step = "ok" => winCall'[e].answer = winCall[e].serial
    BY <1>0, <2>5
  <2> QED
    BY <1>0, <2>1, <2>4, <2>5, <2>6, WinMoves
<1>6. ASSUME Win!RouteFrame PROVE WinInv'
  <2> DEFINE f == Head(winDown)
             hits == {p \in winPending : p.id = f.id}
             hit(c) == \E p \in hits : p.of = c /\ p.serial = winCall[c].serial
  <2>1. /\ winDown # <<>> /\ winDown' = Tail(winDown) /\ winPending' = winPending \ hits
        /\ winCall' = [c \in Callers |-> IF hit(c) THEN [winCall[c] EXCEPT !.answer = f.serial]
                                         ELSE winCall[c]]
        /\ UNCHANGED <<winNextId, buffer, winUp, winCalls>>
    BY <1>6 DEF Win!RouteFrame, Win!Route, Win!writer
  <2>2. f \in WinGenuine /\ winDown' \in Seq(WinGenuine)
    BY <1>0, <2>1
  <2>3. f.serial \in Nat /\ \A p \in hits : p.serial = f.serial
    BY <2>2 DEF WinGenuine
  <2>4. \A c \in Callers : hit(c) => f.serial = winCall[c].serial
    BY <2>3
  <2>5. winPending' \subseteq winPending
    BY <2>1
  <2> HIDE DEF hit, f, hits
  <2>6. \A c \in Callers : [winCall[c] EXCEPT !.answer = f.serial] \in WinCall
    BY <1>0, <2>3 DEF WinCall
  <2>7. winCall' \in [Callers -> WinCall]
    BY <1>0, <2>1, <2>6
  <2>8. \A c \in Callers : /\ winCall'[c].id = winCall[c].id
                           /\ winCall'[c].serial = winCall[c].serial
                           /\ winCall'[c].answer \in {0, winCall[c].serial}
                           /\ winCall'[c].step = "ok" => winCall'[c].answer = winCall[c].serial
    <3> SUFFICES ASSUME NEW c \in Callers
                 PROVE  /\ winCall'[c].id = winCall[c].id
                        /\ winCall'[c].serial = winCall[c].serial
                        /\ winCall'[c].answer \in {0, winCall[c].serial}
                        /\ winCall'[c].step = "ok" => winCall'[c].answer = winCall[c].serial
      OBVIOUS
    <3>1. CASE hit(c)
      <4>1. winCall'[c] = [winCall[c] EXCEPT !.answer = f.serial]
        BY <2>1, <3>1
      <4> QED
        BY <1>0, <2>4, <3>1, <4>1 DEF WinCall
    <3>2. CASE ~hit(c)
      BY <1>0, <2>1, <3>2
    <3> QED
      BY <3>1, <3>2
  <2> QED
    BY <1>0, <2>1, <2>2, <2>5, <2>7, <2>8, WinMoves
<1>7. ASSUME Win!Eof \/ Win!Exit PROVE WinInv'
  <2>1. UNCHANGED <<winNextId, winCall, winPending, buffer, winUp, winDown, winCalls>>
    BY <1>7 DEF Win!Eof, Win!Exit, Win!writer
  <2> QED
    BY <1>0, <2>1, WinMoves
<1>8. ASSUME Win!Answer PROVE WinInv'
  <2>1. /\ winUp # <<>> /\ winUp' = Tail(winUp) /\ winDown' = Append(winDown, Head(winUp))
        /\ UNCHANGED <<winNextId, winCall, winPending, buffer, winCalls>>
    BY <1>8 DEF Win!Answer, Win!writer
  <2>2. winUp' \in Seq(WinGenuine) /\ winDown' \in Seq(WinGenuine)
    BY <1>0, <2>1
  <2> QED
    BY <1>0, <2>1, <2>2, WinMoves
<1> QED
  BY <1>1, <1>2, <1>3, <1>4, <1>5, <1>6, <1>7, <1>8 DEF Win!Next, Win!Step

------------------------------------------------------------------------------
(***************************************************************************)
(* The approvals.  The steps of both instances, with S the subscribers.    *)
(***************************************************************************)
\* Menu!Enqueue and Modals!Enqueue.
Enqueue(a) ==
  /\ a \notin born /\ born' = born \union {a} /\ queue' = queue \union {a}
  /\ todo' = todo \union {<<"requested", a>>}
  /\ \/ UNCHANGED covered
     \/ covered' = covered \union {a} /\ sub["coordinator"] = "streaming"
  /\ UNCHANGED <<bus, filter, toDaemon, toTray, sub, inbox, modal, shown, dropped, restarts>>

\* Menu!Restart and Modals!Restart.
Restart(S) ==
  /\ queue' = {} /\ todo' = {} /\ bus' = <<>> /\ filter' = {}
  /\ toDaemon' = <<>> /\ toTray' = <<>> /\ restarts' = restarts + 1
  /\ sub' \in [S -> {"new", "acked", "ended"}]
  /\ modal' \in {Menu!NoModal, modal} /\ UNCHANGED <<born, covered, inbox, shown>>

TrayNext(S) ==
  \/ \E a \in Names : Enqueue(a) \/ Menu!Expire(a) \/ Menu!DecideElsewhere(a)
  \/ \E e \in Events : Menu!Announce(e)
  \/ Menu!Change \/ Menu!Serve \/ Menu!FanOut \/ Menu!Route
  \/ Menu!StatusNote \/ Menu!Present \/ Menu!UserDecides \/ Restart(S)
  \/ \E r \in Tasks : Menu!Refresh(r) \/ Menu!RefreshList(r) \/ Menu!Refreshed(r)
  \/ \E s \in S : Menu!Subscribe(s) \/ Menu!Register(s)

\* Both instances count a queue alike.
LEMMA SameCount == \A q : Modals!Cardinality(q) = Menu!Cardinality(q)
  BY DEF Modals!Cardinality, Menu!Cardinality

\* The menu's steps are among them ...
LEMMA MenuSteps == Menu!Next => TrayNext(MenuSubs)
<1> SUFFICES ASSUME Menu!Next PROVE TrayNext(MenuSubs)
  OBVIOUS
<1>1. ASSUME NEW a \in Counted, Menu!Enqueue(a) PROVE Enqueue(a)
  BY <1>1 DEF Menu!Enqueue, Menu!clientVars, Enqueue
<1>2. ASSUME Menu!Restart PROVE Restart(MenuSubs)
  BY <1>2 DEF Menu!Restart, Restart, MenuSubs
<1>3. /\ Counted \subseteq Names
      /\ \A e \in {"requested", "resolved"} \X Counted : e \in Events
  BY DEF Names, Events
<1> QED
  BY <1>1, <1>2, <1>3 DEF Menu!Next, TrayNext, MenuSubs, Tasks

\* ... and so are the modals'.
LEMMA ModalsSteps == Modals!Next => TrayNext(ModalsSubs)
<1> SUFFICES ASSUME Modals!Next PROVE TrayNext(ModalsSubs)
  OBVIOUS
<1>1. ASSUME NEW a \in Approvals, Modals!Enqueue(a) PROVE Enqueue(a)
  BY <1>1 DEF Modals!Enqueue, Modals!clientVars, Enqueue
<1>2. ASSUME Modals!Restart PROVE Restart(ModalsSubs)
  BY <1>2 DEF Modals!Restart, Restart, ModalsSubs, Modals!NoModal, Menu!NoModal
<1>3. /\ Approvals \subseteq Names
      /\ \A e \in {"requested", "resolved"} \X Approvals : e \in Events
  BY DEF Names, Events
<1>4. ASSUME NEW a, Modals!Expire(a) PROVE Menu!Expire(a)
  BY <1>4 DEF Modals!Expire, Menu!Expire, Modals!clientVars, Menu!clientVars
<1>5. ASSUME NEW a, Modals!DecideElsewhere(a) PROVE Menu!DecideElsewhere(a)
  BY <1>5 DEF Modals!DecideElsewhere, Menu!DecideElsewhere, Modals!Decided,
     Menu!Decided,
              Modals!clientVars, Menu!clientVars
<1>6. ASSUME NEW e, Modals!Announce(e) PROVE Menu!Announce(e)
  BY <1>6 DEF Modals!Announce, Menu!Announce, Modals!HeldBack, Menu!HeldBack,
              Modals!clientVars, Menu!clientVars
<1>7. ASSUME Modals!Serve PROVE Menu!Serve
  BY <1>7, SameCount DEF Modals!Serve, Menu!Serve, Modals!Decided, Menu!Decided,
     Modals!Wants,
              Menu!Wants, Modals!clientVars, Menu!clientVars
<1>8. ASSUME Modals!FanOut PROVE Menu!FanOut
  BY <1>8 DEF Modals!FanOut, Menu!FanOut, Modals!HeldBack, Menu!HeldBack,
              Modals!clientVars, Menu!clientVars
<1>9. ASSUME Modals!Route PROVE Menu!Route
  BY <1>9 DEF Modals!Route, Menu!Route, Modals!NoModal, Menu!NoModal,
     Modals!daemonVars,
              Menu!daemonVars
<1>10. ASSUME Modals!Change PROVE FALSE
  BY <1>10 DEF Modals!Change
<1>12. ASSUME Modals!StatusNote PROVE Menu!StatusNote
  BY <1>12 DEF Modals!StatusNote, Menu!StatusNote, Modals!Receive, Menu!Receive,
               Modals!RefreshBegins, Menu!RefreshBegins, Modals!Ask, Menu!Ask,
               Modals!MainFree, Menu!MainFree, Modals!NoModal, Menu!NoModal,
               Modals!daemonVars, Menu!daemonVars
<1>13. ASSUME Modals!Present PROVE Menu!Present
  BY <1>13 DEF Modals!Present, Menu!Present, Modals!Receive, Menu!Receive,
     Modals!NoModal,
               Menu!NoModal, Modals!daemonVars, Menu!daemonVars
<1>14. ASSUME Modals!UserDecides PROVE Menu!UserDecides
  BY <1>14 DEF Modals!UserDecides, Menu!UserDecides, Modals!Ask, Menu!Ask,
               Modals!MainFree, Menu!MainFree, Modals!NoModal, Menu!NoModal,
               Modals!daemonVars, Menu!daemonVars
<1>15. ASSUME NEW s, Modals!Subscribe(s) PROVE Menu!Subscribe(s)
  BY <1>15 DEF Modals!Subscribe, Menu!Subscribe, Modals!Ask, Menu!Ask,
               Modals!MainFree, Menu!MainFree, Modals!NoModal, Menu!NoModal,
               Modals!daemonVars, Menu!daemonVars
<1>16. ASSUME NEW s, Modals!Register(s) PROVE Menu!Register(s)
  BY <1>16 DEF Modals!Register, Menu!Register, Modals!daemonVars, Menu!daemonVars
<1> QED
  BY <1>1, <1>2, <1>3, <1>4, <1>5, <1>6, <1>7, <1>8, <1>9, <1>10, <1>12, <1>13,
     <1>14, <1>15, <1>16 DEF Modals!Next, TrayNext, ModalsSubs

\* Displaced once, displaced for good: nobody goes back to before its subscription.
LEMMA DisplacedStays ==
  ASSUME NEW S, TrayTypes(S), Menu!Displaced, restarts' = restarts,
         sub' \in [S -> {"new", "asked", "acked", "streaming", "ended"}],
         \A s \in S : sub[s] # "new" => sub'[s] # "new"
  PROVE  Menu!Displaced'
<1>1. DOMAIN sub = S /\ DOMAIN sub' = S
  BY DEF TrayTypes
<1> QED
  BY <1>1 DEF Menu!Displaced, Menu!Wants

\* The same for a step that leaves the subscriptions alone.
LEMMA DisplacedSame ==
  ASSUME UNCHANGED <<sub, restarts>>
  PROVE  Menu!Displaced => Menu!Displaced'
  BY DEF Menu!Displaced, Menu!Wants

\* An approval that was lost at a displaced filter stays accounted for.
LEMMA AccountedKept ==
  ASSUME NEW b, Menu!Displaced => Menu!Displaced', dropped \subseteq dropped',
         Menu!UnderWay(b) => Menu!Accounted(b)', Menu!Accounted(b)
  PROVE  Menu!Accounted(b)'
  BY DEF Menu!Accounted

\* Steps that leave the frames, the filter and the subscriptions alone, and lose
\* nothing that is not accounted for.
LEMMA TrayQuiet ==
  ASSUME NEW S, TrayInv(S), TrayTypes(S)',
         UNCHANGED <<filter, toDaemon, toTray, sub, restarts>>, dropped \subseteq dropped',
         queue' \intersect covered' \subseteq queue \intersect covered,
         \A a \in queue' \intersect covered' : Menu!UnderWay(a) => Menu!Accounted(a)'
  PROVE  TrayInv(S)'
<1>1. Menu!Displaced => Menu!Displaced'
  BY DisplacedSame
<1>2. Once'
  BY DEF TrayInv, Once, AtMostOnce, Menu!ToSet, Asks, Acks
<1>3. Filtered'
  BY <1>1 DEF TrayInv, Filtered, Menu!ToSet, Acks, Menu!Wants
<1>4. Streaming'
  BY DEF TrayInv, Streaming
<1>5. ASSUME NEW a \in queue' \intersect covered' PROVE Menu!Accounted(a)'
  <2>1. Menu!Accounted(a)
    BY DEF TrayInv, Menu!PendingIsUnderWay
  <2> QED
    BY <1>1, <2>1, AccountedKept
<1> QED
  BY <1>2, <1>3, <1>4, <1>5 DEF TrayInv, Menu!PendingIsUnderWay

\* The daemon's steps up to the connection.
LEMMA DaemonSteps ==
  ASSUME NEW S, TrayInv(S), NEW a \in Names, NEW e \in Events,
         \/ Enqueue(a) \/ Menu!Expire(a) \/ Menu!DecideElsewhere(a) \/ Menu!Announce(e)
         \/ Menu!Change
  PROVE  TrayInv(S)'
<1>0. TrayTypes(S) /\ Once /\ Filtered /\ Streaming /\ Menu!PendingIsUnderWay
      /\ bus \in Seq(Events)
  BY DEF TrayInv, TrayTypes
<1>1. CASE Enqueue(a)
  <2>0. <<"requested", a>> \in Events
    BY DEF Events
  <2>1. TrayTypes(S)'
    BY <1>0, <1>1, <2>0 DEF TrayTypes, Enqueue
  <2>2. Once' /\ (Menu!Displaced => Menu!Displaced')
    BY <1>0, <1>1, DisplacedSame DEF Enqueue, Once, AtMostOnce, Menu!ToSet, Asks, Acks
  <2>3. Filtered'
    BY <1>0, <1>1, <2>2 DEF Enqueue, Filtered, Menu!ToSet, Acks, Menu!Wants
  <2>4. \A b \in queue' \intersect covered' :
          \/ b = a /\ <<"requested", b>> \in todo' /\ sub["coordinator"] = "streaming"
          \/ b \in queue \intersect covered
    BY <1>0, <1>1 DEF Enqueue, TrayTypes
  <2>5. Streaming'
    BY <1>0, <1>1, <2>4 DEF Enqueue, Streaming
  <2>6. ASSUME NEW b, Menu!UnderWay(b) PROVE Menu!Accounted(b)'
    BY <1>1, <2>6 DEF Enqueue, Menu!UnderWay, Menu!Accounted, Menu!ToSet
  <2>7. Menu!PendingIsUnderWay'
    <3> SUFFICES ASSUME NEW b \in queue' \intersect covered' PROVE Menu!Accounted(b)'
      BY DEF Menu!PendingIsUnderWay
    <3>1. CASE <<"requested", b>> \in todo'
      BY <3>1 DEF Menu!UnderWay, Menu!Accounted
    <3>2. CASE b \in queue \intersect covered
      <4>1. Menu!Accounted(b) /\ dropped \subseteq dropped'
        BY <1>0, <1>1, <3>2 DEF Menu!PendingIsUnderWay, Enqueue
      <4> QED
        BY <2>2, <2>6, <4>1, AccountedKept
    <3> QED
      BY <2>4, <3>1, <3>2
  <2> QED
    BY <2>1, <2>2, <2>3, <2>5, <2>7 DEF TrayInv
<1>2. CASE Menu!Expire(a)
  <2>1. /\ queue' = queue \ {a}
        /\ UNCHANGED <<born, todo, bus, filter, covered, dropped, toDaemon, toTray, sub, inbox,
                       modal, shown, restarts>>
    BY <1>2 DEF Menu!Expire, Menu!clientVars
  <2>2. TrayTypes(S)'
    BY <1>0, <2>1 DEF TrayTypes
  <2>3. \A b : Menu!UnderWay(b) => Menu!Accounted(b)'
    BY <2>1 DEF Menu!Accounted, Menu!UnderWay, Menu!ToSet
  <2> QED
    BY <2>1, <2>2, <2>3, TrayQuiet
<1>3. CASE Menu!DecideElsewhere(a)
  <2>0. <<"resolved", a>> \in Events
    BY DEF Events
  <2>1. /\ queue' = queue \ {a} /\ todo' = todo \union {<<"resolved", a>>}
        /\ UNCHANGED <<born, bus, filter, covered, dropped, toDaemon, toTray, sub, inbox, modal,
                       shown, restarts>>
    BY <1>3 DEF Menu!DecideElsewhere, Menu!Decided, Menu!clientVars
  <2>2. TrayTypes(S)'
    BY <1>0, <2>0, <2>1 DEF TrayTypes
  <2>3. \A b : Menu!UnderWay(b) => Menu!Accounted(b)'
    BY <2>1 DEF Menu!Accounted, Menu!UnderWay, Menu!ToSet
  <2> QED
    BY <2>1, <2>2, <2>3, TrayQuiet
<1>4. CASE Menu!Announce(e)
  <2>1. /\ todo' = todo \ {e} /\ bus' = IF filter = {} THEN bus ELSE Append(bus, e)
        /\ dropped' = IF filter = {} THEN dropped \union Menu!HeldBack(e) ELSE dropped
        /\ UNCHANGED <<queue, born, filter, covered, toDaemon, toTray, sub, inbox, modal, shown,
                       restarts>>
    BY <1>4 DEF Menu!Announce, Menu!clientVars
  <2>2. bus' \in Seq(Events)
    BY <1>0, <2>1
  <2>3. TrayTypes(S)'
    BY <1>0, <2>1, <2>2 DEF TrayTypes
  <2>4. Menu!ToSet(toTray)' = Menu!ToSet(toTray)
        /\ Menu!ToSet(inbox["coordinator"])' = Menu!ToSet(inbox["coordinator"])
    BY <2>1 DEF Menu!ToSet
  <2>5. ASSUME NEW b \in queue' \intersect covered', Menu!UnderWay(b) PROVE Menu!Accounted(b)'
    <3>1. CASE filter # {}
      <4>1. bus' = Append(bus, e)
        BY <2>1, <3>1
      <4>2. Menu!ToSet(Append(bus, e)) = Menu!ToSet(bus) \union {e}
        BY <1>0, Members
      <4>3. Menu!ToSet(bus)' = Menu!ToSet(bus) \union {e}
        BY <4>1, <4>2 DEF Menu!ToSet
      <4> QED
        BY <2>1, <2>4, <2>5, <4>3 DEF Menu!UnderWay, Menu!Accounted
    <3>2. CASE filter = {}
      <4>1. Menu!Displaced'
        <5>1. Menu!Displaced
          BY <1>0, <2>1, <2>5, <3>2 DEF Streaming, Filtered
        <5> QED
          BY <2>1, <5>1, DisplacedSame
      <4>2. CASE e = <<"requested", b>>
        <5>1. Menu!HeldBack(e) = {b}
          BY <4>2 DEF Menu!HeldBack
        <5> QED
          BY <2>1, <3>2, <4>1, <5>1 DEF Menu!Accounted
      <4>3. CASE e # <<"requested", b>>
        <5>1. Menu!ToSet(bus)' = Menu!ToSet(bus)
          BY <2>1, <3>2 DEF Menu!ToSet
        <5> QED
          BY <2>1, <2>4, <2>5, <4>3, <5>1 DEF Menu!UnderWay, Menu!Accounted
      <4> QED
        BY <4>2, <4>3
    <3> QED
      BY <3>1, <3>2
  <2>6. dropped \subseteq dropped'
    BY <2>1
  <2> QED
    BY <2>1, <2>3, <2>5, <2>6, TrayQuiet
<1>5. CASE Menu!Change
  <2>0. <<"account", None>> \in Events
    BY DEF Events, Names
  <2> DEFINE x == <<"account", None>>
  <2>1. /\ bus' = IF filter = {} THEN bus ELSE Append(bus, x)
        /\ UNCHANGED <<queue, born, todo, filter, covered, dropped, toDaemon, toTray, sub, inbox,
                       modal, shown, restarts>>
    BY <1>5 DEF Menu!Change, Menu!clientVars
  <2> HIDE DEF x
  <2>2. bus' \in Seq(Events) /\ Menu!ToSet(bus) \subseteq Menu!ToSet(bus')
    <3>1. Append(bus, x) \in Seq(Events) /\ Menu!ToSet(bus) \subseteq Menu!ToSet(Append(bus, x))
      <4>1. x \in Events
        BY <2>0 DEF x
      <4> QED
        BY <1>0, <4>1, Members
    <3> QED
      BY <1>0, <2>1, <3>1
  <2>3. TrayTypes(S)'
    BY <1>0, <2>1, <2>2 DEF TrayTypes
  <2>4. /\ Menu!ToSet(toTray)' = Menu!ToSet(toTray) /\ Menu!ToSet(bus)' = Menu!ToSet(bus')
        /\ Menu!ToSet(inbox["coordinator"])' = Menu!ToSet(inbox["coordinator"])
    BY <2>1 DEF Menu!ToSet
  <2>5. ASSUME NEW b, Menu!UnderWay(b) PROVE Menu!Accounted(b)'
    BY <2>1, <2>2, <2>4, <2>5 DEF Menu!Accounted, Menu!UnderWay
  <2> QED
    BY <2>1, <2>3, <2>5, TrayQuiet
<1> QED
  BY <1>1, <1>2, <1>3, <1>4, <1>5

\* A request of the tray other than the coordinator's subscription is sent.
LEMMA AskKeeps ==
  ASSUME NEW S, "coordinator" \in S, TrayInv(S), NEW r \in Requests(S), r # Asks,
         toDaemon' = Append(toDaemon, r),
         UNCHANGED <<queue, born, todo, bus, filter, covered, dropped, toTray, shown, restarts>>,
         inbox' \in [S \ {"accounts"} -> Seq(Events)],
         inbox'["coordinator"] = inbox["coordinator"],
         sub' \in [S -> {"new", "asked", "acked", "streaming", "ended"}],
         \A s \in S : sub[s] # "new" => sub'[s] # "new",
         sub'["coordinator"] = sub["coordinator"],
         r.kind = "subscribe" => "requested" \in Menu!Wants(r.arg) \/ Menu!Displaced',
         modal' \in [approval : Names, decided : BOOLEAN]
  PROVE  TrayInv(S)'
<1>0. TrayTypes(S) /\ Once /\ Filtered /\ Streaming /\ Menu!PendingIsUnderWay
      /\ toDaemon \in Seq(Requests(S))
  BY DEF TrayInv, TrayTypes
<1>1. TrayTypes(S)'
  BY <1>0 DEF TrayTypes
<1>2. AtMostOnce(toDaemon', Asks)
  BY <1>0, OnceKept DEF Once
<1>3. Menu!ToSet(toDaemon') = Menu!ToSet(toDaemon) \union {r}
  BY <1>0, Members
<1>4. /\ Menu!ToSet(toDaemon)' = Menu!ToSet(toDaemon) \union {r}
      /\ Menu!ToSet(toTray)' = Menu!ToSet(toTray)
      /\ AtMostOnce(toDaemon, Asks)' /\ (AtMostOnce(toTray, Acks) => AtMostOnce(toTray, Acks)')
  BY <1>2, <1>3 DEF Menu!ToSet, AtMostOnce, Asks, Acks
<1>5. Asks' = Asks /\ Acks' = Acks
  BY DEF Asks, Acks
<1>6. Once'
  BY <1>0, <1>4, <1>5 DEF Once
<1>7. Menu!Displaced => Menu!Displaced'
  BY <1>0, DisplacedStays
<1>8. Filtered'
  <2>1. CASE Menu!Displaced'
    BY <2>1 DEF Filtered
  <2>2. CASE ~Menu!Displaced'
    <3>1. \A q \in Menu!ToSet(toDaemon)' :
            q.kind = "subscribe" => "requested" \in Menu!Wants(q.arg)
      BY <1>0, <1>4, <1>7, <2>2 DEF Filtered
    <3>2. \A q \in Menu!ToSet(toDaemon)' :
            q.kind = "subscribe" => "requested" \in Menu!Wants(q.arg)'
      BY <3>1 DEF Menu!Wants
    <3> QED
      BY <1>0, <1>4, <1>5, <1>7, <2>2, <3>2 DEF Filtered
  <2> QED
    BY <2>1, <2>2
<1>9. Streaming'
  BY <1>0 DEF Streaming
<1>10. Menu!PendingIsUnderWay'
  <2>0. /\ Menu!ToSet(bus)' = Menu!ToSet(bus)
        /\ Menu!ToSet(inbox["coordinator"])' = Menu!ToSet(inbox["coordinator"])
    BY DEF Menu!ToSet
  <2>1. ASSUME NEW a, Menu!UnderWay(a) PROVE Menu!Accounted(a)'
    BY <1>4, <2>0, <2>1 DEF Menu!UnderWay, Menu!Accounted
  <2>2. ASSUME NEW a \in queue' \intersect covered' PROVE Menu!Accounted(a)'
    <3>1. Menu!Accounted(a) /\ dropped \subseteq dropped'
      BY <1>0 DEF Menu!PendingIsUnderWay
    <3> QED
      BY <1>7, <2>1, <3>1, AccountedKept
  <2> QED
    BY <2>2 DEF Menu!PendingIsUnderWay
<1> QED
  BY <1>1, <1>6, <1>8, <1>9, <1>10 DEF TrayInv

\* The tray's steps behind the connection.
LEMMA ViewSteps ==
  ASSUME NEW S, "coordinator" \in S, TrayInv(S), NEW r \in Tasks,
         Menu!Refreshed(r) \/ Menu!StatusNote \/ Menu!Present
  PROVE  TrayInv(S)'
<1>0. /\ TrayTypes(S) /\ inbox \in [S \ {"accounts"} -> Seq(Events)]
      /\ sub \in [S -> {"new", "asked", "acked", "streaming", "ended"}]
      /\ modal \in [approval : Names, decided : BOOLEAN]
      /\ "coordinator" \in S \ {"accounts"}
  BY DEF TrayInv, TrayTypes
<1>1. CASE Menu!Refreshed(r)
  <2>1. UNCHANGED <<queue, born, todo, bus, filter, covered, dropped, toDaemon, toTray, sub,
                    inbox, modal, shown, restarts>>
    BY <1>1 DEF Menu!Refreshed, Menu!daemonVars
  <2>2. TrayTypes(S)'
    BY <1>0, <2>1 DEF TrayTypes
  <2>3. \A b : Menu!UnderWay(b) => Menu!Accounted(b)'
    BY <2>1 DEF Menu!Accounted, Menu!UnderWay, Menu!ToSet
  <2> QED
    BY <2>1, <2>2, <2>3, TrayQuiet
<1>2. CASE Menu!StatusNote
  <2>1. /\ inbox["status"] # <<>> /\ "status" \in DOMAIN inbox
        /\ inbox' = [inbox EXCEPT !["status"] = Tail(@)]
        /\ UNCHANGED <<queue, born, todo, bus, filter, covered, dropped, toTray, sub, modal,
                       shown, restarts>>
    BY <1>2 DEF Menu!StatusNote, Menu!Receive, Menu!daemonVars
  <2>2. /\ inbox' \in [S \ {"accounts"} -> Seq(Events)]
        /\ inbox'["coordinator"] = inbox["coordinator"]
    BY <1>0, <2>1
  <2>3. CASE toDaemon' = toDaemon
    <3>1. TrayTypes(S)'
      BY <1>0, <2>1, <2>2, <2>3 DEF TrayTypes
    <3>2. \A b : Menu!UnderWay(b) => Menu!Accounted(b)'
      BY <2>1, <2>2 DEF Menu!Accounted, Menu!UnderWay, Menu!ToSet
    <3> QED
      BY <2>1, <2>3, <3>1, <3>2, TrayQuiet
  <2>4. CASE toDaemon' # toDaemon
    <3> DEFINE q == [kind |-> "status", arg |-> "notes"]
    <3>1. toDaemon' = Append(toDaemon, q)
      BY <1>2, <2>4 DEF Menu!StatusNote, Menu!RefreshBegins, Menu!Ask
    <3>2. q \in Requests(S) /\ q # Asks /\ q.kind # "subscribe"
      BY DEF Requests, Asks, Tasks
    <3> HIDE DEF q
    <3> QED
      BY <1>0, <2>1, <2>2, <3>1, <3>2, AskKeeps
  <2> QED
    BY <2>3, <2>4
<1>3. CASE Menu!Present
  <2> DEFINE box == inbox["coordinator"]
             n == Head(box)
  <2>1. /\ box # <<>> /\ inbox' = [inbox EXCEPT !["coordinator"] = Tail(@)]
        /\ IF n[1] = "requested"
           THEN modal' = [approval |-> n[2], decided |-> FALSE] /\ shown' = shown \union {n[2]}
           ELSE UNCHANGED <<modal, shown>>
        /\ UNCHANGED <<queue, born, todo, bus, filter, covered, dropped, toDaemon, toTray, sub,
                       restarts>>
    BY <1>3 DEF Menu!Present, Menu!Receive, Menu!daemonVars
  <2>2. box \in Seq(Events)
    BY <1>0
  <2>3. n \in Events /\ Tail(box) \in Seq(Events)
    BY <2>1, <2>2
  <2>4. inbox' \in [S \ {"accounts"} -> Seq(Events)] /\ inbox'["coordinator"] = Tail(box)
    BY <1>0, <2>1, <2>3
  <2>5. modal' \in [approval : Names, decided : BOOLEAN]
    <3>1. n[2] \in Names
      BY <2>3 DEF Events
    <3> HIDE DEF n
    <3>2. CASE n[1] = "requested"
      <4>1. modal' = [approval |-> n[2], decided |-> FALSE]
        BY <2>1, <3>2
      <4> QED
        BY <3>1, <4>1
    <3>3. CASE n[1] # "requested"
      BY <1>0, <2>1, <3>3 DEF TrayTypes
    <3> QED
      BY <3>2, <3>3
  <2>6. TrayTypes(S)'
    BY <1>0, <2>1, <2>4, <2>5 DEF TrayTypes
  <2>7. Menu!ToSet(box) = Menu!ToSet(Tail(box)) \union {n}
    BY <2>1, <2>2, Members
  <2>8. Menu!ToSet(inbox["coordinator"])' = Menu!ToSet(Tail(box))
    BY <2>4 DEF Menu!ToSet
  <2>9. Menu!ToSet(toTray)' = Menu!ToSet(toTray) /\ Menu!ToSet(bus)' = Menu!ToSet(bus)
    BY <2>1 DEF Menu!ToSet
  <2>10. ASSUME NEW b, Menu!UnderWay(b) PROVE Menu!Accounted(b)'
    <3>1. CASE <<"requested", b>> \in Menu!ToSet(box)
      <4>1. CASE <<"requested", b>> = n
        <5>1. n[1] = "requested" /\ n[2] = b
          BY <4>1
        <5>2. b \in shown'
          BY <2>1, <5>1
        <5> QED
          BY <5>2 DEF Menu!UnderWay, Menu!Accounted
      <4>2. CASE <<"requested", b>> \in Menu!ToSet(Tail(box))
        BY <2>8, <4>2 DEF Menu!UnderWay, Menu!Accounted
      <4> QED
        BY <2>7, <3>1, <4>1, <4>2
    <3>2. CASE <<"requested", b>> \notin Menu!ToSet(box)
      <4>1. shown \subseteq shown'
        BY <2>1
      <4> QED
        BY <2>1, <2>9, <2>10, <3>2, <4>1 DEF Menu!UnderWay, Menu!Accounted
    <3> QED
      BY <3>1, <3>2
  <2> QED
    BY <2>1, <2>6, <2>10, TrayQuiet
<1> QED
  BY <1>1, <1>2, <1>3

\* The tray's steps that send something or register a stream.
LEMMA AskSteps ==
  ASSUME NEW S, "coordinator" \in S, TrayInv(S), NEW s \in S, NEW t \in Tasks,
         \/ Menu!Refresh(t) \/ Menu!RefreshList(t) \/ Menu!UserDecides
         \/ Menu!Subscribe(s) \/ Menu!Register(s)
  PROVE  TrayInv(S)'
<1>0. /\ TrayTypes(S) /\ Once /\ Filtered /\ Streaming /\ Menu!PendingIsUnderWay
      /\ toDaemon \in Seq(Requests(S)) /\ modal \in [approval : Names, decided : BOOLEAN]
      /\ sub \in [S -> {"new", "asked", "acked", "streaming", "ended"}]
      /\ inbox \in [S \ {"accounts"} -> Seq(Events)]
  BY DEF TrayInv, TrayTypes
<1>1. CASE Menu!Refresh(t) \/ Menu!RefreshList(t)
  <2>1. PICK k \in {"status", "list"} :
          /\ toDaemon' = Append(toDaemon, [kind |-> k, arg |-> t])
          /\ UNCHANGED <<queue, born, todo, bus, filter, covered, dropped, toTray, sub, inbox,
                         modal, shown, restarts>>
    BY <1>1 DEF Menu!Refresh, Menu!RefreshList, Menu!RefreshBegins, Menu!Ask, Menu!daemonVars
  <2> DEFINE r == [kind |-> k, arg |-> t]
  <2>2. r \in Requests(S) /\ r # Asks /\ r.kind # "subscribe"
    BY DEF Requests, Asks
  <2>3. toDaemon' = Append(toDaemon, r)
    BY <2>1
  <2> HIDE DEF r
  <2> QED
    BY <1>0, <2>1, <2>2, <2>3, AskKeeps
<1>2. CASE Menu!UserDecides
  <2> DEFINE r == [kind |-> "decide", arg |-> modal.approval]
  <2>1. /\ toDaemon' = Append(toDaemon, r) /\ modal' = [modal EXCEPT !.decided = TRUE]
        /\ UNCHANGED <<queue, born, todo, bus, filter, covered, dropped, toTray, sub, inbox,
                       shown, restarts>>
    BY <1>2 DEF Menu!UserDecides, Menu!Ask, Menu!daemonVars
  <2>2. r \in Requests(S) /\ r # Asks /\ r.kind # "subscribe"
    BY <1>0 DEF Requests, Asks
  <2>3. modal' \in [approval : Names, decided : BOOLEAN]
    BY <1>0, <2>1
  <2> HIDE DEF r
  <2> QED
    BY <1>0, <2>1, <2>2, <2>3, AskKeeps
<1>3. CASE Menu!Subscribe(s)
  <2> DEFINE r == [kind |-> "subscribe", arg |-> s]
  <2>1. /\ toDaemon' = Append(toDaemon, r) /\ sub[s] = "new" /\ sub' = [sub EXCEPT ![s] = "asked"]
        /\ UNCHANGED <<queue, born, todo, bus, filter, covered, dropped, toTray, inbox, modal,
                       shown, restarts>>
    BY <1>3 DEF Menu!Subscribe, Menu!Ask, Menu!daemonVars
  <2>2. r \in Requests(S) /\ (r = Asks <=> s = "coordinator") /\ r.arg = s
    BY DEF Requests, Asks
  <2>3. /\ sub' \in [S -> {"new", "asked", "acked", "streaming", "ended"}] /\ sub'[s] = "asked"
        /\ \A x \in S : sub[x] # "new" => sub'[x] # "new"
    BY <1>0, <2>1
  <2>4. CASE s # "coordinator"
    <3> HIDE DEF r
    <3>1. "requested" \in Menu!Wants(r.arg) \/ Menu!Displaced'
      <4>1. CASE "requested" \notin Menu!Wants(s)
        <5>1. s \in DOMAIN sub' /\ sub'[s] # "new"
          BY <2>3
        <5> QED
          BY <4>1, <5>1 DEF Menu!Displaced, Menu!Wants
      <4> QED
        BY <2>2, <4>1
    <3>2. sub'["coordinator"] = sub["coordinator"]
      BY <1>0, <2>1, <2>4
    <3> QED
      BY <1>0, <2>1, <2>2, <2>3, <2>4, <3>1, <3>2, AskKeeps
  <2>5. CASE s = "coordinator"
    <3> HIDE DEF r
    <3>1. r = Asks /\ sub["coordinator"] = "new" /\ sub'["coordinator"] = "asked"
      BY <1>0, <2>1, <2>2, <2>5
    <3>2. Asks \notin Menu!ToSet(toDaemon) /\ Acks \notin Menu!ToSet(toTray)
      BY <1>0, <3>1 DEF Once
    <3>3. TrayTypes(S)'
      BY <1>0, <2>1, <2>2, <2>3 DEF TrayTypes
    <3>4. AtMostOnce(toDaemon', Asks)
      BY <1>0, <2>1, <2>2, <3>2, OnceKept DEF Once
    <3>5. /\ AtMostOnce(toDaemon, Asks)' /\ Menu!ToSet(toTray)' = Menu!ToSet(toTray)
          /\ (AtMostOnce(toTray, Acks) => AtMostOnce(toTray, Acks)')
          /\ Asks' = Asks /\ Acks' = Acks
      BY <2>1, <3>4 DEF AtMostOnce, Menu!ToSet, Asks, Acks
    <3>6. Once'
      BY <1>0, <3>1, <3>2, <3>5 DEF Once
    <3>7. Filtered'
      <4>1. CASE Menu!Displaced
        BY <1>0, <2>1, <2>3, <4>1, DisplacedStays DEF Filtered
      <4>2. CASE ~Menu!Displaced
        <5>1. Menu!ToSet(toDaemon') = Menu!ToSet(toDaemon) \union {r}
          BY <1>0, <2>1, <2>2, Members
        <5>2. "requested" \in Menu!Wants("coordinator")
          BY DEF Menu!Wants
        <5>3. \A q \in Menu!ToSet(toDaemon') :
                q.kind = "subscribe" => "requested" \in Menu!Wants(q.arg)
          BY <1>0, <2>2, <2>5, <4>2, <5>1, <5>2 DEF Filtered
        <5>4. (\A q \in Menu!ToSet(toDaemon) :
                q.kind = "subscribe" => "requested" \in Menu!Wants(q.arg))'
          BY <5>3 DEF Menu!Wants, Menu!ToSet
        <5>5. (filter # {} => "requested" \in filter)'
          BY <1>0, <2>1, <4>2 DEF Filtered
        <5> QED
          BY <3>1, <3>2, <3>5, <5>4, <5>5 DEF Filtered
      <4> QED
        BY <4>1, <4>2
    <3>8. queue' \intersect covered' = {}
      BY <1>0, <2>1, <3>1 DEF Streaming
    <3>9. Streaming' /\ Menu!PendingIsUnderWay'
      BY <3>8 DEF Streaming, Menu!PendingIsUnderWay
    <3> QED
      BY <3>3, <3>6, <3>7, <3>9 DEF TrayInv
  <2> QED
    BY <2>4, <2>5
<1>4. CASE Menu!Register(s)
  <2>1. /\ sub[s] = "acked" /\ sub' = [sub EXCEPT ![s] = "streaming"]
        /\ UNCHANGED <<queue, born, todo, bus, filter, covered, dropped, toDaemon, toTray, inbox,
                       modal, shown, restarts>>
    BY <1>4 DEF Menu!Register, Menu!daemonVars
  <2>2. TrayTypes(S)'
    BY <1>0, <2>1 DEF TrayTypes
  <2>3. /\ \/ sub'["coordinator"] = sub["coordinator"]
           \/ sub["coordinator"] = "acked" /\ sub'["coordinator"] = "streaming"
        /\ sub' \in [S -> {"new", "asked", "acked", "streaming", "ended"}]
        /\ \A x \in S : sub[x] # "new" => sub'[x] # "new"
    BY <1>0, <2>1
  <2>4. UNCHANGED <<Menu!ToSet(toDaemon), Menu!ToSet(toTray), AtMostOnce(toDaemon, Asks),
                    AtMostOnce(toTray, Acks), Asks, Acks>>
    BY <2>1 DEF AtMostOnce, Menu!ToSet, Asks, Acks
  <2>5. Once'
    BY <1>0, <2>3, <2>4 DEF Once
  <2>6. Menu!Displaced => Menu!Displaced'
    BY <1>0, <2>1, <2>3, DisplacedStays
  <2>7. Filtered'
    <3>1. \A x : Menu!Wants(x)' = Menu!Wants(x)
      BY DEF Menu!Wants
    <3> QED
      BY <1>0, <2>1, <2>3, <2>4, <2>6, <3>1 DEF Filtered
  <2>8. Streaming'
    BY <1>0, <2>1, <2>3 DEF Streaming
  <2>9. ASSUME NEW a, Menu!UnderWay(a) PROVE Menu!Accounted(a)'
    BY <2>1, <2>9 DEF Menu!UnderWay, Menu!Accounted, Menu!ToSet
  <2>10. ASSUME NEW a \in queue' \intersect covered' PROVE Menu!Accounted(a)'
    <3>1. Menu!Accounted(a) /\ dropped \subseteq dropped'
      BY <1>0, <2>1 DEF Menu!PendingIsUnderWay
    <3> QED
      BY <2>6, <2>9, <3>1, AccountedKept
  <2> QED
    BY <2>2, <2>5, <2>7, <2>8, <2>10 DEF TrayInv, Menu!PendingIsUnderWay
<1> QED
  BY <1>1, <1>2, <1>3, <1>4

\* The daemon serves a request.
LEMMA ServeStep ==
  ASSUME NEW S, "coordinator" \in S, TrayInv(S), Menu!Serve
  PROVE  TrayInv(S)'
<1> DEFINE r == Head(toDaemon)
<1>0. /\ TrayTypes(S) /\ Once /\ Filtered /\ Streaming /\ Menu!PendingIsUnderWay
      /\ toDaemon \in Seq(Requests(S)) /\ toTray \in Seq(Replies(S))
  BY DEF TrayInv, TrayTypes
<1>1. /\ toDaemon # <<>> /\ toDaemon' = Tail(toDaemon)
      /\ UNCHANGED <<born, bus, covered, dropped, sub, inbox, modal, shown, restarts>>
  BY DEF Menu!Serve, Menu!clientVars
<1>2. r \in Requests(S) /\ toDaemon' \in Seq(Requests(S))
  BY <1>0, <1>1
<1>3. PICK f \in Replies(S) :
        /\ toTray' = Append(toTray, f)
        /\ queue' \subseteq queue /\ todo \subseteq todo' /\ todo' \subseteq Events
        /\ \/ r.kind = "subscribe" /\ f = [kind |-> "ack", arg |-> r.arg]
              /\ filter' = Menu!Wants(r.arg)
           \/ r.kind # "subscribe" /\ f.kind # "ack" /\ filter' = filter
  <2>1. CASE r.kind = "subscribe" /\ filter' = Menu!Wants(r.arg) /\ UNCHANGED <<queue, todo>>
             /\ toTray' = Append(toTray, [kind |-> "ack", arg |-> r.arg])
    <3>1. [kind |-> "ack", arg |-> r.arg] \in Replies(S)
      BY <1>2, <2>1 DEF Requests, Replies
    <3> QED
      BY <1>0, <2>1, <3>1 DEF TrayTypes
  <2>2. CASE r.kind = "status" /\ UNCHANGED <<queue, todo, filter>>
             /\ toTray' = Append(toTray, [kind |-> "status", arg |-> r.arg])
    <3>1. [kind |-> "status", arg |-> r.arg] \in Replies(S)
      BY <1>2, <2>2 DEF Requests, Replies
    <3> QED
      BY <1>0, <2>2, <3>1 DEF TrayTypes
  <2>3. CASE r.kind = "list" /\ UNCHANGED <<queue, todo, filter>>
             /\ toTray' = Append(toTray, [kind |-> "list", arg |-> r.arg, n |-> Menu!Cardinality(queue)])
    <3>1. Menu!Cardinality(queue) \in Counts
      <4>1. queue \in SUBSET Names
        BY <1>0 DEF TrayTypes
      <4> QED
        BY <4>1 DEF Counts
    <3>2. r.arg \in Tasks
      BY <1>2, <2>3 DEF Requests
    <3>3. [kind |-> "list", arg |-> r.arg, n |-> Menu!Cardinality(queue)] \in Replies(S)
      BY <3>1, <3>2 DEF Replies
    <3> QED
      BY <1>0, <2>3, <3>3 DEF TrayTypes
  <2>4. CASE r.kind = "decide" /\ Menu!Decided(r.arg) /\ UNCHANGED filter
             /\ toTray' = Append(toTray, [kind |-> "decided", arg |-> r.arg])
    <3>1. r.arg \in Names
      BY <1>2, <2>4 DEF Requests
    <3>2. [kind |-> "decided", arg |-> r.arg] \in Replies(S) /\ <<"resolved", r.arg>> \in Events
      BY <3>1 DEF Replies, Events
    <3>3. queue' \subseteq queue /\ todo \subseteq todo' /\ todo' \subseteq Events
      <4>1. todo \subseteq Events
        BY <1>0 DEF TrayTypes
      <4>2. \/ queue' = queue \ {r.arg} /\ todo' = todo \union {<<"resolved", r.arg>>}
            \/ queue' = queue /\ todo' = todo
        BY <2>4 DEF Menu!Decided
      <4> HIDE DEF r
      <4> QED
        BY <3>2, <4>1, <4>2
    <3> QED
      BY <2>4, <3>2, <3>3
  <2> QED
    BY <2>1, <2>2, <2>3, <2>4 DEF Menu!Serve
<1>4. toTray' \in Seq(Replies(S))
  BY <1>0, <1>3
<1>5. TrayTypes(S)'
  BY <1>0, <1>1, <1>2, <1>3, <1>4 DEF TrayTypes
<1>6. /\ Menu!ToSet(toDaemon) = Menu!ToSet(toDaemon') \union {r}
      /\ Menu!ToSet(toTray') = Menu!ToSet(toTray) \union {f}
  BY <1>0, <1>1, <1>3, Members
<1>7. f = Acks => r = Asks
  <2>1. r.kind = "subscribe" /\ r.arg = "coordinator" => r = Asks
    BY <1>2 DEF Requests, Asks
  <2> QED
    BY <1>3, <2>1 DEF Acks
<1>8. AtMostOnce(toDaemon', Asks) /\ (r = Asks => Asks \notin Menu!ToSet(toDaemon'))
  BY <1>0, <1>1, OnceKept DEF Once
<1>9. AtMostOnce(toTray', Acks)
  <2>1. f # Acks \/ Acks \notin Menu!ToSet(toTray)
    BY <1>0, <1>6, <1>7 DEF Once
  <2> QED
    BY <1>0, <1>3, <2>1, OnceKept DEF Once
<1>10. Asks' = Asks /\ Acks' = Acks
  BY DEF Asks, Acks
<1>11. Once'
  <2>1. /\ ~(Asks \in Menu!ToSet(toDaemon') /\ Acks \in Menu!ToSet(toTray'))
        /\ Asks \in Menu!ToSet(toDaemon') \/ Acks \in Menu!ToSet(toTray')
             => sub'["coordinator"] = "asked"
    BY <1>0, <1>1, <1>6, <1>7, <1>8 DEF Once
  <2> QED
    BY <1>8, <1>9, <1>10, <2>1 DEF Once, AtMostOnce, Menu!ToSet
<1>12. Menu!Displaced => Menu!Displaced'
  BY <1>1, DisplacedSame
<1>13. Acks \in Menu!ToSet(toTray') => Acks \in Menu!ToSet(toTray) \/ "requested" \in filter'
  <2>1. CASE f = Acks
    <3>1. r = Asks
      BY <1>7, <2>1
    <3>2. filter' = Menu!Wants("coordinator")
      BY <1>3, <3>1 DEF Asks
    <3> QED
      BY <3>2 DEF Menu!Wants
  <2> QED
    BY <1>6, <2>1
<1>14. Filtered'
  <2>1. CASE Menu!Displaced
    BY <1>12, <2>1 DEF Filtered
  <2>2. CASE ~Menu!Displaced
    <3>1. r.kind = "subscribe" => "requested" \in Menu!Wants(r.arg)
      BY <1>0, <1>6, <2>2 DEF Filtered
    <3>2. filter' = filter \/ "requested" \in filter'
      BY <1>3, <3>1
    <3>3. /\ filter' # {} => "requested" \in filter'
          /\ Acks \in Menu!ToSet(toTray') => filter' # {}
          /\ sub'["coordinator"] \in {"acked", "streaming"} => filter' # {}
      BY <1>0, <1>1, <1>13, <2>2, <3>2 DEF Filtered
    <3>4. \A q \in Menu!ToSet(toDaemon') :
            q.kind = "subscribe" => "requested" \in Menu!Wants(q.arg)
      BY <1>0, <1>6, <2>2 DEF Filtered
    <3>5. (\A q \in Menu!ToSet(toDaemon) :
            q.kind = "subscribe" => "requested" \in Menu!Wants(q.arg))'
      BY <3>4 DEF Menu!Wants, Menu!ToSet
    <3>6. Menu!ToSet(toTray)' = Menu!ToSet(toTray')
      BY DEF Menu!ToSet
    <3> QED
      BY <1>10, <3>3, <3>5, <3>6 DEF Filtered
  <2> QED
    BY <2>1, <2>2
<1>15. Streaming'
  BY <1>0, <1>1, <1>3 DEF Streaming
<1>16. ASSUME NEW a, Menu!UnderWay(a) PROVE Menu!Accounted(a)'
  <2>1. /\ Menu!ToSet(toTray) \subseteq Menu!ToSet(toTray)'
        /\ Menu!ToSet(bus)' = Menu!ToSet(bus)
        /\ Menu!ToSet(inbox["coordinator"])' = Menu!ToSet(inbox["coordinator"])
    BY <1>1, <1>6 DEF Menu!ToSet
  <2> QED
    BY <1>1, <1>3, <1>16, <2>1 DEF Menu!UnderWay, Menu!Accounted
<1>17. ASSUME NEW a \in queue' \intersect covered' PROVE Menu!Accounted(a)'
  <2>1. Menu!Accounted(a) /\ dropped \subseteq dropped'
    BY <1>0, <1>1, <1>3 DEF Menu!PendingIsUnderWay
  <2> QED
    BY <1>12, <1>16, <2>1, AccountedKept
<1> QED
  BY <1>5, <1>11, <1>14, <1>15, <1>17 DEF TrayInv, Menu!PendingIsUnderWay

\* The fan-out task forwards an event, or holds it back; a request that counts
\* only if the filter was displaced.
LEMMA FanOutStep ==
  ASSUME NEW S, "coordinator" \in S, TrayInv(S), Menu!FanOut
  PROVE  TrayInv(S)'
<1> DEFINE e == Head(bus)
           n == [kind |-> "note", arg |-> e]
<1>0. /\ TrayTypes(S) /\ Once /\ Filtered /\ Streaming /\ Menu!PendingIsUnderWay
      /\ bus \in Seq(Events) /\ toTray \in Seq(Replies(S))
  BY DEF TrayInv, TrayTypes
<1>1. /\ bus # <<>> /\ bus' = Tail(bus)
      /\ \/ e[1] \in filter /\ toTray' = Append(toTray, n) /\ dropped' = dropped
         \/ /\ e[1] \notin filter /\ toTray' = toTray
            /\ dropped' = dropped \union Menu!HeldBack(e)
      /\ UNCHANGED <<queue, born, todo, filter, covered, toDaemon, sub, inbox, modal, shown,
                     restarts>>
  BY DEF Menu!FanOut, Menu!clientVars
<1>2. e \in Events /\ bus' \in Seq(Events)
  BY <1>0, <1>1
<1>3. n \in Replies(S) /\ n # Acks
  BY <1>2 DEF Replies, Acks
<1>4. Menu!ToSet(bus) = Menu!ToSet(bus') \union {e}
  BY <1>0, <1>1, Members
<1> HIDE DEF n, e
<1>5. /\ toTray' \in Seq(Replies(S)) /\ AtMostOnce(toTray', Acks)
      /\ Menu!ToSet(toTray') = IF e[1] \in filter THEN Menu!ToSet(toTray) \union {n}
                               ELSE Menu!ToSet(toTray)
  <2>1. Append(toTray, n) \in Seq(Replies(S)) /\ AtMostOnce(Append(toTray, n), Acks)
        /\ Menu!ToSet(Append(toTray, n)) = Menu!ToSet(toTray) \union {n}
    BY <1>0, <1>3, Members, OnceKept DEF Once
  <2> QED
    BY <1>0, <1>1, <2>1 DEF Once
<1>6. TrayTypes(S)'
  BY <1>0, <1>1, <1>2, <1>5 DEF TrayTypes
<1>7. Asks' = Asks /\ Acks' = Acks /\ AtMostOnce(toDaemon, Asks)' = AtMostOnce(toDaemon, Asks)
      /\ Menu!ToSet(toDaemon)' = Menu!ToSet(toDaemon)
  BY <1>1 DEF Asks, Acks, AtMostOnce, Menu!ToSet
<1>8. Acks \in Menu!ToSet(toTray') <=> Acks \in Menu!ToSet(toTray)
  BY <1>3, <1>5
<1>9. /\ Menu!ToSet(toTray)' = Menu!ToSet(toTray')
      /\ AtMostOnce(toTray, Acks)' = AtMostOnce(toTray', Acks)
      /\ Menu!ToSet(bus)' = Menu!ToSet(bus')
      /\ Menu!ToSet(inbox["coordinator"])' = Menu!ToSet(inbox["coordinator"])
  BY <1>1, <1>7 DEF Menu!ToSet, AtMostOnce
<1>10. Once'
  BY <1>0, <1>1, <1>5, <1>7, <1>8, <1>9 DEF Once
<1>11. (Menu!Displaced => Menu!Displaced') /\ dropped \subseteq dropped'
  BY <1>1, DisplacedSame
<1>12. Filtered'
  <2>1. \A x : Menu!Wants(x)' = Menu!Wants(x)
    BY DEF Menu!Wants
  <2> QED
    BY <1>0, <1>1, <1>7, <1>8, <1>9, <1>11, <2>1 DEF Filtered
<1>13. Streaming'
  BY <1>0, <1>1 DEF Streaming
<1>14. ASSUME NEW a \in queue' \intersect covered', Menu!UnderWay(a) PROVE Menu!Accounted(a)'
  <2>1. CASE <<"requested", a>> = e
    <3>1. e[1] = "requested" /\ n.kind = "note" /\ n.arg = <<"requested", a>>
          /\ Menu!HeldBack(e) = {a}
      BY <2>1 DEF n, Menu!HeldBack
    <3>2. CASE e[1] \in filter
      <4>1. n \in Menu!ToSet(toTray)'
        BY <1>5, <1>9, <3>2
      <4> QED
        BY <3>1, <4>1 DEF Menu!UnderWay, Menu!Accounted
    <3>3. CASE e[1] \notin filter
      <4>1. Menu!Displaced
        BY <1>0, <1>1, <1>14, <3>1, <3>3 DEF Streaming, Filtered
      <4>2. a \in dropped'
        BY <1>1, <3>1, <3>3
      <4> QED
        BY <1>11, <4>1, <4>2 DEF Menu!Accounted
    <3> QED
      BY <3>2, <3>3
  <2>2. CASE <<"requested", a>> # e
    BY <1>1, <1>4, <1>5, <1>9, <1>14, <2>2 DEF Menu!UnderWay, Menu!Accounted
  <2> QED
    BY <2>1, <2>2
<1>15. ASSUME NEW a \in queue' \intersect covered' PROVE Menu!Accounted(a)'
  <2>1. Menu!Accounted(a)
    BY <1>0, <1>1 DEF Menu!PendingIsUnderWay
  <2> QED
    BY <1>11, <1>14, <2>1, AccountedKept
<1> QED
  BY <1>6, <1>10, <1>12, <1>13, <1>15 DEF TrayInv, Menu!PendingIsUnderWay

\* No modal is one that a modal variable may have.
LEMMA NoModalTyped == Menu!NoModal \in [approval : Names, decided : BOOLEAN]
<1>1. None \in Names
  BY DEF Names
<1> QED
  BY <1>1 DEF Menu!NoModal

\* The tray routes a frame: an answer to the coordinator's subscription finds it
\* still asking, and a notification finds its stream.
LEMMA RouteStep ==
  ASSUME NEW S, "coordinator" \in S, TrayInv(S), Menu!Route
  PROVE  TrayInv(S)'
<1> DEFINE f == Head(toTray)
           R == S \ {"accounts"}
<1>0. /\ TrayTypes(S) /\ Once /\ Filtered /\ Streaming /\ Menu!PendingIsUnderWay
      /\ toTray \in Seq(Replies(S)) /\ inbox \in [R -> Seq(Events)] /\ "coordinator" \in R
      /\ sub \in [S -> {"new", "asked", "acked", "streaming", "ended"}]
  BY DEF TrayInv, TrayTypes
<1>1. /\ toTray # <<>> /\ toTray' = Tail(toTray)
      /\ UNCHANGED <<queue, born, todo, bus, filter, covered, dropped, toDaemon, shown, restarts>>
  BY DEF Menu!Route, Menu!daemonVars
<1>2. f \in Replies(S) /\ toTray' \in Seq(Replies(S))
  BY <1>0, <1>1
<1>3. /\ Menu!ToSet(toTray) = Menu!ToSet(toTray') \union {f}
      /\ AtMostOnce(toTray', Acks) /\ (f = Acks => Acks \notin Menu!ToSet(toTray'))
  BY <1>0, <1>1, Members, OnceKept DEF Once
<1>4. f.kind = "ack" /\ f.arg = "coordinator" <=> f = Acks
  BY <1>2 DEF Replies, Acks
<1>5. /\ f.kind = "ack" => f.arg \in S
      /\ f.kind = "note" => f.arg \in Events
  BY <1>2 DEF Replies
<1>6. /\ \/ f.kind = "ack" /\ sub' = [sub EXCEPT ![f.arg] = "acked"]
         \/ f.kind # "ack" /\ sub' = sub
      /\ \/ /\ f.kind = "note"
            /\ inbox' = [s \in DOMAIN inbox |->
                           IF sub[s] = "streaming" THEN Append(inbox[s], f.arg) ELSE inbox[s]]
         \/ f.kind # "note" /\ inbox' = inbox
      /\ modal' \in {modal, Menu!NoModal}
  BY DEF Menu!Route
<1> HIDE DEF f, R
<1>7. /\ sub' \in [S -> {"new", "asked", "acked", "streaming", "ended"}]
      /\ \A s \in S : sub[s] # "new" => sub'[s] # "new"
  BY <1>0, <1>6
<1>8. inbox' \in [R -> Seq(Events)]
  <2>1. CASE f.kind = "note"
    <3>1. \A s \in R : inbox[s] \in Seq(Events) /\ Append(inbox[s], f.arg) \in Seq(Events)
      BY <1>0, <1>5, <2>1
    <3>2. inbox' = [s \in R |-> IF sub[s] = "streaming" THEN Append(inbox[s], f.arg)
                               ELSE inbox[s]]
      BY <1>0, <1>6, <2>1
    <3> QED
      BY <3>1, <3>2
  <2>2. CASE f.kind # "note"
    BY <1>0, <1>6, <2>2
  <2> QED
    BY <2>1, <2>2
<1>9. modal' \in [approval : Names, decided : BOOLEAN]
  BY <1>0, <1>6, NoModalTyped DEF TrayTypes
<1>10. TrayTypes(S)'
  BY <1>0, <1>1, <1>2, <1>7, <1>8, <1>9 DEF TrayTypes, R
<1>11. /\ f = Acks => sub["coordinator"] = "asked" /\ sub'["coordinator"] = "acked"
       /\ f # Acks => sub'["coordinator"] = sub["coordinator"]
  BY <1>0, <1>3, <1>4, <1>6 DEF Once
<1>12. /\ Asks' = Asks /\ Acks' = Acks /\ AtMostOnce(toDaemon, Asks)' = AtMostOnce(toDaemon, Asks)
       /\ Menu!ToSet(toDaemon)' = Menu!ToSet(toDaemon)
       /\ Menu!ToSet(toTray)' = Menu!ToSet(toTray') /\ Menu!ToSet(bus)' = Menu!ToSet(bus)
  BY <1>1 DEF Asks, Acks, AtMostOnce, Menu!ToSet
<1>13. AtMostOnce(toTray, Acks)' = AtMostOnce(toTray', Acks)
  BY <1>12 DEF AtMostOnce
<1>14. Once'
  BY <1>0, <1>3, <1>11, <1>12, <1>13 DEF Once
<1>15. Menu!Displaced => Menu!Displaced'
  BY <1>0, <1>1, <1>7, DisplacedStays
<1>16. Filtered'
  <2>1. \A x : Menu!Wants(x)' = Menu!Wants(x)
    BY DEF Menu!Wants
  <2> QED
    BY <1>0, <1>1, <1>3, <1>11, <1>12, <1>15, <2>1 DEF Filtered
<1>17. queue' \intersect covered' # {} => f # Acks /\ sub["coordinator"] = "streaming"
  BY <1>0, <1>1, <1>11 DEF Streaming
<1>18. Streaming'
  BY <1>11, <1>17 DEF Streaming
<1>19. ASSUME NEW a \in queue' \intersect covered', Menu!UnderWay(a) PROVE Menu!Accounted(a)'
  <2> DEFINE n == <<"requested", a>>
  <2>1. sub["coordinator"] = "streaming" /\ inbox["coordinator"] \in Seq(Events)
    BY <1>0, <1>17
  <2>2. CASE f.kind = "note"
    <3>1. inbox'["coordinator"] = Append(inbox["coordinator"], f.arg)
      BY <1>0, <1>6, <2>1, <2>2
    <3>2. Menu!ToSet(Append(inbox["coordinator"], f.arg))
            = Menu!ToSet(inbox["coordinator"]) \union {f.arg}
      BY <1>5, <2>1, <2>2, Members
    <3>3. Menu!ToSet(inbox["coordinator"])' = Menu!ToSet(inbox["coordinator"]) \union {f.arg}
      BY <3>1, <3>2 DEF Menu!ToSet
    <3>4. CASE f.arg = n
      BY <3>3, <3>4 DEF Menu!UnderWay, Menu!Accounted
    <3>5. CASE f.arg # n
      BY <1>1, <1>3, <1>12, <1>19, <3>3, <3>5 DEF Menu!UnderWay, Menu!Accounted
    <3> QED
      BY <3>4, <3>5
  <2>3. CASE f.kind # "note"
    <3>1. Menu!ToSet(inbox["coordinator"])' = Menu!ToSet(inbox["coordinator"])
      BY <1>6, <2>3 DEF Menu!ToSet
    <3> QED
      BY <1>1, <1>3, <1>12, <1>19, <2>3, <3>1 DEF Menu!UnderWay, Menu!Accounted
  <2> QED
    BY <2>2, <2>3
<1>20. ASSUME NEW a \in queue' \intersect covered' PROVE Menu!Accounted(a)'
  <2>1. Menu!Accounted(a) /\ dropped \subseteq dropped'
    BY <1>0, <1>1 DEF Menu!PendingIsUnderWay
  <2> QED
    BY <1>15, <1>19, <2>1, AccountedKept
<1> QED
  BY <1>10, <1>14, <1>16, <1>18, <1>20 DEF TrayInv, Menu!PendingIsUnderWay

\* Another daemon starts with an empty queue, and nobody's subscription.
LEMMA RestartStep ==
  ASSUME NEW S, "coordinator" \in S, TrayInv(S), Restart(S)
  PROVE  TrayInv(S)'
<1>0. TrayTypes(S)
  BY DEF TrayInv
<1>1. TrayTypes(S)'
  <2>1. /\ bus' \in Seq(Events) /\ toDaemon' \in Seq(Requests(S)) /\ toTray' \in Seq(Replies(S))
    BY EmptySeq DEF Restart
  <2>2. modal' \in [approval : Names, decided : BOOLEAN]
    BY <1>0, NoModalTyped DEF Restart, TrayTypes
  <2>3. sub' \in [S -> {"new", "asked", "acked", "streaming", "ended"}]
    BY DEF Restart
  <2> QED
    BY <1>0, <2>1, <2>2, <2>3 DEF Restart, TrayTypes
<1>2. Menu!ToSet(toDaemon)' = {} /\ Menu!ToSet(toTray)' = {}
      /\ AtMostOnce(toDaemon, Asks)' /\ AtMostOnce(toTray, Acks)'
  BY DEF Restart, Menu!ToSet, AtMostOnce
<1>3. Once'
  BY <1>2 DEF Once
<1>4. Filtered'
  <2>1. restarts' > 0
    BY <1>0 DEF Restart, TrayTypes
  <2> QED
    BY <2>1 DEF Filtered, Menu!Displaced
<1>5. Streaming' /\ Menu!PendingIsUnderWay'
  BY DEF Restart, Streaming, Menu!PendingIsUnderWay
<1> QED
  BY <1>1, <1>3, <1>4, <1>5 DEF TrayInv

\* Every step of either instance keeps the invariant of the approvals.
LEMMA TrayStep ==
  ASSUME NEW S, "coordinator" \in S, TrayInv(S), TrayNext(S)
  PROVE  TrayInv(S)'
<1>1. None \in Names /\ <<"resolved", None>> \in Events /\ "loop" \in Tasks
  BY DEF Names, Events, Tasks
<1>2. ASSUME NEW a \in Names, Enqueue(a) \/ Menu!Expire(a) \/ Menu!DecideElsewhere(a)
      PROVE  TrayInv(S)'
  BY <1>1, <1>2, DaemonSteps
<1>3. ASSUME NEW e \in Events, Menu!Announce(e) PROVE TrayInv(S)'
  BY <1>1, <1>3, DaemonSteps
<1>4. CASE Menu!Change
  BY <1>1, <1>4, DaemonSteps
<1>5. ASSUME NEW s \in S, Menu!Subscribe(s) \/ Menu!Register(s) PROVE TrayInv(S)'
  BY <1>1, <1>5, AskSteps
<1>6. ASSUME NEW t \in Tasks, Menu!Refresh(t) \/ Menu!RefreshList(t) PROVE TrayInv(S)'
  BY <1>6, AskSteps
<1>7. CASE Menu!UserDecides
  BY <1>1, <1>7, AskSteps
<1>8. ASSUME NEW t \in Tasks, Menu!Refreshed(t) PROVE TrayInv(S)'
  BY <1>8, ViewSteps
<1>9. CASE Menu!StatusNote \/ Menu!Present
  BY <1>1, <1>9, ViewSteps
<1>10. CASE Menu!Serve
  BY <1>10, ServeStep
<1>11. CASE Menu!FanOut
  BY <1>11, FanOutStep
<1>12. CASE Menu!Route
  BY <1>12, RouteStep
<1>13. CASE Restart(S)
  BY <1>13, RestartStep
<1> QED
  BY <1>2, <1>3, <1>4, <1>5, <1>6, <1>7, <1>8, <1>9, <1>10, <1>11, <1>12, <1>13 DEF TrayNext

------------------------------------------------------------------------------
(***************************************************************************)
(* The invariant of the composition.                                       *)
(***************************************************************************)
\* The parts start as they should.
LEMMA InitTInv == Init => TInv
<1> SUFFICES ASSUME Init PROVE TInv
  OBVIOUS
<1>1. MacInv
  <2>1. Mac!Init
    BY DEF Init
  <2>2. Mac!Idle \in Mac!CallState /\ Mac!Idle.step = "idle"
    BY DEF Mac!Idle, Mac!CallState, Mac!Frame
  <2>3. call \in [Callers -> Mac!CallState] /\ \A c \in Callers : call[c].step = "idle"
    BY <2>1, <2>2 DEF Mac!Init
  <2>4. up \in [Mac!Conns -> Seq(MacGenuine)] /\ down \in [Mac!Conns -> Seq(MacGenuine)]
    BY <2>1, EmptySeq DEF Mac!Init
  <2> QED
    BY <2>1, <2>3, <2>4 DEF Mac!Init, MacInv, Mac!AnswerIsMine, Mac!Running
<1>2. WinInv
  <2>1. Win!Init
    BY DEF Init
  <2>2. /\ Win!Idle \in WinCall /\ Win!Idle.id = 0 /\ Win!Idle.serial = 0 /\ Win!Idle.answer = 0
    BY DEF Win!Idle, WinCall
  <2>3. /\ winCall \in [Callers -> WinCall]
        /\ \A c \in Callers : winCall[c] = Win!Idle
    BY <2>1, <2>2 DEF Win!Init
  <2>4. \A c \in Callers : Win!Frame(c) \in WinGenuine
    <3>1. \A c \in Callers : Win!Frame(c) = [id |-> 0, serial |-> 0]
      BY <2>2, <2>3 DEF Win!Frame
    <3>2. [id |-> 0, serial |-> 0] \in WinGenuine
      BY <2>1 DEF Win!Init, WinGenuine
    <3> QED
      BY <3>1, <3>2
  <2>5. buffer \in Seq(WinGenuine) /\ winUp \in Seq(WinGenuine) /\ winDown \in Seq(WinGenuine)
    BY <2>1, EmptySeq DEF Win!Init
  <2> QED
    BY <2>1, <2>2, <2>3, <2>4, <2>5 DEF Win!Init, WinInv, Win!AnswerIsMine
<1>3. ASSUME NEW S, "coordinator" \in S,
             /\ queue = {} /\ born = {} /\ todo = {} /\ bus = <<>> /\ filter = {}
             /\ toDaemon = <<>> /\ toTray = <<>> /\ covered = {} /\ restarts = 0
             /\ sub = [s \in S |-> "new"] /\ inbox = [s \in S \ {"accounts"} |-> <<>>]
             /\ modal = Menu!NoModal
      PROVE  TrayInv(S)
  <2>3. /\ bus \in Seq(Events) /\ toDaemon \in Seq(Requests(S))
        /\ toTray \in Seq(Replies(S)) /\ inbox \in [S \ {"accounts"} -> Seq(Events)]
    BY <1>3, EmptySeq
  <2>4. TrayTypes(S)
    BY <1>3, <2>3, NoModalTyped DEF TrayTypes
  <2>5. Menu!ToSet(toDaemon) = {} /\ Menu!ToSet(toTray) = {}
        /\ AtMostOnce(toDaemon, Asks) /\ AtMostOnce(toTray, Acks)
    BY <1>3 DEF Menu!ToSet, AtMostOnce
  <2>6. Once
    BY <2>5 DEF Once
  <2>7. Filtered
    BY <1>3, <2>5 DEF Filtered
  <2>8. Streaming /\ Menu!PendingIsUnderWay
    BY <1>3 DEF Streaming, Menu!PendingIsUnderWay
  <2> QED
    BY <2>4, <2>6, <2>7, <2>8 DEF TrayInv
<1>4. part = "modals" => TrayInv(ModalsSubs)
  BY <1>3 DEF Init, Modals!Init, Modals!Readers, ModalsSubs, Modals!NoModal, Menu!NoModal
<1>5. part # "modals" => TrayInv(MenuSubs)
  BY <1>3 DEF Init, Menu!Init, Menu!Readers, MenuSubs
<1> QED
  BY <1>1, <1>2, <1>4, <1>5 DEF TInv

\* What a part does not touch keeps its invariant.
LEMMA MacIdle == MacInv /\ UNCHANGED macVars => MacInv'
  BY DEF MacInv, MacGenuine, macVars, Mac!AnswerIsMine

\* The same, for the Windows client.
LEMMA WinIdle == WinInv /\ UNCHANGED winVars => WinInv'
  BY DEF WinInv, WinGenuine, Win!Frame, winVars, Win!AnswerIsMine

\* The same, for the approvals.
LEMMA TrayIdle == ASSUME NEW S, TrayInv(S), UNCHANGED menuVars PROVE TrayInv(S)'
<1>1. UNCHANGED <<queue, born, todo, bus, filter, covered, dropped, toDaemon, toTray, sub, inbox,
                  modal, shown, restarts>>
  BY DEF menuVars
<1>2. TrayTypes(S)'
  BY <1>1 DEF TrayInv, TrayTypes
<1>3. \A b : Menu!UnderWay(b) => Menu!Accounted(b)'
  BY <1>1 DEF Menu!UnderWay, Menu!ToSet, Menu!Accounted
<1> QED
  BY <1>1, <1>2, <1>3, TrayQuiet

\* The inductive invariant.
LEMMA Invariant == Spec => []TInv
<1>1. TInv /\ [Next]_vars => TInv'
  <2> SUFFICES ASSUME TInv, [Next]_vars PROVE TInv'
    OBVIOUS
  <2>1. CASE part = "macos" /\ Mac!Next /\ UNCHANGED <<part, winVars, menuVars>>
    BY <2>1, MacStep, WinIdle, TrayIdle DEF TInv
  <2>2. CASE part = "windows" /\ Win!Next /\ UNCHANGED <<part, macVars, menuVars>>
    BY <2>2, WinStep, MacIdle, TrayIdle DEF TInv
  <2>3. CASE part = "modals" /\ Modals!Next /\ UNCHANGED <<part, macVars, winVars>>
    <3>1. "coordinator" \in ModalsSubs
      BY DEF ModalsSubs
    <3>2. TrayInv(ModalsSubs)'
      BY <2>3, <3>1, ModalsSteps, TrayStep DEF TInv
    <3> QED
      BY <2>3, <3>2, MacIdle, WinIdle DEF TInv
  <2>4. CASE part = "menu" /\ Menu!Next /\ UNCHANGED <<part, macVars, winVars>>
    <3>1. "coordinator" \in MenuSubs
      BY DEF MenuSubs
    <3>2. TrayInv(MenuSubs)'
      BY <2>4, <3>1, MenuSteps, TrayStep DEF TInv
    <3> QED
      BY <2>4, <3>2, MacIdle, WinIdle DEF TInv
  <2>5. CASE UNCHANGED vars
    BY <2>5, MacIdle, WinIdle, TrayIdle DEF TInv, vars
  <2> QED
    BY <2>1, <2>2, <2>3, <2>4, <2>5 DEF Next
<1> QED
  BY InitTInv, <1>1, PTL DEF Spec

(***************************************************************************)
(* A call that returns a response returns the one to its own request, on   *)
(* macOS across reconnects and stashed responses (IpcClient.swift), on     *)
(* Windows across calls that threw and lines that were damaged             *)
(* (IpcClient.cs).                                                         *)
(***************************************************************************)
THEOREM AnswersAreMine == Spec => []AnswerIsMine
<1>1. TInv => AnswerIsMine
  BY DEF TInv, MacInv, WinInv, AnswerIsMine
<1> QED
  BY <1>1, Invariant, PTL

(***************************************************************************)
(* An approval that is pending and was asked for while ApprovalCoordinator *)
(* had its stream has been shown in a modal or is on its way to be,        *)
(* whatever polls, decides or keeps the main actor meanwhile, with one     *)
(* exception: the connection's filter held the request back, after a       *)
(* restart or after a subscriber with a filter of account events only had  *)
(* displaced the coordinator's (ApprovalCoordinator.swift, ipc/server.rs). *)
(***************************************************************************)
THEOREM PendingStaysUnderWay == Spec => []PendingIsUnderWay
<1>1. TInv => PendingIsUnderWay
  BY DEF TInv, TrayInv, PendingIsUnderWay
<1> QED
  BY <1>1, Invariant, PTL
------------------------------------------------------------------------------
(***************************************************************************)
(* No call is forgotten: the part of EveryCallReturns that is not about    *)
(* fairness.                                                               *)
(***************************************************************************)
Ids(s) == {f.id : f \in Menu!ToSet(s)}

\* macOS: what ends the wait of c: on the connection it was written to its answer is
\* there, or its request is and the daemon can answer, or the reader is about to see
\* the end; or it has not parked yet and will find its answer stashed or no
\* connection at all.
MacReturns(c) ==
  LET k == call[c].conn IN
    \/ reader[k] = "reading" /\ call[c].id \in Ids(down[k])
    \/ reader[k] = "reading" /\ k \in open /\ call[c].id \in Ids(up[k])
    \/ reader[k] = "reading" /\ k \notin open
    \/ call[c].step = "written" /\ (isClosed \/ \E f \in early : f.id = call[c].id)

\* Windows: what ends the wait of c: a step of its own, or its line, which is on the
\* pipe, and the task that CallAsync registered for the answer.
WinReturns(c) ==
  \/ winCall[c].step \in {"ready", "written"}
  \/ winCall[c].step = "flushing" /\ flusher = c
  \/ winCall[c].step = "sent" /\ winCall[c].answer # 0
  \/ /\ winCall[c].step = "sent" /\ winCall[c].id \in Ids(winUp) \union Ids(winDown)
     /\ [id |-> winCall[c].id, serial |-> winCall[c].serial, of |-> c] \in winPending

\* No call is forgotten by its client: something that can still happen ends the wait
\* of every call but the ones that EveryCallReturns leaves out.  On macOS (call,
\* awaitResponse, routeFrame, failOnEof), over any number of connections, those are
\* the calls whose connection is not the one in use any more; a response that comes
\* before its call has parked is stashed, and the continuation of a parked call is
\* registered.  On Windows (CallAsync, RouteFrame) it holds while the daemon runs and
\* no two threads have written at once: the read loop has not been faulted by a line
\* that nobody waits for, whatever calls threw.
NoCallForgotten ==
  /\ \A c \in Callers :
       /\ Mac!Waits(c) /\ fd \in {0, call[c].conn} => MacReturns(c)
       /\ call[c].step = "parked" => c \in pending
  /\ winOpen /\ ~overlapped =>
       /\ winReader = "reading"
       /\ \A c \in Callers : Win!Waits(c) => WinReturns(c)

(***************************************************************************)
(* The macOS client and its connections.                                   *)
(***************************************************************************)
ReadersOK == reader \in [Mac!Conns -> {"none", "reading", "done"}]

\* One connection is read at a time, the one in use, and it is read as long as the
\* daemon has it open or has left something on it.
MacUse ==
  /\ fd # 0 => reader[fd] = "reading" /\ ~isClosed
  /\ \A k \in Mac!Conns : reader[k] = "reading" => fd = k
  /\ \A k \in Mac!Conns : reader[k] # "reading" => down[k] = <<>> /\ k \notin open
  /\ fd = 0 /\ ~isClosed => \A k \in Mac!Conns : reader[k] = "none"

MacParked == \A c \in Callers : call[c].step = "parked" => c \in pending /\ ~isClosed

MacApart ==
  \A c, e \in Callers : Mac!Waits(c) /\ Mac!Waits(e) /\ call[c].id = call[e].id => c = e

\* The request or the answer of a call on the connection in use is somewhere, or the
\* daemon has left.
MacThere(c) ==
  \/ call[c].id \in Ids(down[fd]) \union Ids(up[fd])
  \/ call[c].step = "written" /\ \E f \in early : f.id = call[c].id
  \/ fd \notin open

MacHeld ==
  \A c \in Callers : Mac!Waits(c) =>
    /\ call[c].conn \in Mac!Conns /\ reader[call[c].conn] # "none"
    /\ call[c].conn = fd => MacThere(c)

MacLine == ReadersOK /\ MacUse /\ MacParked /\ MacApart /\ MacHeld

\* The ids of a sequence that grows or loses its head.
LEMMA IdsMove ==
  ASSUME NEW S, NEW s \in Seq(S)
  PROVE  /\ \A x \in S : Ids(Append(s, x)) = Ids(s) \union {x.id}
         /\ s # <<>> => Ids(s) = Ids(Tail(s)) \union {Head(s).id}
<1>0. \A A, x : {f.id : f \in A \union {x}} = {f.id : f \in A} \union {x.id}
  OBVIOUS
<1>1. ASSUME NEW x \in S PROVE Ids(Append(s, x)) = Ids(s) \union {x.id}
  <2>1. Menu!ToSet(Append(s, x)) = Menu!ToSet(s) \union {x}
    BY Members
  <2> QED
    BY <1>0, <2>1 DEF Ids
<1>2. ASSUME s # <<>> PROVE Ids(s) = Ids(Tail(s)) \union {Head(s).id}
  <2>1. Menu!ToSet(s) = Menu!ToSet(Tail(s)) \union {Head(s)}
    BY <1>2, Members
  <2> QED
    BY <1>0, <2>1 DEF Ids
<1> QED
  BY <1>1, <1>2

\* Every step that makes no call leaves the ids of the calls that wait apart.
LEMMA MacApartKept ==
  ASSUME MacApart,
         \A e \in Callers : Mac!Waits(e)' => Mac!Waits(e) /\ call'[e].id = call[e].id
  PROVE  MacApart'
BY DEF MacApart

\* A step that leaves the connections alone, except that the daemon may go, and does
\* not begin a call: calls go on waiting as they are, or stop.
LEMMA MacStays ==
  ASSUME MacLine, UNCHANGED <<fd, isClosed, reader, up, down>>, open' \subseteq open,
         \A e \in Callers : Mac!Waits(e)' =>
           /\ Mac!Waits(e) /\ call'[e].id = call[e].id /\ call'[e].conn = call[e].conn
           /\ (\E f \in early : f.id = call[e].id) /\ call[e].step = "written" =>
                \/ call'[e].step = "written" /\ \E f \in early' : f.id = call[e].id
                \/ call[e].conn # fd,
         MacParked'
  PROVE  MacLine'
<1>1. ReadersOK' /\ MacUse'
  BY DEF MacLine, ReadersOK, MacUse
<1>2. MacApart'
  BY MacApartKept DEF MacLine
<1>3. MacHeld'
  <2> SUFFICES ASSUME NEW e \in Callers, Mac!Waits(e)'
               PROVE  /\ call'[e].conn \in Mac!Conns /\ reader'[call'[e].conn] # "none"
                      /\ call'[e].conn = fd' => MacThere(e)'
    BY DEF MacHeld
  <2>1. Mac!Waits(e) /\ call'[e].id = call[e].id /\ call'[e].conn = call[e].conn
    OBVIOUS
  <2>2. /\ call[e].conn \in Mac!Conns /\ reader[call[e].conn] # "none"
        /\ call[e].conn = fd => MacThere(e)
    BY <2>1 DEF MacLine, MacHeld
  <2> QED
    BY <2>1, <2>2 DEF MacThere
<1> QED
  BY <1>1, <1>2, <1>3 DEF MacLine

\* Every step of the macOS client keeps this.
LEMMA MacLineStep == MacInv /\ MacLine /\ Mac!Next => MacLine'
<1> SUFFICES ASSUME MacInv, MacLine, Mac!Next PROVE MacLine'
  OBVIOUS
<1>0. /\ call \in [Callers -> Mac!CallState] /\ nextId \in Nat /\ calls \in Nat
      /\ fd \in {0} \union Mac!Conns /\ 0 \notin Mac!Conns
      /\ pending \subseteq {c \in Callers : call[c].step = "parked"}
      /\ \A c \in Callers : Mac!Waits(c) => call[c].id < nextId
      /\ \A c \in Callers : call[c].id \in Nat
      /\ up \in [Mac!Conns -> Seq(MacGenuine)] /\ down \in [Mac!Conns -> Seq(MacGenuine)]
      /\ Mac!NoFrame \in Mac!Frame
  BY DEF MacInv, Mac!Conns, Mac!Waits, Mac!CallState, Mac!NoFrame, Mac!Frame
<1>a. ReadersOK /\ MacUse /\ MacParked /\ MacApart /\ MacHeld
  BY DEF MacLine
<1>1. ASSUME NEW c \in Callers, Mac!Call(c) PROVE MacLine'
  <2> DEFINE new == [id |-> nextId, serial |-> calls + 1]
  <2>1. /\ ~Mac!Waits(c) /\ nextId' = nextId + 1
        /\ call' = [call EXCEPT ![c] = Mac!Written(nextId)]
        /\ up' = [up EXCEPT ![Mac!Used] = Append(@, new)]
        /\ UNCHANGED <<pending, early, down>>
        /\ Mac!Used # 0 /\ (Mac!Connected => Mac!Used \in open) /\ Mac!Reconnect(Mac!Used)
    BY <1>1 DEF Mac!Call, Mac!Start, Mac!Waits
  <2>2. /\ Mac!Written(nextId).step = "written" /\ Mac!Written(nextId).id = nextId
        /\ Mac!Written(nextId).conn = Mac!Used
    BY DEF Mac!Written, Mac!Idle
  <2>3. \A e \in Callers : call'[e] = IF e = c THEN Mac!Written(nextId) ELSE call[e]
    BY <1>0, <2>1
  <2>4. PICK k : k = Mac!Used
    OBVIOUS
  <2>5. /\ k \in Mac!Conns /\ fd' = k /\ isClosed' = FALSE /\ k \in open'
        /\ reader' = [reader EXCEPT ![k] = "reading"] /\ open' = open \union {k}
        /\ \/ k = fd /\ ~isClosed /\ reader[k] = "reading" /\ UNCHANGED reader
           \/ reader[k] = "none" /\ fd = 0
    <3>1. CASE Mac!Connected
      <4>1. fd # 0 /\ ~isClosed /\ k = fd /\ reader[k] = "reading" /\ k \in open
        BY <1>a, <2>1, <2>4, <3>1 DEF Mac!Connected, Mac!Used, MacUse
      <4>2. UNCHANGED <<fd, isClosed, reader, open>>
        BY <2>1, <2>4, <3>1 DEF Mac!Reconnect
      <4>3. isClosed = FALSE
        <5>1. isClosed' = isClosed
          BY <4>2
        <5> QED
          BY <4>1 DEF MacLine
      <4> QED
        BY <1>0, <1>a, <4>1, <4>2, <4>3 DEF ReadersOK
    <3>2. CASE ~Mac!Connected
      <4>1. k \in Mac!Conns /\ reader[k] = "none"
        BY <2>1, <2>4, <3>2, MacUsed
      <4>2. /\ fd' = k /\ isClosed' = FALSE /\ open' = open \union {k}
            /\ reader' = [reader EXCEPT ![k] = "reading"]
        BY <2>1, <2>4, <3>2 DEF Mac!Reconnect
      <4>3. fd = 0
        BY <1>a, <3>2 DEF Mac!Connected, MacUse
      <4> QED
        BY <4>1, <4>2, <4>3
    <3> QED
      BY <3>1, <3>2
  <2>6. ReadersOK' /\ reader'[k] = "reading" /\ \A j \in Mac!Conns : j # k => reader'[j] = reader[j]
    BY <1>a, <2>5 DEF ReadersOK
  <2>7. Ids(up'[k]) = Ids(up[k]) \union {nextId} /\ down' = down
    <3>1. up'[k] = Append(up[k], new) /\ up[k] \in Seq(MacGenuine)
      BY <1>0, <2>1, <2>4, <2>5
    <3>2. up[k] \in Seq(MacGenuine \union {new})
      BY <3>1, SeqMono
    <3>3. Ids(Append(up[k], new)) = Ids(up[k]) \union {new.id}
      BY <3>2, IdsMove
    <3> QED
      BY <2>1, <3>1, <3>3
  <2>8. \A e \in Callers : Mac!Waits(e)' <=> (e = c \/ Mac!Waits(e))
    BY <2>2, <2>3 DEF Mac!Waits, Mac!Running
  <2>9. MacUse'
    <3>1. \A j \in Mac!Conns : reader'[j] = "reading" => j = k
      BY <1>0, <1>a, <2>5, <2>6 DEF MacUse
    <3>2. \A j \in Mac!Conns : reader'[j] # "reading" => j # k /\ down'[j] = <<>> /\ j \notin open'
      BY <1>a, <2>5, <2>6, <2>7 DEF MacUse
    <3> QED
      BY <1>0, <2>5, <2>6, <3>1, <3>2 DEF MacUse
  <2>10. MacParked'
    BY <1>a, <2>1, <2>2, <2>3, <2>5 DEF MacParked
  <2>11. MacApart'
    BY <1>0, <1>a, <2>1, <2>2, <2>3, <2>8 DEF MacApart
  <2>12. MacHeld'
    <3> SUFFICES ASSUME NEW e \in Callers, Mac!Waits(e)'
                 PROVE  /\ call'[e].conn \in Mac!Conns /\ reader'[call'[e].conn] # "none"
                        /\ call'[e].conn = fd' => MacThere(e)'
      BY DEF MacHeld
    <3>1. CASE e = c
      <4>1. call'[e].conn = k /\ call'[e].id = nextId
        BY <2>2, <2>3, <2>4, <3>1
      <4>2. reader'[call'[e].conn] # "none"
        BY <2>6, <4>1
      <4> QED
        BY <2>5, <2>7, <4>1, <4>2 DEF MacThere
    <3>2. CASE e # c
      <4>1. Mac!Waits(e) /\ call'[e] = call[e]
        BY <2>3, <2>8, <3>2
      <4>2. /\ call[e].conn \in Mac!Conns /\ reader[call[e].conn] # "none"
            /\ call[e].conn = fd => MacThere(e)
        BY <1>a, <4>1 DEF MacHeld
      <4>3. reader'[call[e].conn] # "none"
        BY <2>6, <4>2
      <4>4. ASSUME call[e].conn = k PROVE MacThere(e)'
        <5>1. k = fd /\ MacThere(e) /\ fd' = fd
          BY <2>5, <4>2, <4>4
        <5>2. k \in open
          BY <1>1, <2>1, <2>4, <2>5, <4>2, <4>4 DEF Mac!Connected
        <5> QED
          BY <2>1, <2>7, <4>1, <5>1, <5>2 DEF MacThere
      <4> QED
        BY <2>5, <4>1, <4>2, <4>3, <4>4
    <3> QED
      BY <3>1, <3>2
  <2> QED
    BY <2>6, <2>9, <2>10, <2>11, <2>12 DEF MacLine
<1>2. ASSUME NEW c \in Callers, Mac!CallFails(c) PROVE MacLine'
  <2>1. /\ ~Mac!Waits(c) /\ call' = [call EXCEPT ![c] = [Mac!Idle EXCEPT !.step = "failed"]]
        /\ UNCHANGED <<fd, isClosed, pending, early, reader, up, down, open>>
    BY <1>2 DEF Mac!CallFails, Mac!Start, Mac!wire, Mac!Waits
  <2>2. [Mac!Idle EXCEPT !.step = "failed"].step = "failed"
    BY DEF Mac!Idle
  <2>3. \A e \in Callers : /\ e = c => call'[e].step = "failed"
                           /\ e # c => call'[e] = call[e]
    BY <1>0, <2>1, <2>2
  <2>4. \A e \in Callers : Mac!Waits(e)' => Mac!Waits(e) /\ call'[e] = call[e]
    BY <2>3 DEF Mac!Waits, Mac!Running
  <2>5. MacParked'
    BY <1>a, <2>1, <2>3 DEF MacParked
  <2> QED
    BY <2>1, <2>4, <2>5, MacStays
<1>4. ASSUME NEW c \in Callers, Mac!Timeout(c) PROVE MacLine'
  <2>1. /\ call' = [call EXCEPT ![c].timedOut = TRUE]
        /\ UNCHANGED <<fd, isClosed, pending, early, reader, up, down, open>>
    BY <1>4 DEF Mac!Timeout, Mac!wire
  <2>2. \A e \in Callers : /\ call'[e].step = call[e].step /\ call'[e].id = call[e].id
                           /\ call'[e].conn = call[e].conn
    BY <1>0, <2>1 DEF Mac!CallState
  <2>3. \A e \in Callers : Mac!Waits(e)' <=> Mac!Waits(e)
    BY <2>2 DEF Mac!Waits
  <2>4. MacParked'
    BY <1>a, <2>1, <2>2 DEF MacParked
  <2> QED
    BY <2>1, <2>2, <2>3, <2>4, MacStays
<1>3. ASSUME NEW c \in Callers, Mac!Await(c) PROVE MacLine'
  <2>1. /\ call[c].step = "written" /\ UNCHANGED <<fd, isClosed, reader, up, down, open>>
    BY <1>3 DEF Mac!Await, Mac!wire
  <2>2. call[c] \in Mac!CallState /\ c \notin pending /\ Mac!Waits(c)
    BY <1>0, <2>1 DEF Mac!Waits, Mac!Running
  <2>3. CASE \E f \in Mac!Frame, s \in {"ok", "failed"} :
               /\ call' = [call EXCEPT ![c] = Mac!Return(@, s, f)]
               /\ \/ UNCHANGED early
                  \/ early' = early \ {f} /\ f.id = call[c].id
               /\ UNCHANGED pending
    <3>1. PICK f \in Mac!Frame, s \in {"ok", "failed"} :
                 /\ call' = [call EXCEPT ![c] = Mac!Return(@, s, f)]
                 /\ \/ UNCHANGED early
                    \/ early' = early \ {f} /\ f.id = call[c].id
                 /\ UNCHANGED pending
      BY <2>3
    <3>2. Mac!Return(call[c], s, f).step \in {"timeout", s}
      BY <2>2, <3>1, MacReturn
    <3>3. \A e \in Callers : /\ e = c => call'[e].step \in {"timeout", "ok", "failed"}
                             /\ e # c => call'[e] = call[e]
      BY <1>0, <3>1, <3>2
    <3>4. \A e \in Callers : Mac!Waits(e)' => e # c /\ Mac!Waits(e) /\ call'[e] = call[e]
      BY <3>3 DEF Mac!Waits, Mac!Running
    <3>5. MacParked'
      BY <1>a, <2>1, <3>1, <3>3 DEF MacParked
    <3>6. ASSUME NEW e \in Callers, Mac!Waits(e)', NEW g \in early, g.id = call[e].id
          PROVE  g \in early'
      <4>1. call[e].id # call[c].id
        BY <1>a, <2>2, <3>4, <3>6 DEF MacApart
      <4> QED
        BY <3>1, <3>6, <4>1
    <3> QED
      BY <2>1, <3>4, <3>5, <3>6, MacStays
  <2>4. CASE /\ ~isClosed /\ {f \in early : f.id = call[c].id} = {}
             /\ call' = [call EXCEPT ![c].step = "parked"] /\ pending' = pending \union {c}
             /\ UNCHANGED early
    <3>1. \A e \in Callers : /\ call'[e].id = call[e].id /\ call'[e].conn = call[e].conn
                             /\ e = c => call'[e].step = "parked"
                             /\ e # c => call'[e] = call[e]
      BY <1>0, <2>4 DEF Mac!CallState
    <3>2. \A e \in Callers : Mac!Waits(e)' => Mac!Waits(e)
      BY <2>1, <3>1 DEF Mac!Waits, Mac!Running
    <3>3. MacParked'
      BY <1>a, <2>1, <2>4, <3>1 DEF MacParked
    <3> QED
      BY <2>1, <2>4, <3>1, <3>2, <3>3, MacStays
  <2>5. CASE isClosed /\ call' = [call EXCEPT ![c] = Mac!Return(@, "failed", Mac!NoFrame)]
             /\ UNCHANGED <<pending, early>>
    BY <1>0, <2>3, <2>5
  <2>6. CASE \E f \in {f \in early : f.id = call[c].id} :
               /\ call' = [call EXCEPT ![c] = Mac!Return(@, "ok", f)]
               /\ early' = early \ {f} /\ UNCHANGED pending
    <3>1. PICK f \in {f \in early : f.id = call[c].id} :
               /\ call' = [call EXCEPT ![c] = Mac!Return(@, "ok", f)]
               /\ early' = early \ {f} /\ UNCHANGED pending
      BY <2>6
    <3>2. f \in Mac!Frame
      BY <3>1 DEF MacInv, MacGenuine
    <3> QED
      BY <2>3, <3>1, <3>2
  <2> QED
    BY <1>3, <2>4, <2>5, <2>6 DEF Mac!Await
<1>5. ASSUME NEW k \in Mac!Conns, Mac!RouteFrame(k) PROVE MacLine'
  <2> DEFINE f == Head(down[k])
             to == {c \in pending : call[c].id = f.id}
  <2>1. /\ reader[k] = "reading" /\ down[k] # <<>> /\ down' = [down EXCEPT ![k] = Tail(@)]
        /\ call' = [c \in Callers |-> IF c \in to THEN Mac!Return(call[c], "ok", f) ELSE call[c]]
        /\ pending' = pending \ to /\ early' = IF to = {} THEN early \union {f} ELSE early
        /\ UNCHANGED <<fd, isClosed, reader, up, open>>
    BY <1>5 DEF Mac!RouteFrame, Mac!Take
  <2>2. f \in Mac!Frame /\ Ids(down[k]) = Ids(Tail(down[k])) \union {f.id}
    <3>1. down[k] \in Seq(MacGenuine) /\ down[k] # <<>>
      BY <1>0, <2>1
    <3>2. f \in MacGenuine
      BY <3>1
    <3>3. Ids(down[k]) = Ids(Tail(down[k])) \union {f.id}
      BY <3>1, IdsMove
    <3> QED
      BY <3>2, <3>3 DEF MacGenuine
  <2>3. \A c \in to : c \in pending /\ c \in Callers /\ call[c].id = f.id
    <3>1. pending \subseteq Callers
      BY <1>0
    <3> HIDE DEF f
    <3> QED
      BY <3>1
  <2>4. \A c \in pending : call[c].id = f.id => c \in to
    OBVIOUS
  <2> HIDE DEF to, f
  <2>5. k = fd
    BY <1>a, <2>1 DEF MacUse
  <2>6. Ids(down[k]) = Ids(down'[k]) \union {f.id} /\ up' = up
    BY <1>0, <2>1, <2>2
  <2>7. \A e \in Callers : /\ e \in to => call'[e].step \in {"timeout", "ok"}
                           /\ e \notin to => call'[e] = call[e]
    <3>1. ASSUME NEW e \in Callers, e \in to PROVE call'[e].step \in {"timeout", "ok"}
      <4>1. call[e] \in Mac!CallState /\ "ok" \in {"ok", "failed"}
        BY <1>0
      <4>2. Mac!Return(call[e], "ok", f).step \in {"timeout", "ok"}
        BY <2>2, <4>1, MacReturn
      <4> QED
        BY <2>1, <3>1, <4>2
    <3> QED
      BY <2>1, <3>1
  <2>8. \A e \in Callers : Mac!Waits(e)' => e \notin to /\ Mac!Waits(e) /\ call'[e] = call[e]
    BY <2>7 DEF Mac!Waits, Mac!Running
  <2>9. ReadersOK' /\ MacUse'
    <3>1. \A j \in Mac!Conns : j # k => down'[j] = down[j]
      BY <1>0, <2>1
    <3> QED
      BY <1>a, <2>1, <3>1 DEF MacUse, ReadersOK
  <2>10. MacParked'
    <3> SUFFICES ASSUME NEW e \in Callers, call'[e].step = "parked"
                 PROVE  e \in pending' /\ ~isClosed'
      BY DEF MacParked
    <3>1. e \notin to /\ call'[e] = call[e]
      BY <2>7
    <3> QED
      BY <1>a, <2>1, <3>1 DEF MacParked
  <2>11. MacApart'
    BY <1>a, <2>8, MacApartKept
  <2>12. MacHeld'
    <3> SUFFICES ASSUME NEW e \in Callers, Mac!Waits(e)'
                 PROVE  /\ call'[e].conn \in Mac!Conns /\ reader'[call'[e].conn] # "none"
                        /\ call'[e].conn = fd' => MacThere(e)'
      BY DEF MacHeld
    <3>1. e \notin to /\ Mac!Waits(e) /\ call'[e] = call[e]
      BY <2>8
    <3>2. /\ call[e].conn \in Mac!Conns /\ reader[call[e].conn] # "none"
          /\ call[e].conn = fd => MacThere(e)
      BY <1>a, <3>1 DEF MacHeld
    <3>3. ASSUME call[e].conn = fd PROVE MacThere(e)'
      <4>1. CASE call[e].id = f.id
        <5>1. e \notin pending
          BY <2>4, <3>1, <4>1
        <5>2. call[e].step = "written"
          BY <1>a, <3>1, <5>1 DEF MacParked, Mac!Waits, Mac!Running
        <5>3. to = {}
          <6> SUFFICES ASSUME NEW d \in to PROVE FALSE
            OBVIOUS
          <6>1. d \in Callers /\ call[d].id = f.id /\ Mac!Waits(d) /\ d # e
            BY <1>0, <2>3, <3>1 DEF Mac!Waits, Mac!Running
          <6> QED
            BY <1>a, <3>1, <4>1, <6>1 DEF MacApart
        <5> QED
          BY <2>1, <3>1, <4>1, <5>2, <5>3 DEF MacThere
      <4>2. CASE call[e].id # f.id
        <5>1. early \subseteq early'
          BY <2>1
        <5> QED
          BY <2>1, <2>5, <2>6, <3>1, <3>2, <3>3, <4>2, <5>1 DEF MacThere
      <4> QED
        BY <4>1, <4>2
    <3> QED
      BY <2>1, <3>1, <3>2, <3>3
  <2> QED
    BY <2>9, <2>10, <2>11, <2>12 DEF MacLine
<1>6. ASSUME NEW k \in Mac!Conns, Mac!FailOnEof(k) PROVE MacLine'
  <2>1. /\ reader[k] = "reading" /\ down[k] = <<>> /\ k \notin open
        /\ reader' = [reader EXCEPT ![k] = "done"]
        /\ UNCHANGED <<early, up, down, open>>
    BY <1>6 DEF Mac!FailOnEof
  <2>2. fd = k /\ ~isClosed
    BY <1>0, <1>a, <2>1 DEF MacUse
  <2>3. /\ isClosed' = TRUE /\ fd' = 0 /\ pending' = {}
        /\ call' = [c \in Callers |-> IF c \in pending
                      THEN Mac!Return(call[c], "failed", Mac!NoFrame) ELSE call[c]]
    BY <1>6, <2>2 DEF Mac!FailOnEof
  <2>4. \A e \in Callers : /\ e \in pending => call'[e].step \in {"timeout", "failed"}
                           /\ e \notin pending => call'[e] = call[e]
    <3>1. ASSUME NEW e \in Callers, e \in pending PROVE call'[e].step \in {"timeout", "failed"}
      <4>1. call[e] \in Mac!CallState /\ "failed" \in {"ok", "failed"}
        BY <1>0
      <4>2. Mac!Return(call[e], "failed", Mac!NoFrame).step \in {"timeout", "failed"}
        BY <1>0, <4>1, MacReturn
      <4> QED
        BY <2>3, <3>1, <4>2
    <3> QED
      BY <2>3, <3>1
  <2>5. \A e \in Callers : Mac!Waits(e)' => Mac!Waits(e) /\ call'[e] = call[e]
    BY <2>4 DEF Mac!Waits, Mac!Running
  <2>6. ReadersOK' /\ reader'[k] = "done" /\ \A j \in Mac!Conns : j # k => reader'[j] = reader[j]
    BY <1>a, <2>1 DEF ReadersOK
  <2>7. MacUse'
    <3>1. \A j \in Mac!Conns : reader'[j] # "reading"
      BY <1>a, <2>2, <2>6 DEF MacUse
    <3>2. \A j \in Mac!Conns : down'[j] = <<>> /\ j \notin open'
      BY <1>a, <2>1, <2>2 DEF MacUse
    <3> QED
      BY <2>3, <3>1, <3>2 DEF MacUse
  <2>8. MacParked'
    BY <1>a, <2>4 DEF MacParked
  <2>9. MacApart'
    BY <1>a, <2>5, MacApartKept
  <2>10. MacHeld'
    <3> SUFFICES ASSUME NEW e \in Callers, Mac!Waits(e)'
                 PROVE  call'[e].conn \in Mac!Conns /\ reader'[call'[e].conn] # "none"
      BY <1>0, <2>3 DEF MacHeld
    <3>1. /\ call'[e] = call[e] /\ call[e].conn \in Mac!Conns
          /\ reader[call[e].conn] # "none"
      BY <1>a, <2>5 DEF MacHeld
    <3> QED
      BY <2>6, <3>1
  <2> QED
    BY <2>6, <2>7, <2>8, <2>9, <2>10 DEF MacLine
<1>7. ASSUME NEW k \in Mac!Conns, Mac!Answer(k) PROVE MacLine'
  <2>1. /\ k \in open /\ up[k] # <<>> /\ up' = [up EXCEPT ![k] = Tail(@)]
        /\ down' = [down EXCEPT ![k] = Append(@, Head(up[k]))]
        /\ UNCHANGED <<fd, isClosed, call, pending, early, reader, open>>
    BY <1>7 DEF Mac!Answer, Mac!actor
  <2>2. \A e \in Callers : Mac!Waits(e)' <=> Mac!Waits(e)
    BY <2>1 DEF Mac!Waits
  <2>3. fd = k /\ reader[k] = "reading"
    BY <1>a, <2>1 DEF MacUse
  <2>4. Ids(down'[k]) \union Ids(up'[k]) = Ids(down[k]) \union Ids(up[k])
    <3> DEFINE g == Head(up[k])
    <3>1. up[k] \in Seq(MacGenuine) /\ up[k] # <<>> /\ g \in MacGenuine /\ down[k] \in Seq(MacGenuine)
      BY <1>0, <2>1
    <3>2. up'[k] = Tail(up[k]) /\ down'[k] = Append(down[k], g)
      BY <1>0, <2>1
    <3>3. Ids(up[k]) = Ids(Tail(up[k])) \union {g.id}
      BY <3>1, IdsMove
    <3> HIDE DEF g
    <3>4. Ids(Append(down[k], g)) = Ids(down[k]) \union {g.id}
      BY <3>1, IdsMove
    <3> QED
      BY <3>2, <3>3, <3>4
  <2>5. ReadersOK' /\ MacUse'
    <3>1. \A j \in Mac!Conns : j # k => down'[j] = down[j]
      BY <1>0, <2>1
    <3> QED
      BY <1>a, <2>1, <2>3, <3>1 DEF MacUse, ReadersOK
  <2>6. MacParked'
    BY <1>a, <2>1 DEF MacParked
  <2>7. MacApart'
    BY <1>a, <2>1, <2>2, MacApartKept
  <2>8. MacHeld'
    <3>1. \A e \in Callers : MacThere(e) => MacThere(e)'
      BY <2>1, <2>3, <2>4 DEF MacThere
    <3> QED
      BY <1>a, <2>1, <2>2, <3>1 DEF MacHeld
  <2> QED
    BY <2>5, <2>6, <2>7, <2>8 DEF MacLine
<1>8. ASSUME Mac!Exit \/ Mac!Restart PROVE MacLine'
  <2>1. /\ open' \subseteq open
        /\ UNCHANGED <<fd, isClosed, call, pending, early, reader, up, down>>
    BY <1>8 DEF Mac!Exit, Mac!Restart, Mac!actor
  <2>2. \A e \in Callers : Mac!Waits(e)' <=> Mac!Waits(e)
    BY <2>1 DEF Mac!Waits
  <2>3. MacParked'
    BY <1>a, <2>1 DEF MacParked
  <2> QED
    BY <2>1, <2>2, <2>3, MacStays
<1> QED
  BY <1>1, <1>2, <1>3, <1>4, <1>5, <1>6, <1>7, <1>8 DEF Mac!Next

(***************************************************************************)
(* The Windows client while the pipe is open and no line is damaged.       *)
(***************************************************************************)
Apart(s) == \A i, j \in DOMAIN s : s[i].id = s[j].id => i = j

\* The ids of the lines in the buffer and on the pipe.
Under == Ids(winDown) \union Ids(winUp) \union Ids(buffer)

\* No line is there twice, and somebody is registered for each of them, also when the
\* call that wrote it has thrown.
WinQueue ==
  /\ Apart(winDown) /\ Apart(winUp) /\ Apart(buffer)
  /\ Ids(winDown) \intersect Ids(winUp) = {}
  /\ (Ids(winDown) \union Ids(winUp)) \intersect Ids(buffer) = {}
  /\ Under \subseteq {p.id : p \in winPending}
  /\ \A p \in winPending : p.serial <= winCalls

WinApart ==
  \A c, e \in Callers : Win!Waits(c) /\ Win!Waits(e) /\ winCall[c].id = winCall[e].id => c = e

WinFlush ==
  /\ \A c \in Callers : winCall[c].step = "flushing" => flusher = c
  /\ flusher # None => flusher \in Callers /\ winCall[flusher].step = "flushing"

Entry(c) == [id |-> winCall[c].id, serial |-> winCall[c].serial, of |-> c]

\* A call without its answer is registered and, once written, its line is somewhere;
\* after its flush it is not in the buffer.
WinCallHeld(c) ==
  /\ winCall[c].step = "ready" => winCall[c].id \notin Under /\ winCall[c].answer = 0
  /\ Win!Waits(c) => winCall[c].serial # 0 /\ winCall[c].serial <= winCalls
  /\ Win!Waits(c) /\ winCall[c].answer = 0 => Entry(c) \in winPending
  /\ winCall[c].step \in {"written", "flushing", "sent"} /\ winCall[c].answer = 0 =>
       winCall[c].id \in Under
  /\ winCall[c].step \in {"flushing", "sent"} => winCall[c].id \notin Ids(buffer)
  /\ \A p \in winPending :
       Win!Waits(c) /\ p.of = c /\ p.serial = winCall[c].serial => p.id = winCall[c].id

WinHeld == \A c \in Callers : WinCallHeld(c)

WinWhole == winReader = "reading" /\ WinQueue /\ WinApart /\ WinFlush /\ WinHeld
WinLine == winOpen \in BOOLEAN /\ overlapped \in BOOLEAN /\ (winOpen /\ ~overlapped => WinWhole)

\* Ids that are apart stay apart when a line is added, taken or moved on.
LEMMA ApartMove ==
  ASSUME NEW S, NEW s \in Seq(S), Apart(s)
  PROVE  /\ \A x \in S : x.id \notin Ids(s) => Apart(Append(s, x))
         /\ s # <<>> => Apart(Tail(s)) /\ Head(s).id \notin Ids(Tail(s))
<1>1. ASSUME NEW x \in S, x.id \notin Ids(s) PROVE Apart(Append(s, x))
  <2>1. /\ DOMAIN Append(s, x) = 1 .. Len(s) + 1 /\ DOMAIN s = 1 .. Len(s) /\ Len(s) \in Nat
        /\ \A i \in 1 .. Len(s) : Append(s, x)[i] = s[i]
        /\ Append(s, x)[Len(s) + 1] = x
    OBVIOUS
  <2>2. \A i \in 1 .. Len(s) : s[i].id # x.id
    BY <1>1, <2>1 DEF Ids, Menu!ToSet
  <2> QED
    BY <2>1, <2>2 DEF Apart
<1>2. ASSUME s # <<>> PROVE Apart(Tail(s)) /\ Head(s).id \notin Ids(Tail(s))
  <2>1. /\ DOMAIN Tail(s) = 1 .. Len(s) - 1 /\ DOMAIN s = 1 .. Len(s)
        /\ Len(s) \in Nat \ {0} /\ Head(s) = s[1]
        /\ \A i \in 1 .. Len(s) - 1 : Tail(s)[i] = s[i + 1]
    BY <1>2
  <2>2. Apart(Tail(s))
    BY <2>1 DEF Apart
  <2>3. ASSUME NEW i \in 1 .. Len(s) - 1, Tail(s)[i].id = Head(s).id PROVE FALSE
    <3>1. 1 \in DOMAIN s /\ i + 1 \in DOMAIN s /\ s[1].id = s[i + 1].id
      BY <2>1, <2>3
    <3> QED
      BY <3>1 DEF Apart
  <2> QED
    BY <2>1, <2>2, <2>3 DEF Ids, Menu!ToSet
<1> QED
  BY <1>1, <1>2

\* And when one queue is put behind another.
LEMMA ApartJoin ==
  ASSUME NEW S, NEW s \in Seq(S), NEW t \in Seq(S)
  PROVE  /\ Ids(s \o t) = Ids(s) \union Ids(t)
         /\ Apart(s) /\ Apart(t) /\ Ids(s) \intersect Ids(t) = {} => Apart(s \o t)
<1>1. /\ DOMAIN (s \o t) = 1 .. Len(s) + Len(t) /\ Len(s) \in Nat /\ Len(t) \in Nat
      /\ DOMAIN s = 1 .. Len(s) /\ DOMAIN t = 1 .. Len(t)
      /\ \A i \in 1 .. Len(s) + Len(t) : (s \o t)[i] = IF i <= Len(s) THEN s[i] ELSE t[i - Len(s)]
  BY ConcatProperties
<1>2. PICK j : j = s \o t
  OBVIOUS
<1>3. \A i \in DOMAIN j : \/ i \in DOMAIN s /\ j[i] = s[i]
                          \/ i - Len(s) \in DOMAIN t /\ j[i] = t[i - Len(s)]
  BY <1>1, <1>2
<1>4. /\ \A i \in DOMAIN s : i \in DOMAIN j /\ j[i] = s[i]
      /\ \A i \in DOMAIN t : i + Len(s) \in DOMAIN j /\ j[i + Len(s)] = t[i]
  BY <1>1, <1>2
<1>5. Menu!ToSet(j) = Menu!ToSet(s) \union Menu!ToSet(t)
  BY <1>3, <1>4 DEF Menu!ToSet
<1>6. Ids(j) = Ids(s) \union Ids(t)
  BY <1>5 DEF Ids
<1>7. ASSUME Apart(s), Apart(t), Ids(s) \intersect Ids(t) = {} PROVE Apart(j)
  <2> SUFFICES ASSUME NEW a \in DOMAIN j, NEW b \in DOMAIN j, j[a].id = j[b].id PROVE a = b
    BY DEF Apart
  <2>1. \A x \in DOMAIN s, y \in DOMAIN t : s[x].id # t[y].id
    BY <1>7 DEF Ids, Menu!ToSet
  <2>2. a \in Nat /\ b \in Nat /\ Len(s) \in Nat
    BY <1>1, <1>2
  <2> QED
    BY <1>3, <1>7, <2>1, <2>2 DEF Apart
<1> QED
  BY <1>2, <1>6, <1>7

\* A call that takes a step of its own, the others as they were.
LEMMA WinOne ==
  ASSUME WinInv, NEW c \in Callers, NEW s \in {"written", "flushing", "sent", "ok", "threw"},
         Win!Goto(c, s)
  PROVE  /\ \A e \in Callers : /\ winCall'[e].id = winCall[e].id
                               /\ winCall'[e].serial = winCall[e].serial
                               /\ winCall'[e].answer = winCall[e].answer
                               /\ Entry(e)' = Entry(e)
                               /\ e = c => winCall'[e].step = s
                               /\ e # c => winCall'[e].step = winCall[e].step
         /\ s \in {"ok", "threw"} => ~Win!Waits(c)'
         /\ \A e \in Callers : e # c => (Win!Waits(e)' <=> Win!Waits(e))
<1>1. winCall \in [Callers -> WinCall] /\ winCall' = [winCall EXCEPT ![c].step = s]
  BY DEF WinInv, Win!Goto
<1>2. \A e \in Callers : /\ winCall'[e].id = winCall[e].id
                         /\ winCall'[e].serial = winCall[e].serial
                         /\ winCall'[e].answer = winCall[e].answer
                         /\ e = c => winCall'[e].step = s
                         /\ e # c => winCall'[e].step = winCall[e].step
  BY <1>1 DEF WinCall
<1>3. \A e \in Callers : Entry(e)' = Entry(e)
  BY <1>2 DEF Entry
<1> QED
  BY <1>2, <1>3 DEF Win!Waits, Win!Running

\* A call that ends, or whose flush ends, changes nothing for the others.
LEMMA WinPasses ==
  ASSUME WinInv, WinWhole, NEW c \in Callers, NEW s \in {"sent", "ok", "threw"}, Win!Goto(c, s),
         UNCHANGED <<winPending, buffer, winUp, winDown, winCalls, winReader>>,
         \/ s # "sent" /\ winCall[c].step # "flushing" /\ flusher' = flusher
         \/ s = "sent" /\ flusher = c /\ flusher' = None
  PROVE  WinWhole'
<1>1. winReader = "reading" /\ WinQueue /\ WinApart /\ WinFlush /\ WinHeld
  BY DEF WinWhole
<1>2. /\ \A e \in Callers : /\ winCall'[e].id = winCall[e].id
                            /\ winCall'[e].serial = winCall[e].serial
                            /\ winCall'[e].answer = winCall[e].answer
                            /\ Entry(e)' = Entry(e)
                            /\ e = c => winCall'[e].step = s
                            /\ e # c => winCall'[e].step = winCall[e].step
      /\ s \in {"ok", "threw"} => ~Win!Waits(c)'
      /\ \A e \in Callers : e # c => (Win!Waits(e)' <=> Win!Waits(e))
  BY WinOne
<1>3. s = "sent" => winCall[c].step = "flushing"
  BY <1>1, CallersNamed DEF WinFlush
<1>4. \A e \in Callers : Win!Waits(e)' => Win!Waits(e)
  <2>1. s = "sent" => Win!Waits(c)
    BY <1>3 DEF Win!Waits, Win!Running
  <2> QED
    BY <1>2, <2>1
<1>5. Under' = Under /\ Ids(buffer)' = Ids(buffer)
  BY DEF Under
<1>6. WinQueue'
  BY <1>1, <1>5 DEF WinQueue
<1>7. WinApart'
  BY <1>1, <1>2, <1>4 DEF WinApart
<1>8. WinFlush'
  BY <1>1, <1>2, CallersNamed DEF WinFlush
<1>9. ASSUME NEW e \in Callers PROVE WinCallHeld(e)'
  <2>1. WinCallHeld(e)
    BY <1>1 DEF WinHeld
  <2>2. CASE e = c
    <3>1. winCall'[e].step = s
      BY <1>2, <2>2
    <3>2. CASE s = "sent"
      BY <1>2, <1>3, <1>4, <1>5, <2>1, <2>2, <3>1, <3>2 DEF WinCallHeld
    <3>3. CASE s # "sent"
      BY <1>2, <2>2, <3>1, <3>3 DEF WinCallHeld
    <3> QED
      BY <3>2, <3>3
  <2>3. CASE e # c
    BY <1>2, <1>5, <2>1, <2>3 DEF WinCallHeld
  <2> QED
    BY <2>2, <2>3
<1> QED
  BY <1>1, <1>6, <1>7, <1>8, <1>9 DEF WinWhole, WinHeld

\* Every step of the Windows client keeps this.
LEMMA WinLineStep == WinInv /\ WinLine /\ Win!Next => WinLine'
<1> SUFFICES ASSUME WinInv, WinLine, Win!Next PROVE WinLine'
  OBVIOUS
<1>0. /\ winCall \in [Callers -> WinCall] /\ winNextId \in Nat /\ winCalls \in Nat
      /\ winPending \subseteq [id : Nat \ {0}, serial : Nat, of : Callers]
      /\ buffer \in Seq(WinGenuine) /\ winUp \in Seq(WinGenuine) /\ winDown \in Seq(WinGenuine)
      /\ \A c \in Callers : Win!Frame(c) \in WinGenuine
      /\ \A c \in Callers : winCall[c].id \in Nat /\ winCall[c].serial \in Nat
      /\ None \notin Callers
  BY CallersNamed DEF WinInv, WinCall
<1>1. /\ winOpen' \in BOOLEAN /\ overlapped' \in BOOLEAN
      /\ winOpen' /\ ~overlapped' => winOpen /\ ~overlapped
  <2>1. ASSUME NEW c \in Callers, Win!Begin(c) \/ Win!Step(c)
        PROVE  UNCHANGED <<winOpen, overlapped>>
    BY <2>1 DEF Win!Step, Win!Begin, Win!WriteLine, Win!StartFlush, Win!EndFlush, Win!Return, Win!pipe
  <2>2. ASSUME NEW c \in Callers, NEW d \in Callers, Win!Overlap(c, d)
        PROVE  winOpen' = winOpen /\ overlapped' = TRUE
    BY <2>2 DEF Win!Overlap, Win!pipe
  <2>3. ASSUME Win!RouteFrame \/ Win!Eof \/ Win!Answer PROVE UNCHANGED <<winOpen, overlapped>>
    BY <2>3 DEF Win!RouteFrame, Win!Route, Win!Eof, Win!Answer
  <2>4. ASSUME Win!Exit PROVE winOpen' = FALSE /\ UNCHANGED overlapped
    BY <2>4 DEF Win!Exit
  <2>5. winOpen \in BOOLEAN /\ overlapped \in BOOLEAN
    BY DEF WinLine
  <2>6. \/ winOpen' = winOpen /\ overlapped' = overlapped
        \/ winOpen' = winOpen /\ overlapped' = TRUE
        \/ winOpen' = FALSE /\ overlapped' = overlapped
    BY <2>1, <2>2, <2>3, <2>4 DEF Win!Next
  <2>7. CASE winOpen' = winOpen /\ overlapped' = overlapped
    BY <2>5, <2>7
  <2>8. CASE winOpen' = winOpen /\ overlapped' = TRUE
    BY <2>5, <2>8
  <2>9. CASE winOpen' = FALSE /\ overlapped' = overlapped
    BY <2>5, <2>9
  <2> QED
    BY <2>6, <2>7, <2>8, <2>9
<1> SUFFICES ASSUME winOpen', ~overlapped', winOpen, ~overlapped PROVE WinWhole'
  BY <1>1 DEF WinLine
<1>a. WinWhole
  BY DEF WinLine
<1>2. winReader = "reading" /\ WinQueue /\ WinApart /\ WinFlush /\ WinHeld
  BY <1>a DEF WinWhole
<1>3. ASSUME NEW i \in Under PROVE i \in Nat /\ i <= winNextId
  <2>1. \A s \in Seq(WinGenuine) : Menu!ToSet(s) \subseteq WinGenuine
    BY DEF Menu!ToSet
  <2>2. \A f \in WinGenuine : f.id \in Nat /\ f.id <= winNextId
    BY DEF WinGenuine
  <2> QED
    BY <1>0, <1>3, <2>1, <2>2 DEF Under, Ids
<1>4. \A c \in Callers : winCall[c].id <= winNextId
  BY <1>0 DEF Win!Frame, WinGenuine
<1>5. ASSUME NEW c \in Callers, Win!Begin(c) PROVE WinWhole'
  <2> DEFINE id == winNextId + 1
             serial == winCalls + 1
             begun == [Win!Idle EXCEPT !.step = "ready", !.id = id, !.serial = serial]
  <2>1. /\ ~Win!Waits(c) /\ winCalls' = serial /\ winCall' = [winCall EXCEPT ![c] = begun]
        /\ winPending' = {p \in winPending : p.id # id}
                           \union {[id |-> id, serial |-> serial, of |-> c]}
        /\ UNCHANGED <<buffer, winUp, winDown, flusher, winReader>>
    BY <1>5 DEF Win!Begin, Win!Registered, Win!writer, Win!pipe, Win!Waits
  <2>2. begun.step = "ready" /\ begun.id = id /\ begun.serial = serial /\ begun.answer = 0
    BY DEF Win!Idle
  <2>3. id \in Nat /\ serial \in Nat /\ winNextId < id /\ winCalls < serial /\ serial # 0
    BY <1>0
  <2> HIDE DEF begun
  <2>4. \A e \in Callers : winCall'[e] = IF e = c THEN begun ELSE winCall[e]
    BY <1>0, <2>1
  <2>5. PICK new : new = [id |-> id, serial |-> serial, of |-> c]
    OBVIOUS
  <2>6. new.id = id /\ new.serial = serial /\ new.of = c
    BY <2>5
  <2>7. winPending' = {p \in winPending : p.id # id} \union {new}
    BY <2>1, <2>5
  <2>8. Under' = Under /\ Ids(buffer)' = Ids(buffer)
    BY <2>1 DEF Under
  <2>9. id \notin Under /\ \A e \in Callers : winCall[e].id # id
    BY <1>0, <1>3, <1>4, <2>3
  <2>10. Entry(c)' = new /\ \A e \in Callers : e # c => Entry(e)' = Entry(e)
    BY <2>2, <2>4, <2>5 DEF Entry
  <2>11. /\ Win!Waits(c)' /\ \A e \in Callers : e # c => (Win!Waits(e)' <=> Win!Waits(e))
    BY <2>2, <2>4 DEF Win!Waits, Win!Running
  <2> HIDE DEF id, serial
  <2>12. WinQueue'
    <3>1. Under' \subseteq {p.id : p \in winPending'}
      BY <1>2, <2>7, <2>8, <2>9 DEF WinQueue
    <3>2. \A p \in winPending' : p.serial <= winCalls'
      BY <1>0, <1>2, <2>1, <2>3, <2>6, <2>7 DEF WinQueue
    <3> QED
      BY <1>2, <2>1, <3>1, <3>2 DEF WinQueue
  <2>13. WinApart'
    BY <1>2, <2>2, <2>4, <2>9, <2>11 DEF WinApart
  <2>14. WinFlush'
    <3>1. flusher # None => flusher # c
      BY <1>2, <2>1 DEF WinFlush, Win!Waits, Win!Running
    <3> QED
      BY <1>2, <2>1, <2>2, <2>4, <3>1 DEF WinFlush
  <2>15. ASSUME NEW e \in Callers PROVE WinCallHeld(e)'
    <3>1. CASE e = c
      <4>1. winCall'[e] = begun /\ Entry(e)' = new /\ new \in winPending'
        BY <2>4, <2>7, <2>10, <3>1
      <4>2. \A p \in winPending' : p.of = e /\ p.serial = serial => p.id = id
        BY <1>0, <1>2, <2>3, <2>6, <2>7 DEF WinQueue
      <4> QED
        BY <2>1, <2>2, <2>3, <2>8, <2>9, <4>1, <4>2 DEF WinCallHeld
    <3>2. CASE e # c
      <4>1. WinCallHeld(e) /\ winCall'[e] = winCall[e] /\ Entry(e)' = Entry(e)
        BY <1>2, <2>4, <2>10, <3>2 DEF WinHeld
      <4>2. Entry(e) \in winPending => Entry(e) \in winPending'
        <5>1. Entry(e).id = winCall[e].id
          BY DEF Entry
        <5> QED
          BY <2>7, <2>9, <5>1
      <4>3. \A p \in winPending' : p.of = e => p \in winPending
        BY <2>6, <2>7, <3>2
      <4>4. Win!Waits(e)' <=> Win!Waits(e)
        BY <2>11, <3>2
      <4>5. Win!Waits(e) => winCall[e].serial <= winCalls'
        BY <1>0, <2>1, <2>3, <4>1 DEF WinCallHeld
      <4> QED
        BY <2>8, <4>1, <4>2, <4>3, <4>4, <4>5 DEF WinCallHeld
    <3> QED
      BY <3>1, <3>2
  <2> QED
    BY <1>2, <2>1, <2>12, <2>13, <2>14, <2>15 DEF WinWhole, WinHeld
<1>6. ASSUME NEW c \in Callers, Win!WriteLine(c) PROVE WinWhole'
  <2>1. /\ winCall[c].step = "ready" /\ Win!Waits(c)
        /\ UNCHANGED <<winPending, winUp, winDown, winCalls, flusher, winReader>>
    BY <1>6 DEF Win!WriteLine, Win!pipe, Win!Waits, Win!Running
  <2>2. WinCallHeld(c)
    BY <1>2 DEF WinHeld
  <2>3. CASE flusher = None /\ Win!Goto(c, "written") /\ buffer' = Append(buffer, Win!Frame(c))
    <3>1. /\ \A e \in Callers : /\ winCall'[e].id = winCall[e].id
                                /\ winCall'[e].serial = winCall[e].serial
                                /\ winCall'[e].answer = winCall[e].answer
                                /\ Entry(e)' = Entry(e)
                                /\ e = c => winCall'[e].step = "written"
                                /\ e # c => winCall'[e].step = winCall[e].step
          /\ \A e \in Callers : e # c => (Win!Waits(e)' <=> Win!Waits(e))
      BY <2>3, WinOne
    <3>2. Win!Frame(c) \in WinGenuine /\ Win!Frame(c).id = winCall[c].id
      BY <1>0 DEF Win!Frame
    <3>3. winCall[c].id \notin Under /\ winCall[c].answer = 0 /\ Entry(c) \in winPending
      BY <2>1, <2>2 DEF WinCallHeld
    <3>4. Ids(buffer') = Ids(buffer) \union {winCall[c].id}
      BY <1>0, <2>3, <3>2, IdsMove
    <3>5. Apart(buffer')
      BY <1>0, <1>2, <2>3, <3>2, <3>3, ApartMove DEF WinQueue, Under
    <3>6. Under' = Under \union {winCall[c].id}
      BY <2>1, <3>4 DEF Under
    <3>7. Entry(c).id = winCall[c].id
      BY DEF Entry
    <3>8. WinQueue'
      <4>1. Under' \subseteq {p.id : p \in winPending'}
        BY <1>2, <2>1, <3>3, <3>6, <3>7 DEF WinQueue
      <4>2. (Ids(winDown) \union Ids(winUp)) \intersect Ids(buffer') = {}
        BY <1>2, <3>3, <3>4 DEF WinQueue, Under
      <4> QED
        BY <1>2, <2>1, <3>5, <4>1, <4>2 DEF WinQueue
    <3>9. Win!Waits(c)' /\ \A e \in Callers : Win!Waits(e)' <=> Win!Waits(e)
      BY <2>1, <3>1 DEF Win!Waits, Win!Running
    <3>10. WinApart'
      BY <1>2, <3>1, <3>9 DEF WinApart
    <3>11. WinFlush'
      BY <1>2, <2>1, <2>3, <3>1 DEF WinFlush
    <3>12. ASSUME NEW e \in Callers PROVE WinCallHeld(e)'
      <4>1. WinCallHeld(e)
        BY <1>2 DEF WinHeld
      <4>2. CASE e = c
        BY <2>1, <3>1, <3>3, <3>6, <3>9, <4>1, <4>2 DEF WinCallHeld
      <4>3. CASE e # c
        <5>1. Win!Waits(e) => winCall[e].id # winCall[c].id
          BY <1>2, <2>1, <4>3 DEF WinApart
        <5>2. winCall[e].step \in {"ready", "written", "flushing", "sent"} => Win!Waits(e)
          BY DEF Win!Waits, Win!Running
        <5> QED
          BY <2>1, <3>1, <3>4, <3>6, <3>9, <4>1, <4>3, <5>1, <5>2 DEF WinCallHeld
      <4> QED
        BY <4>2, <4>3
    <3> QED
      BY <1>2, <2>1, <3>8, <3>10, <3>11, <3>12 DEF WinWhole, WinHeld
  <2>4. CASE flusher # None /\ Win!Goto(c, "threw") /\ UNCHANGED buffer
    BY <1>a, <2>1, <2>4, WinPasses
  <2> QED
    BY <1>6, <2>3, <2>4 DEF Win!WriteLine
<1>7. ASSUME NEW c \in Callers, Win!StartFlush(c) PROVE WinWhole'
  <2>1. /\ winCall[c].step = "written" /\ Win!Waits(c)
        /\ UNCHANGED <<winPending, winDown, winCalls, winReader>>
    BY <1>7 DEF Win!StartFlush, Win!Waits, Win!Running
  <2>2. CASE flusher # None /\ Win!Goto(c, "threw") /\ UNCHANGED <<flusher, buffer, winUp>>
    BY <1>a, <2>1, <2>2, WinPasses
  <2>3. CASE /\ flusher = None /\ flusher' = c /\ winUp' = winUp \o buffer /\ buffer' = <<>>
             /\ Win!Goto(c, "flushing")
    <3>1. /\ \A e \in Callers : /\ winCall'[e].id = winCall[e].id
                                /\ winCall'[e].serial = winCall[e].serial
                                /\ winCall'[e].answer = winCall[e].answer
                                /\ Entry(e)' = Entry(e)
                                /\ e = c => winCall'[e].step = "flushing"
                                /\ e # c => winCall'[e].step = winCall[e].step
          /\ \A e \in Callers : e # c => (Win!Waits(e)' <=> Win!Waits(e))
      BY <2>3, WinOne
    <3>2. Ids(winUp') = Ids(winUp) \union Ids(buffer) /\ Apart(winUp')
      BY <1>0, <1>2, <2>3, ApartJoin DEF WinQueue
    <3>3. Ids(buffer') = {} /\ Apart(buffer')
      BY <2>3 DEF Ids, Menu!ToSet, Apart
    <3>4. Under' = Under
      BY <2>1, <3>2, <3>3 DEF Under
    <3>5. WinQueue'
      <4>1. Ids(winDown) \intersect Ids(winUp') = {}
        BY <1>2, <3>2 DEF WinQueue
      <4> QED
        BY <1>2, <2>1, <3>2, <3>3, <3>4, <4>1 DEF WinQueue
    <3>6. \A e \in Callers : Win!Waits(e)' <=> Win!Waits(e)
      BY <2>1, <3>1 DEF Win!Waits, Win!Running
    <3>7. WinApart'
      BY <1>2, <3>1, <3>6 DEF WinApart
    <3>8. WinFlush'
      BY <1>0, <1>2, <2>3, <3>1 DEF WinFlush
    <3>9. ASSUME NEW e \in Callers PROVE WinCallHeld(e)'
      <4>1. WinCallHeld(e)
        BY <1>2 DEF WinHeld
      <4>2. CASE e = c
        BY <2>1, <3>1, <3>3, <3>4, <3>6, <4>1, <4>2 DEF WinCallHeld
      <4>3. CASE e # c
        BY <2>1, <3>1, <3>3, <3>4, <3>6, <4>1, <4>3 DEF WinCallHeld
      <4> QED
        BY <4>2, <4>3
    <3> QED
      BY <1>2, <2>1, <3>5, <3>7, <3>8, <3>9 DEF WinWhole, WinHeld
  <2> QED
    BY <1>7, <2>2, <2>3 DEF Win!StartFlush, Win!writer
<1>8. ASSUME NEW c \in Callers, Win!EndFlush(c) PROVE WinWhole'
  <2>1. /\ flusher = c /\ flusher' = None /\ Win!Goto(c, "sent")
        /\ UNCHANGED <<winPending, buffer, winUp, winDown, winCalls, winReader>>
    BY <1>8 DEF Win!EndFlush, Win!pipe
  <2> QED
    BY <1>a, <2>1, WinPasses
<1>9. ASSUME NEW c \in Callers, Win!Return(c) PROVE WinWhole'
  <2>1. /\ winCall[c].step = "sent" /\ Win!Goto(c, "ok")
        /\ UNCHANGED <<winPending, buffer, winUp, winDown, winCalls, winReader, flusher>>
    BY <1>9 DEF Win!Return, Win!pipe, Win!writer
  <2> QED
    BY <1>a, <2>1, WinPasses
<1>10. ASSUME Win!RouteFrame PROVE WinWhole'
  <2> DEFINE f == Head(winDown)
             hits == {p \in winPending : p.id = f.id}
             Hit(e) == \E p \in hits : p.of = e /\ p.serial = winCall[e].serial
  <2>1. /\ winDown # <<>> /\ winDown' = Tail(winDown) /\ winPending' = winPending \ hits
        /\ winCall' = [e \in Callers |-> IF Hit(e) THEN [winCall[e] EXCEPT !.answer = f.serial]
                                         ELSE winCall[e]]
        /\ winReader' = IF hits = {} THEN "faulted" ELSE winReader
        /\ UNCHANGED <<buffer, winUp, flusher, winCalls>>
    BY <1>10 DEF Win!RouteFrame, Win!Route, Win!writer
  <2>2. f \in WinGenuine
    BY <1>0, <2>1
  <2>3. \A p \in hits : p.id = f.id /\ p.serial = f.serial
    BY <2>2 DEF WinGenuine
  <2> HIDE DEF f
  <2>4. /\ Ids(winDown) = Ids(winDown') \union {f.id} /\ f.id \notin Ids(winDown')
        /\ Apart(winDown')
    BY <1>0, <1>2, <2>1, IdsMove, ApartMove DEF WinQueue, f
  <2>5. Under' = Under \ {f.id} /\ f.id \in Under
    BY <1>2, <2>1, <2>4 DEF WinQueue, Under
  <2>6. winReader' = "reading"
    <3>1. hits # {}
      BY <1>2, <2>5 DEF WinQueue
    <3> QED
      BY <1>2, <2>1, <3>1
  <2>7. WinQueue'
    <3>1. Under' \subseteq {p.id : p \in winPending'}
      <4> SUFFICES ASSUME NEW i \in Under' PROVE \E p \in winPending' : p.id = i
        OBVIOUS
      <4>1. PICK p \in winPending : p.id = i
        BY <1>2, <2>5 DEF WinQueue
      <4> QED
        BY <2>1, <2>5, <4>1
    <3>2. \A p \in winPending' : p.serial <= winCalls'
      BY <1>2, <2>1 DEF WinQueue
    <3>3. /\ Ids(winDown') \intersect Ids(winUp) = {}
          /\ (Ids(winDown') \union Ids(winUp)) \intersect Ids(buffer) = {}
      BY <1>2, <2>4 DEF WinQueue
    <3> QED
      BY <1>2, <2>1, <2>4, <3>1, <3>2, <3>3 DEF WinQueue
  <2>8. ASSUME NEW e \in Callers
        PROVE  /\ winCall'[e].step = winCall[e].step /\ winCall'[e].id = winCall[e].id
               /\ winCall'[e].serial = winCall[e].serial
               /\ Hit(e) => winCall'[e].answer = f.serial
               /\ ~Hit(e) => winCall'[e].answer = winCall[e].answer
    <3>1. winCall[e] \in WinCall
      BY <1>0
    <3>2. CASE Hit(e)
      <4>1. winCall'[e] = [winCall[e] EXCEPT !.answer = f.serial]
        BY <2>1, <3>2
      <4> QED
        BY <3>1, <3>2, <4>1 DEF WinCall
    <3>3. CASE ~Hit(e)
      BY <2>1, <3>3
    <3> QED
      BY <3>2, <3>3
  <2>9. \A e \in Callers : Win!Waits(e)' <=> Win!Waits(e)
    BY <2>8 DEF Win!Waits
  <2>10. \A e \in Callers : Entry(e)' = Entry(e)
    BY <2>8 DEF Entry
  <2>11. WinApart'
    BY <1>2, <2>8, <2>9 DEF WinApart
  <2>12. WinFlush'
    BY <1>2, <2>1, <2>8 DEF WinFlush
  <2>13. ASSUME NEW e \in Callers PROVE WinCallHeld(e)'
    <3>1. WinCallHeld(e)
      BY <1>2 DEF WinHeld
    <3>2. Win!Waits(e) /\ Hit(e) => winCall[e].id = f.id /\ f.serial = winCall[e].serial
      BY <2>3, <3>1 DEF WinCallHeld
    <3>3. Win!Waits(e) /\ ~Hit(e) /\ winCall[e].answer = 0 => winCall[e].id # f.id
      <4>1. Entry(e).id = winCall[e].id /\ Entry(e).serial = winCall[e].serial /\ Entry(e).of = e
        BY DEF Entry
      <4> QED
        BY <3>1, <4>1 DEF WinCallHeld
    <3>4. winCall[e].step \in {"ready", "written", "flushing", "sent"} => Win!Waits(e)
      BY DEF Win!Waits, Win!Running
    <3>5. Win!Waits(e) /\ winCall'[e].answer = 0 => ~Hit(e) /\ winCall[e].answer = 0
      BY <2>8, <3>1, <3>2 DEF WinCallHeld
    <3>6. winCall[e].id # f.id /\ Entry(e) \in winPending => Entry(e) \in winPending'
      <4>1. Entry(e).id = winCall[e].id
        BY DEF Entry
      <4> QED
        BY <2>1, <2>3, <4>1
    <3>7. winCall[e].step = "ready" => ~Hit(e)
      BY <2>5, <3>1, <3>2, <3>4 DEF WinCallHeld
    <3> HIDE DEF Hit, hits
    <3>8. winPending' \subseteq winPending
      BY <2>1
    <3> QED
      BY <2>1, <2>5, <2>8, <2>9, <2>10, <3>1, <3>3, <3>4, <3>5, <3>6, <3>7, <3>8 DEF WinCallHeld
  <2> QED
    BY <2>6, <2>7, <2>11, <2>12, <2>13 DEF WinWhole, WinHeld
<1>11. ASSUME Win!Answer PROVE WinWhole'
  <2> DEFINE f == Head(winUp)
  <2>1. /\ winUp # <<>> /\ winUp' = Tail(winUp) /\ winDown' = Append(winDown, f)
        /\ UNCHANGED <<buffer, winCall, winPending, flusher, winReader, winCalls>>
    BY <1>11 DEF Win!Answer, Win!writer
  <2>2. f \in WinGenuine
    BY <1>0, <2>1
  <2>3. /\ Ids(winUp) = Ids(winUp') \union {f.id} /\ f.id \notin Ids(winUp')
        /\ Apart(winUp')
    BY <1>0, <1>2, <2>1, IdsMove, ApartMove DEF WinQueue
  <2> HIDE DEF f
  <2>4. Ids(winDown') = Ids(winDown) \union {f.id}
    BY <1>0, <2>1, <2>2, IdsMove
  <2>5. Apart(winDown')
    <3>1. f.id \notin Ids(winDown)
      BY <1>2, <2>3 DEF WinQueue
    <3> QED
      BY <1>0, <1>2, <2>1, <2>2, <3>1, ApartMove DEF WinQueue
  <2>6. Under' = Under
    BY <2>1, <2>3, <2>4 DEF Under
  <2>7. WinQueue'
    <3>1. /\ Ids(winDown') \intersect Ids(winUp') = {}
          /\ (Ids(winDown') \union Ids(winUp')) \intersect Ids(buffer) = {}
      BY <1>2, <2>3, <2>4 DEF WinQueue
    <3> QED
      BY <1>2, <2>1, <2>3, <2>5, <2>6, <3>1 DEF WinQueue
  <2>8. \A e \in Callers : (Win!Waits(e)' <=> Win!Waits(e)) /\ Entry(e)' = Entry(e)
    BY <2>1 DEF Win!Waits, Entry
  <2>9. WinApart' /\ WinFlush'
    BY <1>2, <2>1, <2>8 DEF WinApart, WinFlush
  <2>10. WinHeld'
    BY <1>2, <2>1, <2>6, <2>8 DEF WinHeld, WinCallHeld
  <2> QED
    BY <1>2, <2>1, <2>7, <2>9, <2>10 DEF WinWhole
<1>12. ~Win!Eof /\ ~Win!Exit /\ \A c, d \in Callers : ~Win!Overlap(c, d)
  BY DEF Win!Eof, Win!Exit, Win!Overlap
<1> QED
  BY <1>5, <1>6, <1>7, <1>8, <1>9, <1>10, <1>11, <1>12 DEF Win!Next, Win!Step

(***************************************************************************)
(* Both together.                                                          *)
(***************************************************************************)
LinesOK == MacLine /\ WinLine

LEMMA InitLines == Init => LinesOK
<1> SUFFICES ASSUME Init PROVE LinesOK
  OBVIOUS
<1>1. MacLine
  <2>2. /\ fd = 0 /\ isClosed = FALSE /\ call = [c \in Callers |-> Mac!Idle]
        /\ reader = [k \in Mac!Conns |-> "none"] /\ down = [k \in Mac!Conns |-> <<>>]
        /\ open = {}
    BY DEF Init, Mac!Init
  <2>3. \A c \in Callers : call[c].step = "idle" /\ ~Mac!Waits(c)
    <3>1. Mac!Idle.step = "idle"
      BY DEF Mac!Idle
    <3>2. \A c \in Callers : call[c].step = "idle"
      BY <2>2, <3>1
    <3> QED
      BY <3>2 DEF Mac!Waits, Mac!Running
  <2>4. MacParked /\ MacApart /\ MacHeld
    BY <2>3 DEF MacParked, MacApart, MacHeld
  <2>5. MacUse /\ ReadersOK
    BY <2>2 DEF MacUse, ReadersOK
  <2> QED
    BY <2>4, <2>5 DEF MacLine
<1>2. WinLine
  <2>1. /\ winCall = [c \in Callers |-> Win!Idle] /\ winPending = {} /\ buffer = <<>>
        /\ flusher = None /\ winReader = "reading" /\ winOpen = TRUE /\ winUp = <<>>
        /\ winDown = <<>> /\ overlapped = FALSE
    BY DEF Init, Win!Init
  <2>2. \A c \in Callers : winCall[c].step = "idle" /\ ~Win!Waits(c)
    <3>1. Win!Idle.step = "idle"
      BY DEF Win!Idle
    <3>2. \A c \in Callers : winCall[c].step = "idle"
      BY <2>1, <3>1
    <3> QED
      BY <3>2 DEF Win!Waits, Win!Running
  <2>3. Apart(<<>>) /\ Ids(<<>>) = {}
    BY DEF Apart, Ids, Menu!ToSet
  <2>4. WinQueue
    BY <2>1, <2>3 DEF WinQueue, Under
  <2>5. WinApart /\ WinFlush /\ WinHeld
    BY <2>1, <2>2 DEF WinApart, WinFlush, WinHeld, WinCallHeld
  <2> QED
    BY <2>1, <2>4, <2>5 DEF WinLine, WinWhole
<1> QED
  BY <1>1, <1>2 DEF LinesOK

\* The steps of one client leave the other's part alone.
LEMMA LinesStep == TInv /\ LinesOK /\ [Next]_vars => LinesOK'
<1> SUFFICES ASSUME TInv, LinesOK, [Next]_vars PROVE LinesOK'
  OBVIOUS
<1>1. UNCHANGED macVars => MacLine'
  BY DEF LinesOK, macVars, MacLine, ReadersOK, MacUse, MacParked, MacApart, MacHeld, MacThere,
     Mac!Waits
<1>2. UNCHANGED winVars => WinLine'
  BY DEF LinesOK, winVars, WinLine, WinWhole, WinQueue, Under, WinApart, WinFlush, WinHeld,
     WinCallHeld, Entry, Win!Waits
<1>3. CASE Mac!Next /\ UNCHANGED winVars
  BY <1>2, <1>3, MacLineStep DEF LinesOK, TInv
<1>4. CASE Win!Next /\ UNCHANGED macVars
  BY <1>1, <1>4, WinLineStep DEF LinesOK, TInv
<1>5. CASE UNCHANGED <<macVars, winVars>>
  BY <1>1, <1>2, <1>5 DEF LinesOK
<1> QED
  BY <1>3, <1>4, <1>5 DEF Next, vars

\* No call of a tray is forgotten by its client (IpcClient.swift, IpcClient.cs): see
\* NoCallForgotten.  With the fairness of LiveSpec, this is what EveryCallReturns
\* rests on.
THEOREM NoneForgotten == Spec => []NoCallForgotten
<1>1. LinesOK /\ TInv => NoCallForgotten
  <2> SUFFICES ASSUME LinesOK, TInv PROVE NoCallForgotten
    OBVIOUS
  <2>1. ASSUME NEW c \in Callers
        PROVE  /\ Mac!Waits(c) /\ fd \in {0, call[c].conn} => MacReturns(c)
               /\ call[c].step = "parked" => c \in pending
    <3>1. MacUse /\ MacParked /\ MacHeld
      BY DEF LinesOK, MacLine
    <3>2. call[c].step = "parked" => c \in pending /\ ~isClosed
      BY <3>1 DEF MacParked
    <3>3. Mac!Waits(c) => call[c].step = "written" \/ call[c].step = "parked"
      BY DEF Mac!Waits, Mac!Running
    <3>4. ASSUME Mac!Waits(c), fd \in {0, call[c].conn} PROVE MacReturns(c)
      <4>1. /\ call[c].conn \in Mac!Conns /\ reader[call[c].conn] # "none"
            /\ call[c].conn = fd => MacThere(c)
        BY <3>1, <3>4 DEF MacHeld
      <4>2. CASE fd = 0
        <5>1. isClosed
          BY <3>1, <4>1, <4>2 DEF MacUse
        <5> QED
          BY <3>2, <3>3, <3>4, <5>1 DEF MacReturns
      <4>3. CASE fd # 0
        <5>1. fd = call[c].conn /\ reader[fd] = "reading"
          BY <3>1, <3>4, <4>3 DEF MacUse
        <5> QED
          BY <4>1, <5>1 DEF MacThere, MacReturns
      <4> QED
        BY <4>2, <4>3
    <3> QED
      BY <3>2, <3>4
  <2>2. ASSUME winOpen, ~overlapped, NEW c \in Callers
        PROVE  winReader = "reading" /\ (Win!Waits(c) => WinReturns(c))
    <3>1. winReader = "reading" /\ WinFlush /\ WinCallHeld(c)
      BY <2>2 DEF LinesOK, WinLine, WinWhole, WinHeld
    <3>2. winCall[c].step = "sent" => Win!Waits(c)
      BY DEF Win!Waits, Win!Running
    <3>3. ASSUME winCall[c].step = "sent", winCall[c].answer = 0 PROVE WinReturns(c)
      BY <3>1, <3>2, <3>3 DEF WinReturns, WinCallHeld, Under, Entry
    <3> QED
      BY <3>1, <3>3 DEF WinFlush, WinReturns, Win!Waits, Win!Running
  <2>3. winOpen /\ ~overlapped => winReader = "reading"
    BY DEF LinesOK, WinLine, WinWhole
  <2> QED
    BY <2>1, <2>2, <2>3 DEF NoCallForgotten
<1> QED
  BY <1>1, InitLines, LinesStep, Invariant, PTL DEF Spec
==============================================================================
