------------------------ MODULE TokenRefresh_proofs -------------------------
(***************************************************************************)
(* Proofs about TokenRefresh, for any set of callers, any way the token    *)
(* endpoint rotates refresh tokens and any number of answers it gives.     *)
(***************************************************************************)
EXTENDS TokenRefresh, TLAPS

\* A call under way has had nothing carried out, and has sent one request
\* when it is past its 401 and none before.
Counts ==
  \A c \in Callers :
    /\ pc[c] # "idle" =>
         /\ performed[c] = 0
         /\ sent[c] = IF retried[c] \/ pc[c] = "force" THEN 1 ELSE 0
    /\ pc[c] \in {"idle", "force"} => ~retried[c]
    /\ performed[c] <= 1

\* No access token is newer than the last one issued.
Issued ==
  /\ issued >= 1
  /\ accepted \subseteq 1 .. issued
  /\ tok.access <= issued
  /\ \A c \in Callers :
       got[c].access <= issued /\ bearer[c] <= issued /\ rejected[c] <= issued

\* An access token that waits to be stored has not been used by anyone.
Unseen ==
  \A d \in Callers : pc[d] = "store" =>
    /\ got[d].access # 0
    /\ got[d].access # tok.access
    /\ \A c \in Callers :
         /\ got[d].access # bearer[c] /\ got[d].access # rejected[c]
         /\ c # d => got[d].access # got[c].access

\* What a call finds in the client where it stands.  A token that was
\* rejected stays expired until another one replaces it.
Usable ==
  /\ tok.fresh => tok.access # 0
  /\ \A c \in Callers :
       /\ pc[c] \in {"persist", "bearer"} => tok.access # 0
       /\ pc[c] = "request" => bearer[c] # 0
       /\ retried[c] =>
            /\ pc[c] = "check" /\ tok.fresh => tok.access # rejected[c]
            /\ pc[c] \in {"persist", "bearer"} => tok.access # rejected[c]
            /\ pc[c] = "request" => bearer[c] # rejected[c]

\* Without a miss one call refreshes at a time, with the token the client
\* holds, and the keychain is behind only while that call is to write it.
Refreshing == {"post", "store", "persist"}

Current ==
  ~missed =>
    /\ \A c, d \in Callers : pc[c] \in Refreshing /\ pc[d] \in Refreshing => c = d
    /\ \A c \in Callers :
         /\ pc[c] \in {"post", "store"} => old[c] = tok.refresh
         /\ pc[c] = "persist" => got[c].refresh = tok.refresh
    /\ (\A c \in Callers : pc[c] # "persist") => keychain = tok.refresh

IInv == TypeOK /\ Counts /\ Issued /\ Unseen /\ Usable /\ Current

\* No refresh token is newer than the last one issued, and a new one that waits to
\* be stored is accepted by the token endpoint and known to nobody else.
RefreshUnseen ==
  /\ live \subseteq 1 .. issued
  /\ tok.refresh <= issued /\ keychain <= issued
  /\ \A c \in Callers : old[c] <= issued /\ got[c].refresh <= issued
  /\ \A d \in Callers : Rotated(d) =>
       /\ got[d].refresh \in live
       /\ got[d].refresh # tok.refresh /\ got[d].refresh # keychain
       /\ \A c \in Callers :
            /\ got[d].refresh # old[c]
            /\ c # d => got[d].refresh # got[c].refresh

RInv == RefreshUnseen /\ MemoryTokenGood
------------------------------------------------------------------------------
\* The invariant holds at the start.
LEMMA InitIInv == Init => IInv
<1> SUFFICES ASSUME Init PROVE IInv
  OBVIOUS
<1>1. TypeOK
  <2>1. 0 \in Token /\ 1 \in Token /\ {1} \subseteq Token
    BY MaxIssuedNat DEF Token
  <2>2. tok \in [access : Token, refresh : Token, fresh : BOOLEAN]
    BY <2>1 DEF Init
  <2>3. [access |-> 0, refresh |-> 0] \in [access : Token, refresh : Token]
    BY <2>1
  <2>4. got \in [Callers -> [access : Token, refresh : Token]]
    BY <2>3 DEF Init
  <2>5. /\ pc \in [Callers -> {"idle", "check", "take", "post", "store", "persist",
                               "bearer", "request", "force"}]
        /\ old \in [Callers -> Token] /\ bearer \in [Callers -> Token]
        /\ rejected \in [Callers -> Token] /\ retried \in [Callers -> BOOLEAN]
        /\ sent \in [Callers -> 0 .. 2] /\ performed \in [Callers -> 0 .. 2]
    BY <2>1 DEF Init
  <2>6. /\ keychain \in Token /\ issued \in Token
        /\ live \subseteq Token /\ accepted \subseteq Token
        /\ missed \in BOOLEAN /\ lost \in BOOLEAN /\ stale \in BOOLEAN
    BY <2>1 DEF Init
  <2> QED
    BY <2>2, <2>4, <2>5, <2>6 DEF TypeOK
<1>2. Counts /\ Issued /\ Unseen /\ Usable /\ Current
  BY DEF Init, Counts, Issued, Unseen, Usable, Current, Refreshing
<1> QED
  BY <1>1, <1>2 DEF IInv

\* A call that returns leaves its locals empty.
LEMMA ReturnTypes ==
  ASSUME TypeOK, NEW c \in Callers, Return(c)
  PROVE  /\ pc' \in [Callers -> {"idle", "check", "take", "post", "store", "persist",
                                 "bearer", "request", "force"}]
         /\ got' \in [Callers -> [access : Token, refresh : Token]]
         /\ old' \in [Callers -> Token] /\ bearer' \in [Callers -> Token]
         /\ rejected' \in [Callers -> Token] /\ retried' \in [Callers -> BOOLEAN]
<1>1. 0 \in Token /\ [access |-> 0, refresh |-> 0] \in [access : Token, refresh : Token]
  BY MaxIssuedNat DEF Token
<1> QED
  BY <1>1 DEF TypeOK, Return, Goto

\* Every step keeps the types; the bound on the requests comes from Counts.
LEMMA TypeStep == TypeOK /\ Counts /\ [Next]_vars => TypeOK'
<1> SUFFICES ASSUME TypeOK, Counts, [Next]_vars PROVE TypeOK'
  OBVIOUS
<1>1. ASSUME NEW c \in Callers, Start(c)
      PROVE  TypeOK'
  BY <1>1, MaxIssuedNat DEF TypeOK, Token, Counts, Start, Goto, cloudVars
<1>2. ASSUME NEW c \in Callers, CheckFresh(c)
      PROVE  TypeOK'
  BY <1>2, MaxIssuedNat DEF TypeOK, Token, Counts, CheckFresh, Goto, cloudVars
<1>3. ASSUME NEW c \in Callers, TakeRefresh(c)
      PROVE  TypeOK'
  BY <1>3, MaxIssuedNat DEF TypeOK, Token, Counts, TakeRefresh, Goto, cloudVars
<1>4. ASSUME NEW c \in Callers, NEW answer \in Answers, Refresh(c, answer)
      PROVE  TypeOK'
  <2>1. issued + 1 \in Token /\ 0 \in Token
    BY <1>4, MaxIssuedNat DEF TypeOK, Token, Refresh, Answer
  <2>2. got' \in [Callers -> [access : Token, refresh : Token]]
    BY <1>4, <2>1, AnswersKnown DEF TypeOK, Refresh, Answer
  <2>3. accepted' \subseteq Token /\ live' \subseteq Token /\ issued' \in Token
    BY <1>4, <2>1 DEF TypeOK, Refresh, Answer
  <2> QED
    BY <1>4, <2>2, <2>3 DEF TypeOK, Refresh, Answer, Goto
<1>5. ASSUME NEW c \in Callers, RefreshFails(c)
      PROVE  TypeOK'
  BY <1>5, MaxIssuedNat DEF TypeOK, Token, Counts, RefreshFails, Return, Goto, cloudVars
<1>18. ASSUME NEW c \in Callers, NEW answer \in Answers, RefreshLost(c, answer)
      PROVE  TypeOK'
  <2>1. issued + 1 \in Token
    BY <1>18, MaxIssuedNat DEF TypeOK, Token, RefreshLost, Answer
  <2>2. accepted' \subseteq Token /\ live' \subseteq Token /\ issued' \in Token
    BY <1>18, <2>1 DEF TypeOK, RefreshLost, Answer
  <2>3. Return(c) /\ lost' \in BOOLEAN /\ UNCHANGED <<tok, keychain, sent, performed, missed, stale>>
    BY <1>18 DEF TypeOK, RefreshLost
  <2> QED
    BY <2>2, <2>3, ReturnTypes DEF TypeOK
<1>6. ASSUME NEW c \in Callers, NEW fresh \in BOOLEAN, Store(c, fresh)
      PROVE  TypeOK'
  BY <1>6, MaxIssuedNat DEF TypeOK, Token, Counts, Store, PutBack, Goto, cloudVars
<1>7. ASSUME NEW c \in Callers, Persist(c)
      PROVE  TypeOK'
  <2>1. got[c].refresh \in Token
    BY DEF TypeOK
  <2>2. keychain' \in Token /\ missed' \in BOOLEAN
    BY <1>7, <2>1 DEF TypeOK, Persist
  <2> QED
    BY <1>7, <2>2 DEF TypeOK, Persist, Goto, cloudVars
<1>8. ASSUME NEW c \in Callers, ReadAccess(c)
      PROVE  TypeOK'
  BY <1>8, MaxIssuedNat DEF TypeOK, Token, Counts, ReadAccess, Goto, cloudVars
<1>9. ASSUME NEW c \in Callers, Request(c)
      PROVE  TypeOK'
  BY <1>9, MaxIssuedNat DEF TypeOK, Token, Counts, Request, Return, Goto, cloudVars
<1>10. ASSUME NEW c \in Callers, RequestFails(c)
      PROVE  TypeOK'
  BY <1>10, MaxIssuedNat DEF TypeOK, Token, Counts, RequestFails, Return, Goto, cloudVars
<1>11. ASSUME NEW c \in Callers, Unauthorized(c)
      PROVE  TypeOK'
  <2>1. CASE retried[c]
    <3>1. Return(c) /\ UNCHANGED <<tok, keychain, performed, cloudVars, missed, lost, stale>>
      BY <1>11, <2>1 DEF Unauthorized
    <3>2. sent' \in [Callers -> 0 .. 2]
      BY <1>11, <2>1 DEF TypeOK, Counts, Unauthorized
    <3> QED
      BY <3>1, <3>2, ReturnTypes DEF TypeOK, cloudVars
  <2>2. CASE ~retried[c]
    BY <1>11, <2>2, MaxIssuedNat DEF TypeOK, Token, Counts, Unauthorized, Goto, cloudVars
  <2> QED
    BY <2>1, <2>2
<1>12. ASSUME NEW c \in Callers, ForceExpiry(c)
      PROVE  TypeOK'
  BY <1>12, MaxIssuedNat DEF TypeOK, Token, Counts, ForceExpiry, Goto, cloudVars
<1>13. ASSUME NEW c \in Callers, Drop(c)
      PROVE  TypeOK'
  BY <1>13, MaxIssuedNat DEF TypeOK, Token, Counts, Drop, Return, Goto, cloudVars
<1>14. ASSUME Expire
      PROVE  TypeOK'
  BY <1>14, MaxIssuedNat DEF TypeOK, Token, Counts, Expire, callVars, cloudVars
<1>15. ASSUME NEW a \in accepted, Invalidate(a)
      PROVE  TypeOK'
  BY <1>15, MaxIssuedNat DEF TypeOK, Token, Counts, Invalidate, callVars, cloudVars
<1>16. ASSUME Restart
      PROVE  TypeOK'
  <2>1. 0 \in Token /\ [access |-> 0, refresh |-> 0] \in [access : Token, refresh : Token]
    BY MaxIssuedNat DEF Token
  <2>2. tok' \in [access : Token, refresh : Token, fresh : BOOLEAN]
    BY <1>16, <2>1 DEF TypeOK, Restart
  <2>3. /\ got' \in [Callers -> [access : Token, refresh : Token]]
        /\ old' \in [Callers -> Token] /\ bearer' \in [Callers -> Token]
        /\ rejected' \in [Callers -> Token] /\ retried' \in [Callers -> BOOLEAN]
    BY <1>16, <2>1 DEF Restart
  <2> QED
    BY <1>16, <2>2, <2>3 DEF TypeOK, Restart, cloudVars
<1>17. CASE UNCHANGED vars
  BY <1>17 DEF TypeOK, Token, Counts, vars, callVars, cloudVars
<1> QED
  BY <1>1, <1>2, <1>3, <1>4, <1>5, <1>6, <1>7, <1>8, <1>9, <1>10, <1>11, <1>12,
     <1>13, <1>14, <1>15, <1>16, <1>17, <1>18 DEF Next, Step

\* Every step keeps the counts of a call.
LEMMA CountsStep == TypeOK /\ Counts /\ [Next]_vars => Counts'
<1> SUFFICES ASSUME TypeOK, Counts, [Next]_vars PROVE Counts'
  OBVIOUS
<1>1. ASSUME NEW c \in Callers, Start(c)
      PROVE  Counts'
  BY <1>1 DEF TypeOK, Counts, Start, Goto, cloudVars
<1>2. ASSUME NEW c \in Callers, CheckFresh(c)
      PROVE  Counts'
  BY <1>2 DEF TypeOK, Counts, CheckFresh, Goto, cloudVars
<1>3. ASSUME NEW c \in Callers, TakeRefresh(c)
      PROVE  Counts'
  BY <1>3 DEF TypeOK, Counts, TakeRefresh, Goto, cloudVars
<1>4. ASSUME NEW c \in Callers, NEW answer \in Answers, Refresh(c, answer)
      PROVE  Counts'
  BY <1>4 DEF TypeOK, Counts, Refresh, Answer, Goto, cloudVars
<1>5. ASSUME NEW c \in Callers, RefreshFails(c)
      PROVE  Counts'
  BY <1>5 DEF TypeOK, Counts, RefreshFails, Return, Goto, cloudVars
<1>18. ASSUME NEW c \in Callers, NEW answer \in Answers, RefreshLost(c, answer)
      PROVE  Counts'
  BY <1>18 DEF TypeOK, Counts, RefreshLost, Answer, Return, Goto, cloudVars
<1>6. ASSUME NEW c \in Callers, NEW fresh \in BOOLEAN, Store(c, fresh)
      PROVE  Counts'
  BY <1>6 DEF TypeOK, Counts, Store, PutBack, Goto, cloudVars
<1>7. ASSUME NEW c \in Callers, Persist(c)
      PROVE  Counts'
  BY <1>7 DEF TypeOK, Counts, Persist, Goto, cloudVars
<1>8. ASSUME NEW c \in Callers, ReadAccess(c)
      PROVE  Counts'
  BY <1>8 DEF TypeOK, Counts, ReadAccess, Goto, cloudVars
<1>9. ASSUME NEW c \in Callers, Request(c)
      PROVE  Counts'
  BY <1>9 DEF TypeOK, Counts, Request, Return, Goto, cloudVars
<1>10. ASSUME NEW c \in Callers, RequestFails(c)
      PROVE  Counts'
  BY <1>10 DEF TypeOK, Counts, RequestFails, Return, Goto, cloudVars
<1>11. ASSUME NEW c \in Callers, Unauthorized(c)
      PROVE  Counts'
  BY <1>11 DEF TypeOK, Counts, Unauthorized, Return, Goto, cloudVars
<1>12. ASSUME NEW c \in Callers, ForceExpiry(c)
      PROVE  Counts'
  BY <1>12 DEF TypeOK, Counts, ForceExpiry, Goto, cloudVars
<1>13. ASSUME NEW c \in Callers, Drop(c)
      PROVE  Counts'
  BY <1>13 DEF TypeOK, Counts, Drop, Return, Goto, cloudVars
<1>14. ASSUME Expire
      PROVE  Counts'
  BY <1>14 DEF TypeOK, Counts, Expire, callVars, cloudVars
<1>15. ASSUME NEW a \in accepted, Invalidate(a)
      PROVE  Counts'
  BY <1>15 DEF TypeOK, Counts, Invalidate, callVars, cloudVars
<1>16. ASSUME Restart
      PROVE  Counts'
  BY <1>16 DEF TypeOK, Counts, Restart, cloudVars
<1>17. CASE UNCHANGED vars
  BY <1>17 DEF TypeOK, Counts, vars, callVars, cloudVars
<1> QED
  BY <1>1, <1>2, <1>3, <1>4, <1>5, <1>6, <1>7, <1>8, <1>9, <1>10, <1>11, <1>12,
     <1>13, <1>14, <1>15, <1>16, <1>17, <1>18 DEF Next, Step

\* Tokens are issued in increasing order.
LEMMA IssuedStep == TypeOK /\ Issued /\ [Next]_vars => Issued'
<1> SUFFICES ASSUME TypeOK, Issued, [Next]_vars PROVE Issued'
  OBVIOUS
<1>1. ASSUME NEW c \in Callers, Start(c)
      PROVE  Issued'
  BY <1>1, MaxIssuedNat DEF TypeOK, Token, Issued, Start, Goto, cloudVars
<1>2. ASSUME NEW c \in Callers, CheckFresh(c)
      PROVE  Issued'
  BY <1>2, MaxIssuedNat DEF TypeOK, Token, Issued, CheckFresh, Goto, cloudVars
<1>3. ASSUME NEW c \in Callers, TakeRefresh(c)
      PROVE  Issued'
  BY <1>3, MaxIssuedNat DEF TypeOK, Token, Issued, TakeRefresh, Goto, cloudVars
<1>4. ASSUME NEW c \in Callers, NEW answer \in Answers, Refresh(c, answer)
      PROVE  Issued'
  BY <1>4, MaxIssuedNat DEF TypeOK, Token, Issued, Refresh, Answer, Goto, cloudVars
<1>5. ASSUME NEW c \in Callers, RefreshFails(c)
      PROVE  Issued'
  BY <1>5, MaxIssuedNat DEF TypeOK, Token, Issued, RefreshFails, Return, Goto, cloudVars
<1>18. ASSUME NEW c \in Callers, NEW answer \in Answers, RefreshLost(c, answer)
      PROVE  Issued'
  BY <1>18, MaxIssuedNat DEF TypeOK, Token, Issued, RefreshLost, Answer, Return, Goto, cloudVars
<1>6. ASSUME NEW c \in Callers, NEW fresh \in BOOLEAN, Store(c, fresh)
      PROVE  Issued'
  BY <1>6, MaxIssuedNat DEF TypeOK, Token, Issued, Store, PutBack, Goto, cloudVars
<1>7. ASSUME NEW c \in Callers, Persist(c)
      PROVE  Issued'
  BY <1>7, MaxIssuedNat DEF TypeOK, Token, Issued, Persist, Goto, cloudVars
<1>8. ASSUME NEW c \in Callers, ReadAccess(c)
      PROVE  Issued'
  BY <1>8, MaxIssuedNat DEF TypeOK, Token, Issued, ReadAccess, Goto, cloudVars
<1>9. ASSUME NEW c \in Callers, Request(c)
      PROVE  Issued'
  BY <1>9, MaxIssuedNat DEF TypeOK, Token, Issued, Request, Return, Goto, cloudVars
<1>10. ASSUME NEW c \in Callers, RequestFails(c)
      PROVE  Issued'
  BY <1>10, MaxIssuedNat DEF TypeOK, Token, Issued, RequestFails, Return, Goto, cloudVars
<1>11. ASSUME NEW c \in Callers, Unauthorized(c)
      PROVE  Issued'
  BY <1>11, MaxIssuedNat DEF TypeOK, Token, Issued, Unauthorized, Return, Goto, cloudVars
<1>12. ASSUME NEW c \in Callers, ForceExpiry(c)
      PROVE  Issued'
  BY <1>12, MaxIssuedNat DEF TypeOK, Token, Issued, ForceExpiry, Goto, cloudVars
<1>13. ASSUME NEW c \in Callers, Drop(c)
      PROVE  Issued'
  BY <1>13, MaxIssuedNat DEF TypeOK, Token, Issued, Drop, Return, Goto, cloudVars
<1>14. ASSUME Expire
      PROVE  Issued'
  BY <1>14, MaxIssuedNat DEF TypeOK, Token, Issued, Expire, callVars, cloudVars
<1>15. ASSUME NEW a \in accepted, Invalidate(a)
      PROVE  Issued'
  BY <1>15, MaxIssuedNat DEF TypeOK, Token, Issued, Invalidate, callVars, cloudVars
<1>16. ASSUME Restart
      PROVE  Issued'
  BY <1>16, MaxIssuedNat DEF TypeOK, Token, Issued, Restart, cloudVars
<1>17. CASE UNCHANGED vars
  BY <1>17 DEF TypeOK, Token, Issued, vars, callVars, cloudVars
<1> QED
  BY <1>1, <1>2, <1>3, <1>4, <1>5, <1>6, <1>7, <1>8, <1>9, <1>10, <1>11, <1>12,
     <1>13, <1>14, <1>15, <1>16, <1>17, <1>18 DEF Next, Step

\* What waits to be stored stays unused until it is stored.
LEMMA UnseenStep == TypeOK /\ Issued /\ Unseen /\ [Next]_vars => Unseen'
<1> SUFFICES ASSUME TypeOK, Issued, Unseen, [Next]_vars PROVE Unseen'
  OBVIOUS
<1>1. ASSUME NEW c \in Callers, Start(c)
      PROVE  Unseen'
  BY <1>1, MaxIssuedNat DEF TypeOK, Token, Issued, Unseen, Start, Goto, cloudVars
<1>2. ASSUME NEW c \in Callers, CheckFresh(c)
      PROVE  Unseen'
  BY <1>2, MaxIssuedNat DEF TypeOK, Token, Issued, Unseen, CheckFresh, Goto,
     cloudVars
<1>3. ASSUME NEW c \in Callers, TakeRefresh(c)
      PROVE  Unseen'
  BY <1>3, MaxIssuedNat DEF TypeOK, Token, Issued, Unseen, TakeRefresh, Goto,
     cloudVars
<1>4. ASSUME NEW c \in Callers, NEW answer \in Answers, Refresh(c, answer)
      PROVE  Unseen'
  BY <1>4, MaxIssuedNat DEF TypeOK, Token, Issued, Unseen, Refresh, Answer, Goto, cloudVars
<1>5. ASSUME NEW c \in Callers, RefreshFails(c)
      PROVE  Unseen'
  BY <1>5, MaxIssuedNat DEF TypeOK, Token, Issued, Unseen, RefreshFails, Return, Goto,
     cloudVars
<1>18. ASSUME NEW c \in Callers, NEW answer \in Answers, RefreshLost(c, answer)
      PROVE  Unseen'
  BY <1>18, MaxIssuedNat DEF TypeOK, Token, Issued, Unseen, RefreshLost, Answer, Return, Goto,
     cloudVars
<1>6. ASSUME NEW c \in Callers, NEW fresh \in BOOLEAN, Store(c, fresh)
      PROVE  Unseen'
  BY <1>6, MaxIssuedNat DEF TypeOK, Token, Issued, Unseen, Store, PutBack, Goto, cloudVars
<1>7. ASSUME NEW c \in Callers, Persist(c)
      PROVE  Unseen'
  BY <1>7, MaxIssuedNat DEF TypeOK, Token, Issued, Unseen, Persist, Goto, cloudVars
<1>8. ASSUME NEW c \in Callers, ReadAccess(c)
      PROVE  Unseen'
  BY <1>8, MaxIssuedNat DEF TypeOK, Token, Issued, Unseen, ReadAccess, Goto,
     cloudVars
<1>9. ASSUME NEW c \in Callers, Request(c)
      PROVE  Unseen'
  BY <1>9, MaxIssuedNat DEF TypeOK, Token, Issued, Unseen, Request, Return, Goto, cloudVars
<1>10. ASSUME NEW c \in Callers, RequestFails(c)
      PROVE  Unseen'
  BY <1>10, MaxIssuedNat DEF TypeOK, Token, Issued, Unseen, RequestFails, Return, Goto,
     cloudVars
<1>11. ASSUME NEW c \in Callers, Unauthorized(c)
      PROVE  Unseen'
  BY <1>11, MaxIssuedNat DEF TypeOK, Token, Issued, Unseen, Unauthorized, Return, Goto,
     cloudVars
<1>12. ASSUME NEW c \in Callers, ForceExpiry(c)
      PROVE  Unseen'
  BY <1>12, MaxIssuedNat DEF TypeOK, Token, Issued, Unseen, ForceExpiry, Goto,
     cloudVars
<1>13. ASSUME NEW c \in Callers, Drop(c)
      PROVE  Unseen'
  BY <1>13, MaxIssuedNat DEF TypeOK, Token, Issued, Unseen, Drop, Return, Goto, cloudVars
<1>14. ASSUME Expire
      PROVE  Unseen'
  BY <1>14, MaxIssuedNat DEF TypeOK, Token, Issued, Unseen, Expire, callVars,
     cloudVars
<1>15. ASSUME NEW a \in accepted, Invalidate(a)
      PROVE  Unseen'
  BY <1>15, MaxIssuedNat DEF TypeOK, Token, Issued, Unseen, Invalidate, callVars,
     cloudVars
<1>16. ASSUME Restart
      PROVE  Unseen'
  BY <1>16, MaxIssuedNat DEF TypeOK, Token, Issued, Unseen, Restart, cloudVars
<1>17. CASE UNCHANGED vars
  BY <1>17 DEF TypeOK, Token, Issued, Unseen, vars, callVars, cloudVars
<1> QED
  BY <1>1, <1>2, <1>3, <1>4, <1>5, <1>6, <1>7, <1>8, <1>9, <1>10, <1>11, <1>12,
     <1>13, <1>14, <1>15, <1>16, <1>17, <1>18 DEF Next, Step

\* Every step keeps what the calls find usable.
LEMMA UsableStep == TypeOK /\ Counts /\ Unseen /\ Usable /\ [Next]_vars => Usable'
<1> SUFFICES ASSUME TypeOK, Counts, Unseen, Usable, [Next]_vars PROVE Usable'
  OBVIOUS
<1>1. ASSUME NEW c \in Callers, Start(c)
      PROVE  Usable'
  BY <1>1 DEF TypeOK, Counts, Unseen, Usable, Start, Goto, cloudVars
<1>2. ASSUME NEW c \in Callers, CheckFresh(c)
      PROVE  Usable'
  BY <1>2 DEF TypeOK, Unseen, Usable, CheckFresh, Goto, cloudVars
<1>3. ASSUME NEW c \in Callers, TakeRefresh(c)
      PROVE  Usable'
  BY <1>3 DEF TypeOK, Unseen, Usable, TakeRefresh, Goto, cloudVars
<1>4. ASSUME NEW c \in Callers, NEW answer \in Answers, Refresh(c, answer)
      PROVE  Usable'
  BY <1>4 DEF TypeOK, Unseen, Usable, Refresh, Answer, Goto, cloudVars
<1>5. ASSUME NEW c \in Callers, RefreshFails(c)
      PROVE  Usable'
  BY <1>5 DEF TypeOK, Unseen, Usable, RefreshFails, Return, Goto, cloudVars
<1>18. ASSUME NEW c \in Callers, NEW answer \in Answers, RefreshLost(c, answer)
      PROVE  Usable'
  BY <1>18 DEF TypeOK, Unseen, Usable, RefreshLost, Answer, Return, Goto, cloudVars
<1>6. ASSUME NEW c \in Callers, NEW fresh \in BOOLEAN, Store(c, fresh)
      PROVE  Usable'
  BY <1>6 DEF TypeOK, Unseen, Usable, Store, PutBack, Goto, cloudVars
<1>7. ASSUME NEW c \in Callers, Persist(c)
      PROVE  Usable'
  BY <1>7 DEF TypeOK, Unseen, Usable, Persist, Goto, cloudVars
<1>8. ASSUME NEW c \in Callers, ReadAccess(c)
      PROVE  Usable'
  BY <1>8 DEF TypeOK, Unseen, Usable, ReadAccess, Goto, cloudVars
<1>9. ASSUME NEW c \in Callers, Request(c)
      PROVE  Usable'
  BY <1>9 DEF TypeOK, Unseen, Usable, Request, Return, Goto, cloudVars
<1>10. ASSUME NEW c \in Callers, RequestFails(c)
      PROVE  Usable'
  BY <1>10 DEF TypeOK, Unseen, Usable, RequestFails, Return, Goto, cloudVars
<1>11. ASSUME NEW c \in Callers, Unauthorized(c)
      PROVE  Usable'
  BY <1>11 DEF TypeOK, Unseen, Usable, Unauthorized, Return, Goto, cloudVars
<1>12. ASSUME NEW c \in Callers, ForceExpiry(c)
      PROVE  Usable'
  BY <1>12 DEF TypeOK, Unseen, Usable, ForceExpiry, Goto, cloudVars
<1>13. ASSUME NEW c \in Callers, Drop(c)
      PROVE  Usable'
  BY <1>13 DEF TypeOK, Unseen, Usable, Drop, Return, Goto, cloudVars
<1>14. ASSUME Expire
      PROVE  Usable'
  BY <1>14 DEF TypeOK, Unseen, Usable, Expire, callVars, cloudVars
<1>15. ASSUME NEW a \in accepted, Invalidate(a)
      PROVE  Usable'
  BY <1>15 DEF TypeOK, Unseen, Usable, Invalidate, callVars, cloudVars
<1>16. ASSUME Restart
      PROVE  Usable'
  BY <1>16 DEF TypeOK, Unseen, Usable, Restart, cloudVars
<1>17. CASE UNCHANGED vars
  BY <1>17 DEF TypeOK, Unseen, Usable, vars, callVars, cloudVars
<1> QED
  BY <1>1, <1>2, <1>3, <1>4, <1>5, <1>6, <1>7, <1>8, <1>9, <1>10, <1>11, <1>12,
     <1>13, <1>14, <1>15, <1>16, <1>17, <1>18 DEF Next, Step

\* Every step keeps the keychain current.
LEMMA CurrentStep == TypeOK /\ Current /\ [Next]_vars => Current'
<1> SUFFICES ASSUME TypeOK, Current, [Next]_vars PROVE Current'
  OBVIOUS
<1>1. ASSUME NEW c \in Callers, Start(c)
      PROVE  Current'
  BY <1>1 DEF TypeOK, Current, Refreshing, Start, Goto, cloudVars
<1>2. ASSUME NEW c \in Callers, CheckFresh(c)
      PROVE  Current'
  BY <1>2 DEF TypeOK, Current, Refreshing, CheckFresh, Goto, cloudVars
<1>3. ASSUME NEW c \in Callers, TakeRefresh(c)
      PROVE  Current'
  BY <1>3 DEF TypeOK, Current, Refreshing, TakeRefresh, Goto, cloudVars
<1>4. ASSUME NEW c \in Callers, NEW answer \in Answers, Refresh(c, answer)
      PROVE  Current'
  BY <1>4 DEF TypeOK, Current, Refreshing, Refresh, Answer, Goto, cloudVars
<1>5. ASSUME NEW c \in Callers, RefreshFails(c)
      PROVE  Current'
  BY <1>5 DEF TypeOK, Current, Refreshing, RefreshFails, Return, Goto, cloudVars
<1>18. ASSUME NEW c \in Callers, NEW answer \in Answers, RefreshLost(c, answer)
      PROVE  Current'
  BY <1>18 DEF TypeOK, Current, Refreshing, RefreshLost, Answer, Return, Goto, cloudVars
<1>6. ASSUME NEW c \in Callers, NEW fresh \in BOOLEAN, Store(c, fresh)
      PROVE  Current'
  BY <1>6 DEF TypeOK, Current, Refreshing, Store, PutBack, Goto, cloudVars
<1>7. ASSUME NEW c \in Callers, Persist(c)
      PROVE  Current'
  BY <1>7 DEF TypeOK, Current, Refreshing, Persist, Goto, cloudVars
<1>8. ASSUME NEW c \in Callers, ReadAccess(c)
      PROVE  Current'
  BY <1>8 DEF TypeOK, Current, Refreshing, ReadAccess, Goto, cloudVars
<1>9. ASSUME NEW c \in Callers, Request(c)
      PROVE  Current'
  BY <1>9 DEF TypeOK, Current, Refreshing, Request, Return, Goto, cloudVars
<1>10. ASSUME NEW c \in Callers, RequestFails(c)
      PROVE  Current'
  BY <1>10 DEF TypeOK, Current, Refreshing, RequestFails, Return, Goto, cloudVars
<1>11. ASSUME NEW c \in Callers, Unauthorized(c)
      PROVE  Current'
  <2>1. CASE retried[c]
    <3>1. /\ pc' = [pc EXCEPT ![c] = "idle"] /\ UNCHANGED <<tok, keychain, missed>>
          /\ \A d \in Callers \ {c} : old'[d] = old[d] /\ got'[d] = got[d]
      BY <1>11, <2>1 DEF TypeOK, Unauthorized, Return, Goto
    <3>2. pc[c] = "request"
      BY <1>11 DEF Unauthorized
    <3> QED
      BY <3>1, <3>2 DEF TypeOK, Current, Refreshing
  <2>2. CASE ~retried[c]
    BY <1>11, <2>2 DEF TypeOK, Current, Refreshing, Unauthorized, Goto, cloudVars
  <2> QED
    BY <2>1, <2>2
<1>12. ASSUME NEW c \in Callers, ForceExpiry(c)
      PROVE  Current'
  BY <1>12 DEF TypeOK, Current, Refreshing, ForceExpiry, Goto, cloudVars
<1>13. ASSUME NEW c \in Callers, Drop(c)
      PROVE  Current'
  BY <1>13 DEF TypeOK, Current, Refreshing, Drop, Return, Goto, cloudVars
<1>14. ASSUME Expire
      PROVE  Current'
  BY <1>14 DEF TypeOK, Current, Refreshing, Expire, callVars, cloudVars
<1>15. ASSUME NEW a \in accepted, Invalidate(a)
      PROVE  Current'
  BY <1>15 DEF TypeOK, Current, Refreshing, Invalidate, callVars, cloudVars
<1>16. ASSUME Restart
      PROVE  Current'
  BY <1>16 DEF TypeOK, Current, Refreshing, Restart, cloudVars
<1>17. CASE UNCHANGED vars
  BY <1>17 DEF TypeOK, Current, Refreshing, vars, callVars, cloudVars
<1> QED
  BY <1>1, <1>2, <1>3, <1>4, <1>5, <1>6, <1>7, <1>8, <1>9, <1>10, <1>11, <1>12,
     <1>13, <1>14, <1>15, <1>16, <1>17, <1>18 DEF Next, Step

------------------------------------------------------------------------------
\* The inductive invariant.
LEMMA Invariant == Spec => []IInv
<1>1. IInv /\ [Next]_vars => IInv'
  BY TypeStep, CountsStep, IssuedStep, UnseenStep, UsableStep, CurrentStep DEF IInv
<1> QED
  BY InitIInv, <1>1, PTL DEF Spec

(***************************************************************************)
(* Type correctness of the client, its calls and the provider.             *)
(***************************************************************************)
THEOREM TypeCorrect == Spec => []TypeOK
<1>1. IInv => TypeOK
  BY DEF IInv
<1> QED
  BY Invariant, <1>1, PTL

(***************************************************************************)
(* However many calls share the client, send makes at most two requests    *)
(* and the mail provider carries out at most one of them.                  *)
(***************************************************************************)
THEOREM SentAtMostOnce == Spec => []AtMostOnce
<1>1. IInv => AtMostOnce
  BY DEF IInv, TypeOK, Counts, AtMostOnce
<1> QED
  BY Invariant, <1>1, PTL

(***************************************************************************)
(* access_token never reads the empty token, and the retry after a 401     *)
(* never repeats the token that was rejected.                              *)
(***************************************************************************)
THEOREM BearerAlwaysUsable == Spec => []BearerUsable
<1>1. IInv => BearerUsable
  BY DEF IInv, Usable, BearerUsable
<1> QED
  BY Invariant, <1>1, PTL

(***************************************************************************)
(* Without overlapping refreshes and failed writes, make_rotation_callback *)
(* leaves the token the client uses in the keychain.                       *)
(***************************************************************************)
THEOREM KeychainStaysCurrent == Spec => []KeychainCurrent
<1>1. IInv => KeychainCurrent
  BY DEF IInv, Current, KeychainCurrent
<1> QED
  BY Invariant, <1>1, PTL
------------------------------------------------------------------------------
\* A call that returns takes nothing but its own answer along.
LEMMA Leaves ==
  ASSUME TypeOK, RefreshUnseen, NEW c \in Callers, Return(c), UNCHANGED <<tok, keychain>>,
         issued' \in Nat, issued <= issued', live' \subseteq 1 .. issued',
         live \ {old[c]} \subseteq live'
  PROVE  RefreshUnseen'
<1>1. /\ pc' = [pc EXCEPT ![c] = "idle"] /\ old' = [old EXCEPT ![c] = 0]
      /\ got' = [got EXCEPT ![c] = [access |-> 0, refresh |-> 0]]
  BY DEF Return, Goto
<1>2. /\ tok'.refresh <= issued' /\ keychain' <= issued'
      /\ \A d \in Callers : old'[d] <= issued' /\ got'[d].refresh <= issued'
  BY <1>1, MaxIssuedNat DEF TypeOK, Token, RefreshUnseen
<1>3. ASSUME NEW d \in Callers, Rotated(d)'
      PROVE  /\ got'[d].refresh \in live'
             /\ got'[d].refresh # tok'.refresh /\ got'[d].refresh # keychain'
             /\ \A e \in Callers :
                  /\ got'[d].refresh # old'[e]
                  /\ e # d => got'[d].refresh # got'[e].refresh
  <2>1. d # c /\ Rotated(d) /\ got'[d] = got[d] /\ got[d].refresh # 0
    BY <1>1, <1>3 DEF TypeOK, Rotated
  <2>2. /\ got[d].refresh \in live' /\ got[d].refresh # tok.refresh /\ got[d].refresh # keychain
    BY <2>1 DEF RefreshUnseen
  <2>3. ASSUME NEW e \in Callers
        PROVE  got[d].refresh # old'[e] /\ (e # d => got[d].refresh # got'[e].refresh)
    <3>1. CASE e = c
      BY <1>1, <2>1, <3>1 DEF TypeOK
    <3>2. CASE e # c
      BY <1>1, <2>1, <3>2 DEF TypeOK, RefreshUnseen
    <3> QED
      BY <3>1, <3>2
  <2> QED
    BY <2>1, <2>2, <2>3
<1> QED
  BY <1>2, <1>3 DEF RefreshUnseen

\* A new refresh token that waits to be stored is one nobody else has.
LEMMA RefreshUnseenStep ==
  TypeOK /\ RefreshUnseen /\ [Next]_vars => RefreshUnseen'
<1> SUFFICES ASSUME TypeOK, RefreshUnseen, [Next]_vars
             PROVE  RefreshUnseen'
  OBVIOUS
<1>1. ASSUME NEW c \in Callers, Start(c)
      PROVE  RefreshUnseen'
  BY <1>1, MaxIssuedNat, AnswersKnown DEF TypeOK, Token, RefreshUnseen, Rotated, Start,
     Goto, cloudVars
<1>2. ASSUME NEW c \in Callers, CheckFresh(c)
      PROVE  RefreshUnseen'
  BY <1>2, MaxIssuedNat, AnswersKnown DEF TypeOK, Token, RefreshUnseen, Rotated,
     CheckFresh, Goto, cloudVars
<1>3. ASSUME NEW c \in Callers, TakeRefresh(c)
      PROVE  RefreshUnseen'
  BY <1>3, MaxIssuedNat, AnswersKnown DEF TypeOK, Token, RefreshUnseen, Rotated,
     TakeRefresh, Goto, cloudVars
<1>4. ASSUME NEW c \in Callers, NEW answer \in Answers, Refresh(c, answer)
      PROVE  RefreshUnseen'
  BY <1>4, MaxIssuedNat, AnswersKnown DEF TypeOK, Token, RefreshUnseen, Rotated, Refresh, Answer,
     Goto, cloudVars
<1>5. ASSUME NEW c \in Callers, RefreshFails(c)
      PROVE  RefreshUnseen'
  BY <1>5, MaxIssuedNat, AnswersKnown DEF TypeOK, Token, RefreshUnseen, Rotated,
     RefreshFails, Return, Goto, cloudVars
<1>18. ASSUME NEW c \in Callers, NEW answer \in Answers, RefreshLost(c, answer)
      PROVE  RefreshUnseen'
  <2>1. Return(c) /\ UNCHANGED <<tok, keychain>> /\ issued' = issued + 1
    BY <1>18 DEF RefreshLost, Answer
  <2>2. live' = IF answer # "rotate" THEN live
                ELSE (IF Revokes THEN live \ {old[c]} ELSE live) \union {issued'}
    BY <1>18 DEF RefreshLost, Answer
  <2>3. live' \subseteq 1 .. issued' /\ live \ {old[c]} \subseteq live'
    <3>1. issued \in Nat /\ issued' \in Nat /\ issued' = issued + 1
      BY <2>1, MaxIssuedNat DEF TypeOK, Token
    <3>2. 1 .. issued \subseteq 1 .. issued' /\ issued' \in 1 .. issued'
      BY <3>1
    <3>3. live \subseteq 1 .. issued
      BY DEF RefreshUnseen
    <3> QED
      BY <2>2, <3>2, <3>3
  <2>4. issued' \in Nat /\ issued <= issued'
    BY <2>1, MaxIssuedNat DEF TypeOK, Token
  <2> QED
    BY <2>1, <2>3, <2>4, Leaves
<1>6. ASSUME NEW c \in Callers, NEW fresh \in BOOLEAN, Store(c, fresh)
      PROVE  RefreshUnseen'
  BY <1>6, MaxIssuedNat, AnswersKnown DEF TypeOK, Token, RefreshUnseen, Rotated, Store, PutBack,
     Goto, cloudVars
<1>7. ASSUME NEW c \in Callers, Persist(c)
      PROVE  RefreshUnseen'
  BY <1>7, MaxIssuedNat, AnswersKnown DEF TypeOK, Token, RefreshUnseen, Rotated, Persist,
     Goto, cloudVars
<1>8. ASSUME NEW c \in Callers, ReadAccess(c)
      PROVE  RefreshUnseen'
  BY <1>8, MaxIssuedNat, AnswersKnown DEF TypeOK, Token, RefreshUnseen, Rotated,
     ReadAccess, Goto, cloudVars
<1>9. ASSUME NEW c \in Callers, Request(c)
      PROVE  RefreshUnseen'
  BY <1>9, MaxIssuedNat, AnswersKnown DEF TypeOK, Token, RefreshUnseen, Rotated, Request, Return,
     Goto, cloudVars
<1>10. ASSUME NEW c \in Callers, RequestFails(c)
      PROVE  RefreshUnseen'
  BY <1>10, MaxIssuedNat, AnswersKnown DEF TypeOK, Token, RefreshUnseen, Rotated,
     RequestFails, Return, Goto, cloudVars
<1>11. ASSUME NEW c \in Callers, Unauthorized(c)
      PROVE  RefreshUnseen'
  <2>1. CASE retried[c]
    <3>1. Return(c) /\ UNCHANGED <<tok, keychain, issued, live>>
      BY <1>11, <2>1 DEF Unauthorized, cloudVars
    <3>2. issued \in Nat /\ issued <= issued /\ live \subseteq 1 .. issued
      BY MaxIssuedNat DEF TypeOK, Token, RefreshUnseen
    <3> QED
      BY <3>1, <3>2, Leaves
  <2>2. CASE ~retried[c]
    BY <1>11, <2>2 DEF TypeOK, Token, RefreshUnseen, Rotated, Unauthorized, Goto, cloudVars
  <2> QED
    BY <2>1, <2>2
<1>12. ASSUME NEW c \in Callers, ForceExpiry(c)
      PROVE  RefreshUnseen'
  BY <1>12, MaxIssuedNat, AnswersKnown DEF TypeOK, Token, RefreshUnseen, Rotated,
     ForceExpiry, Goto, cloudVars
<1>13. ASSUME NEW c \in Callers, Drop(c)
      PROVE  RefreshUnseen'
  BY <1>13, MaxIssuedNat, AnswersKnown DEF TypeOK, Token, RefreshUnseen, Rotated, Drop, Return,
     Goto, cloudVars
<1>14. ASSUME Expire
      PROVE  RefreshUnseen'
  BY <1>14, MaxIssuedNat, AnswersKnown DEF TypeOK, Token, RefreshUnseen, Rotated, Expire,
     callVars, cloudVars
<1>15. ASSUME NEW a \in accepted, Invalidate(a)
      PROVE  RefreshUnseen'
  BY <1>15, MaxIssuedNat, AnswersKnown DEF TypeOK, Token, RefreshUnseen, Rotated,
     Invalidate, callVars, cloudVars
<1>16. ASSUME Restart
      PROVE  RefreshUnseen'
  BY <1>16, MaxIssuedNat, AnswersKnown DEF TypeOK, Token, RefreshUnseen, Rotated, Restart,
     cloudVars
<1>17. CASE UNCHANGED vars
  BY <1>17 DEF TypeOK, Token, RefreshUnseen, Rotated, vars, callVars, cloudVars
<1> QED
  BY <1>1, <1>2, <1>3, <1>4, <1>5, <1>6, <1>7, <1>8, <1>9, <1>10, <1>11, <1>12,
     <1>13, <1>14, <1>15, <1>16, <1>17, <1>18 DEF Next, Step

\* Every step keeps a usable refresh token in the client or on its way there.
LEMMA MemoryStep ==
  TypeOK /\ RefreshUnseen /\ MemoryTokenGood /\ [Next]_vars => MemoryTokenGood'
<1> SUFFICES ASSUME TypeOK, RefreshUnseen, MemoryTokenGood, [Next]_vars
             PROVE  MemoryTokenGood'
  OBVIOUS
<1>1. ASSUME NEW c \in Callers, Start(c)
      PROVE  MemoryTokenGood'
  BY <1>1 DEF TypeOK, RefreshUnseen, MemoryTokenGood, Rotated, Start, Goto, cloudVars
<1>2. ASSUME NEW c \in Callers, CheckFresh(c)
      PROVE  MemoryTokenGood'
  BY <1>2 DEF TypeOK, RefreshUnseen, MemoryTokenGood, Rotated, CheckFresh, Goto, cloudVars
<1>3. ASSUME NEW c \in Callers, TakeRefresh(c)
      PROVE  MemoryTokenGood'
  BY <1>3 DEF TypeOK, RefreshUnseen, MemoryTokenGood, Rotated, TakeRefresh, Goto, cloudVars
<1>4. ASSUME NEW c \in Callers, NEW answer \in Answers, Refresh(c, answer)
      PROVE  MemoryTokenGood'
  <2>1. CASE answer = "rotate"
    <3>1. pc'[c] = "store" /\ got'[c].refresh = issued' /\ issued' \in live'
      BY <1>4, <2>1 DEF TypeOK, Refresh, Answer, Goto
    <3>2. issued' \notin {0, old'[c]}
      BY <1>4, MaxIssuedNat DEF TypeOK, Token, RefreshUnseen, Refresh, Answer
    <3> QED
      BY <3>1, <3>2 DEF MemoryTokenGood, Rotated
  <2>2. CASE answer # "rotate"
    <3>1. live' = live /\ tok' = tok /\ lost' = lost /\ stale' = stale
      BY <1>4, <2>2 DEF Refresh, Answer
    <3>2. \A d \in Callers : Rotated(d) => Rotated(d)' /\ got'[d] = got[d]
      BY <1>4 DEF TypeOK, Refresh, Answer, Goto, Rotated
    <3> QED
      BY <3>1, <3>2 DEF MemoryTokenGood
  <2> QED
    BY <2>1, <2>2
<1>5. ASSUME NEW c \in Callers, RefreshFails(c)
      PROVE  MemoryTokenGood'
  BY <1>5 DEF TypeOK, RefreshUnseen, MemoryTokenGood, Rotated, RefreshFails, Return, Goto, cloudVars
<1>18. ASSUME NEW c \in Callers, NEW answer \in Answers, RefreshLost(c, answer)
      PROVE  MemoryTokenGood'
  BY <1>18 DEF TypeOK, RefreshUnseen, MemoryTokenGood, Rotated, RefreshLost, Answer, Return, Goto, cloudVars
<1>6. ASSUME NEW c \in Callers, NEW fresh \in BOOLEAN, Store(c, fresh)
      PROVE  MemoryTokenGood'
  BY <1>6 DEF TypeOK, RefreshUnseen, MemoryTokenGood, Rotated, Store, PutBack, Goto, cloudVars
<1>7. ASSUME NEW c \in Callers, Persist(c)
      PROVE  MemoryTokenGood'
  BY <1>7 DEF TypeOK, RefreshUnseen, MemoryTokenGood, Rotated, Persist, Goto, cloudVars
<1>8. ASSUME NEW c \in Callers, ReadAccess(c)
      PROVE  MemoryTokenGood'
  BY <1>8 DEF TypeOK, RefreshUnseen, MemoryTokenGood, Rotated, ReadAccess, Goto, cloudVars
<1>9. ASSUME NEW c \in Callers, Request(c)
      PROVE  MemoryTokenGood'
  BY <1>9 DEF TypeOK, RefreshUnseen, MemoryTokenGood, Rotated, Request, Return, Goto, cloudVars
<1>10. ASSUME NEW c \in Callers, RequestFails(c)
      PROVE  MemoryTokenGood'
  BY <1>10 DEF TypeOK, RefreshUnseen, MemoryTokenGood, Rotated, RequestFails, Return, Goto, cloudVars
<1>11. ASSUME NEW c \in Callers, Unauthorized(c)
      PROVE  MemoryTokenGood'
  BY <1>11 DEF TypeOK, RefreshUnseen, MemoryTokenGood, Rotated, Unauthorized, Return, Goto, cloudVars
<1>12. ASSUME NEW c \in Callers, ForceExpiry(c)
      PROVE  MemoryTokenGood'
  BY <1>12 DEF TypeOK, RefreshUnseen, MemoryTokenGood, Rotated, ForceExpiry, Goto, cloudVars
<1>13. ASSUME NEW c \in Callers, Drop(c)
      PROVE  MemoryTokenGood'
  <2>1. CASE lost'
    BY <2>1 DEF MemoryTokenGood
  <2>2. CASE ~lost'
    <3>1. ~lost /\ ~Rotated(c)
      BY <1>13, <2>2 DEF Drop
    <3>2. pc' = [pc EXCEPT ![c] = "idle"] /\ \A d \in Callers \ {c} : Rotated(d)' = Rotated(d)
      BY <1>13 DEF TypeOK, Drop, Return, Goto, Rotated
    <3>3. live' = live /\ tok' = tok /\ stale' = stale /\ \A d \in Callers \ {c} : got'[d] = got[d]
      BY <1>13 DEF TypeOK, Drop, Return, cloudVars
    <3> QED
      BY <3>1, <3>2, <3>3 DEF MemoryTokenGood
  <2> QED
    BY <2>1, <2>2
<1>14. ASSUME Expire
      PROVE  MemoryTokenGood'
  BY <1>14 DEF TypeOK, RefreshUnseen, MemoryTokenGood, Rotated, Expire, callVars, cloudVars
<1>15. ASSUME NEW a \in accepted, Invalidate(a)
      PROVE  MemoryTokenGood'
  BY <1>15 DEF TypeOK, RefreshUnseen, MemoryTokenGood, Rotated, Invalidate, callVars,
     cloudVars
<1>16. ASSUME Restart
      PROVE  MemoryTokenGood'
  BY <1>16 DEF TypeOK, RefreshUnseen, MemoryTokenGood, Rotated, Restart, cloudVars
<1>17. CASE UNCHANGED vars
  BY <1>17 DEF TypeOK, RefreshUnseen, MemoryTokenGood, Rotated, vars, callVars, cloudVars
<1> QED
  BY <1>1, <1>2, <1>3, <1>4, <1>5, <1>6, <1>7, <1>8, <1>9, <1>10, <1>11, <1>12,
     <1>13, <1>14, <1>15, <1>16, <1>17, <1>18 DEF Next, Step

(***************************************************************************)
(* "The in-memory token is still good for the rest of the process          *)
(* lifetime", with any number of calls refreshing at once and whatever the *)
(* token endpoint does with the refresh token, but for the two races that  *)
(* `lost` and `stale` record.                                              *)
(***************************************************************************)
THEOREM MemoryTokenStaysGood == Spec => []MemoryTokenGood
<1>1. Init => RInv
  BY DEF Init, RInv, RefreshUnseen, Rotated, MemoryTokenGood
<1>2. IInv /\ RInv /\ [Next]_vars => RInv'
  BY RefreshUnseenStep, MemoryStep DEF IInv, RInv
<1>3. RInv => MemoryTokenGood
  BY DEF RInv
<1> QED
  BY Invariant, <1>1, <1>2, <1>3, PTL DEF Spec
=============================================================================
