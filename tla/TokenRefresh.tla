---------------------------- MODULE TokenRefresh ----------------------------
(***************************************************************************)
(* AuthClient (providers/gmail/client.rs): the HTTP client of one account, *)
(* shared by every tool call of that account.  send refreshes the access   *)
(* token when it has expired, sends the request, and on 401 forces one     *)
(* refresh and one retry.  The token endpoint may rotate the refresh       *)
(* token; the rotation callback then writes it to the keychain, from which *)
(* hydrate_providers reads it when the daemon starts again.                *)
(*                                                                         *)
(* The tokens mutex is held for one statement at a time, never across an   *)
(* await: each action below is one critical section, one exchange with the *)
(* provider, or the callback.                                              *)
(***************************************************************************)
EXTENDS Naturals, FiniteSets

CONSTANTS
  Callers,   \* tasks that call send, each one call after another
  Answers,   \* what the token endpoint does with the refresh token in an
             \* answer: leave it out, repeat it, or rotate it
  Revokes,   \* whether a rotation makes the token it replaces unusable
  MaxIssued  \* bound: answers the token endpoint gives

ASSUME AnswersKnown == Answers \subseteq {"none", "same", "rotate"}
ASSUME RevokesKnown == Revokes \in BOOLEAN
ASSUME MaxIssuedNat == MaxIssued \in Nat \ {0}

VARIABLES
  tok,       \* AuthClient.tokens: access and refresh token, and whether
             \* expires_at lies ahead
  keychain,  \* the account's refresh token in the OS keychain
  pc,        \* pc[c]: where the send of caller c stands
  old,       \* old[c]: old_refresh_token, what c refreshes with
  got,       \* got[c]: the token endpoint's answer to c
  bearer,    \* bearer[c]: the access token c sends, or sent last
  retried,   \* retried[c]: c is past its 401
  rejected,  \* rejected[c]: the access token that was answered 401
  sent,      \* sent[c]: requests c sent for its current call
  performed, \* performed[c]: how often the mail provider carried them out
  issued,    \* answers of the token endpoint; the n-th one carries access
             \* token n and, when it rotates, refresh token n
  live,      \* refresh tokens the token endpoint accepts
  accepted,  \* access tokens the mail provider accepts
  missed,    \* a rotation may not have reached the keychain: the write failed,
             \* or two calls refreshed at once and wrote in either order
  lost,      \* a rotated token was never stored: its answer was lost on the
             \* way, the call was dropped, or the daemon died before the write
  stale      \* an answer that repeated the refresh token it was asked with has
             \* put that one back over a token stored meanwhile

callVars == <<pc, old, got, bearer, retried, rejected, sent, performed>>
cloudVars == <<issued, live, accepted>>
vars == <<tok, keychain, callVars, cloudVars, missed, lost, stale>>

Token == 0 .. MaxIssued   \* 0: no token, the empty string

TypeOK ==
  /\ tok \in [access : Token, refresh : Token, fresh : BOOLEAN]
  /\ keychain \in Token
  /\ pc \in [Callers -> {"idle", "check", "take", "post", "store", "persist",
                         "bearer", "request", "force"}]
  /\ old \in [Callers -> Token]
  /\ got \in [Callers -> [access : Token, refresh : Token]]
  /\ bearer \in [Callers -> Token]
  /\ retried \in [Callers -> BOOLEAN]
  /\ rejected \in [Callers -> Token]
  /\ sent \in [Callers -> 0 .. 2]
  /\ performed \in [Callers -> 0 .. 2]
  /\ issued \in Token
  /\ live \subseteq Token
  /\ accepted \subseteq Token
  /\ missed \in BOOLEAN
  /\ lost \in BOOLEAN
  /\ stale \in BOOLEAN

-----------------------------------------------------------------------------
\* The account was just added: complete_oauth stored the refresh token and
\* built the client from the same answer.
Init ==
  /\ tok = [access |-> 1, refresh |-> 1, fresh |-> TRUE]
  /\ keychain = 1
  /\ pc = [c \in Callers |-> "idle"]
  /\ old = [c \in Callers |-> 0]
  /\ got = [c \in Callers |-> [access |-> 0, refresh |-> 0]]
  /\ bearer = [c \in Callers |-> 0]
  /\ retried = [c \in Callers |-> FALSE]
  /\ rejected = [c \in Callers |-> 0]
  /\ sent = [c \in Callers |-> 0]
  /\ performed = [c \in Callers |-> 0]
  /\ issued = 1
  /\ live = {1}
  /\ accepted = {1}
  /\ missed = FALSE
  /\ lost = FALSE
  /\ stale = FALSE

Goto(c, label) == pc' = [pc EXCEPT ![c] = label]

\* send returns, or its future is dropped: its locals are gone
Return(c) ==
  /\ Goto(c, "idle")
  /\ old' = [old EXCEPT ![c] = 0]
  /\ got' = [got EXCEPT ![c] = [access |-> 0, refresh |-> 0]]
  /\ bearer' = [bearer EXCEPT ![c] = 0]
  /\ retried' = [retried EXCEPT ![c] = FALSE]
  /\ rejected' = [rejected EXCEPT ![c] = 0]

\* get, post_json, put_json, patch_json or delete calls send
Start(c) ==
  /\ pc[c] = "idle"
  /\ Goto(c, "check")
  /\ sent' = [sent EXCEPT ![c] = 0]
  /\ performed' = [performed EXCEPT ![c] = 0]
  /\ UNCHANGED <<tok, keychain, old, got, bearer, retried, rejected, cloudVars,
                 missed, lost, stale>>

\* ensure_fresh: expires_at <= now?
CheckFresh(c) ==
  /\ pc[c] = "check"
  /\ Goto(c, IF tok.fresh THEN "bearer" ELSE "take")
  /\ UNCHANGED <<tok, keychain, old, got, bearer, retried, rejected, sent,
                 performed, cloudVars, missed, lost, stale>>

\* ensure_fresh: clone the refresh token, under a lock of its own.  Both
\* constructors in the daemon set one and no refresh clears it, so the
\* "no refresh token available" error cannot occur.
TakeRefresh(c) ==
  /\ pc[c] = "take"
  /\ Goto(c, "post")
  /\ old' = [old EXCEPT ![c] = tok.refresh]
  /\ missed' = (missed \/ \E d \in Callers \ {c} : pc[d] \in {"post", "store", "persist"})
  /\ UNCHANGED <<tok, keychain, got, bearer, retried, rejected, sent,
                 performed, cloudVars, lost, stale>>

\* the token endpoint carries out oauth::refresh
Answer(c, answer) ==
  /\ pc[c] = "post"
  /\ old[c] \in live
  /\ issued < MaxIssued
  /\ issued' = issued + 1
  /\ accepted' = accepted \cup {issued'}
  /\ live' = IF answer # "rotate" THEN live
             ELSE (IF Revokes THEN live \ {old[c]} ELSE live) \cup {issued'}

\* oauth::refresh returns the answer
Refresh(c, answer) ==
  /\ Answer(c, answer)
  /\ got' = [got EXCEPT ![c] =
               [access |-> issued',
                refresh |-> CASE answer = "none" -> 0
                              [] answer = "same" -> old[c]
                              [] answer = "rotate" -> issued']]
  /\ Goto(c, "store")
  /\ UNCHANGED <<tok, keychain, old, bearer, retried, rejected, sent,
                 performed, missed, lost, stale>>

\* oauth::refresh fails although it was carried out: the answer does not arrive
RefreshLost(c, answer) ==
  /\ Answer(c, answer)
  /\ Return(c)
  /\ lost' = (lost \/ answer = "rotate")
  /\ UNCHANGED <<tok, keychain, sent, performed, missed, stale>>

\* oauth::refresh fails: no connection, or the token is not accepted
RefreshFails(c) ==
  /\ pc[c] = "post"
  /\ Return(c)
  /\ UNCHANGED <<tok, keychain, sent, performed, cloudVars, missed, lost, stale>>

\* Once c's answer is stored, the client holds a token that an answer put back.
PutBack(c) ==
  CASE got[c].refresh = 0 -> stale
    [] got[c].refresh = old[c] -> stale \/ old[c] # tok.refresh
    [] OTHER -> FALSE

\* Mutant: the answer's refresh token is not kept.
MutantStore(c, fresh) ==
  /\ pc[c] = "store"
  /\ tok' = [access |-> got[c].access, refresh |-> tok.refresh, fresh |-> fresh]
  /\ Goto(c, IF got[c].refresh \in {0, old[c]} THEN "bearer" ELSE "persist")
  /\ UNCHANGED <<keychain, old, got, bearer, retried, rejected, sent,
                 performed, cloudVars, missed, lost, stale>>

\* Mutant: only the first rotation is reported, the token is compared with
\* the one the client was built with.
MutantStoreOriginal(c, fresh) ==
  /\ pc[c] = "store"
  /\ tok' = [access |-> got[c].access,
             refresh |-> IF got[c].refresh = 0 THEN tok.refresh ELSE got[c].refresh,
             fresh |-> fresh]
  /\ stale' = PutBack(c)
  /\ Goto(c, IF got[c].refresh = 0 \/ old[c] # 1 THEN "bearer" ELSE "persist")
  /\ UNCHANGED <<keychain, old, got, bearer, retried, rejected, sent,
                 performed, cloudVars, missed, lost>>

\* ensure_fresh: store the answer.  expires_at is expires_in - 30 seconds
\* ahead, so a short-lived token is stored already expired.  The callback
\* runs after the lock is released, for a token other than the one used.
Store(c, fresh) ==
  /\ pc[c] = "store"
  /\ tok' = [access |-> got[c].access,
             refresh |-> IF got[c].refresh = 0 THEN tok.refresh ELSE got[c].refresh,
             fresh |-> fresh]
  /\ stale' = PutBack(c)
  /\ Goto(c, IF got[c].refresh \in {0, old[c]} THEN "bearer" ELSE "persist")
  /\ UNCHANGED <<keychain, old, got, bearer, retried, rejected, sent,
                 performed, cloudVars, missed, lost>>

\* make_rotation_callback: SecretStore::set, a failure is only logged
Persist(c) ==
  /\ pc[c] = "persist"
  /\ \/ keychain' = got[c].refresh /\ UNCHANGED missed
     \/ missed' = TRUE /\ UNCHANGED keychain
  /\ Goto(c, "bearer")
  /\ UNCHANGED <<tok, old, got, bearer, retried, rejected, sent, performed,
                 cloudVars, lost, stale>>

\* access_token: read it for the request
ReadAccess(c) ==
  /\ pc[c] = "bearer"
  /\ Goto(c, "request")
  /\ bearer' = [bearer EXCEPT ![c] = tok.access]
  /\ UNCHANGED <<tok, keychain, old, got, retried, rejected, sent, performed,
                 cloudVars, missed, lost, stale>>

\* Mutant: an answer that did not arrive is retried like a 401.
MutantRequest(c) ==
  /\ pc[c] = "request"
  /\ bearer[c] \in accepted
  /\ sent' = [sent EXCEPT ![c] = @ + 1]
  /\ performed' = [performed EXCEPT ![c] = @ + 1]
  /\ \/ Return(c)
     \/ ~retried[c] /\ Goto(c, "force") /\ UNCHANGED <<old, got, bearer, retried, rejected>>
  /\ UNCHANGED <<tok, keychain, cloudVars, missed, lost, stale>>

\* send: the provider carries the request out; whether its answer arrives or
\* is lost, send returns
Request(c) ==
  /\ pc[c] = "request"
  /\ bearer[c] \in accepted
  /\ sent' = [sent EXCEPT ![c] = @ + 1]
  /\ performed' = [performed EXCEPT ![c] = @ + 1]
  /\ Return(c)
  /\ UNCHANGED <<tok, keychain, cloudVars, missed, lost, stale>>

\* send: the request never reaches the provider
RequestFails(c) ==
  /\ pc[c] = "request"
  /\ Return(c)
  /\ sent' = [sent EXCEPT ![c] = @ + 1]
  /\ UNCHANGED <<tok, keychain, performed, cloudVars, missed, lost, stale>>

\* send: 401.  The first time it is forced and retried, the second time it
\* is what the caller gets.
Unauthorized(c) ==
  /\ pc[c] = "request"
  /\ bearer[c] \notin accepted
  /\ sent' = [sent EXCEPT ![c] = @ + 1]
  /\ IF retried[c] THEN Return(c)
     ELSE /\ Goto(c, "force")
          /\ rejected' = [rejected EXCEPT ![c] = bearer[c]]
          /\ UNCHANGED <<old, got, bearer, retried>>
  /\ UNCHANGED <<tok, keychain, performed, cloudVars, missed, lost, stale>>

\* Mutant: the token is refreshed only when it is about to expire anyway.
MutantForceExpiry(c) ==
  /\ pc[c] = "force"
  /\ retried' = [retried EXCEPT ![c] = TRUE]
  /\ Goto(c, "check")
  /\ UNCHANGED <<tok, keychain, old, got, bearer, rejected, sent, performed,
                 cloudVars, missed, lost, stale>>

\* send, after 401: put expires_at in the past, then once more from the top
ForceExpiry(c) ==
  /\ pc[c] = "force"
  /\ tok' = [tok EXCEPT !.fresh = FALSE]
  /\ retried' = [retried EXCEPT ![c] = TRUE]
  /\ Goto(c, "check")
  /\ UNCHANGED <<keychain, old, got, bearer, rejected, sent, performed,
                 cloudVars, missed, lost, stale>>

\* The answer call c is about to store carries a new refresh token.
Rotated(c) == pc[c] = "store" /\ got[c].refresh \notin {0, old[c]}

\* The MCP client leaves and the call's future is dropped at the await where
\* it stands.  Store and Persist have no await between them.
Drop(c) ==
  /\ pc[c] \in {"check", "take", "post", "store", "bearer", "request", "force"}
  /\ Return(c)
  /\ lost' = (lost \/ Rotated(c))
  /\ UNCHANGED <<tok, keychain, sent, performed, cloudVars, missed, stale>>

\* expires_at passes
Expire ==
  /\ tok.fresh
  /\ tok' = [tok EXCEPT !.fresh = FALSE]
  /\ UNCHANGED <<keychain, callVars, cloudVars, missed, lost, stale>>

\* the mail provider stops accepting an access token
Invalidate(a) ==
  /\ accepted' = accepted \ {a}
  /\ UNCHANGED <<tok, keychain, callVars, issued, live, missed, lost, stale>>

\* The daemon dies with whatever its calls were doing and starts again:
\* hydrate_providers builds the client from the keychain, with no access token.
Restart ==
  /\ tok' = [access |-> 0, refresh |-> keychain, fresh |-> FALSE]
  /\ pc' = [c \in Callers |-> "idle"]
  /\ old' = [c \in Callers |-> 0]
  /\ got' = [c \in Callers |-> [access |-> 0, refresh |-> 0]]
  /\ bearer' = [c \in Callers |-> 0]
  /\ retried' = [c \in Callers |-> FALSE]
  /\ rejected' = [c \in Callers |-> 0]
  /\ lost' = (lost \/ keychain \notin live)
  /\ stale' = FALSE
  /\ UNCHANGED <<keychain, sent, performed, cloudVars, missed>>

Step(c) ==
  \/ CheckFresh(c) \/ TakeRefresh(c)
  \/ \E answer \in Answers : Refresh(c, answer) \/ RefreshLost(c, answer)
  \/ RefreshFails(c)
  \/ \E fresh \in BOOLEAN : Store(c, fresh)
  \/ Persist(c) \/ ReadAccess(c) \/ Request(c) \/ RequestFails(c)
  \/ Unauthorized(c) \/ ForceExpiry(c)

Next ==
  \/ \E c \in Callers : Start(c) \/ Step(c) \/ Drop(c)
  \/ Expire
  \/ \E a \in accepted : Invalidate(a)
  \/ Restart

Spec == Init /\ [][Next]_vars

-----------------------------------------------------------------------------
(* Properties. *)

(***************************************************************************)
(* send is used for sending mail: however many calls refresh, expire and   *)
(* retry around it, the provider carries a call's request out at most      *)
(* once, and send makes at most two requests.                              *)
(***************************************************************************)
AtMostOnce == \A c \in Callers : performed[c] <= 1 /\ sent[c] <= 2

(***************************************************************************)
(* A request never goes out with the empty access token a restarted daemon *)
(* starts from, and the retry after a 401 never repeats the token that was *)
(* rejected, although other calls store tokens between the forced expiry   *)
(* and the retry.                                                          *)
(***************************************************************************)
BearerUsable ==
  \A c \in Callers : pc[c] = "request" =>
    /\ bearer[c] # 0
    /\ retried[c] => bearer[c] # rejected[c]

(***************************************************************************)
(* ipc_handler.rs, make_rotation_callback: "the in-memory token is still   *)
(* good for the rest of the process lifetime".  The refresh token the      *)
(* client holds is one the provider accepts, or a call is about to store   *)
(* one, but for two races of ensure_fresh: a rotated token that never      *)
(* reached the client, and an answer that repeats the token it was asked   *)
(* with (client.rs:142), stored after another call's rotation: it puts the *)
(* revoked token back, and only a call that took the good one before, or a *)
(* restart, mends that.                                                    *)
(***************************************************************************)
MemoryTokenGood ==
  \/ lost \/ stale
  \/ tok.refresh \in live
  \/ \E c \in Callers : Rotated(c) /\ got[c].refresh \in live

(***************************************************************************)
(* client.rs, RefreshRotationCallback: the callback "runs while the        *)
(* AuthClient holds its tokens lock".  It does not, but as long as no two  *)
(* calls refresh at once and no write fails, the keychain holds the token  *)
(* the client uses whenever every call has returned, also after calls that *)
(* were dropped and restarts.                                              *)
(***************************************************************************)
KeychainCurrent ==
  (\A c \in Callers : pc[c] = "idle") /\ ~missed => keychain = tok.refresh
=============================================================================
