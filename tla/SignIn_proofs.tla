--------------------------- MODULE SignIn_proofs ----------------------------
(***************************************************************************)
(* Proofs about AccountLifecycle, for any number of accounts and           *)
(* connections, and about SignIn, which implements it, for any number of   *)
(* peers of the listener.                                                  *)
(***************************************************************************)
EXTENDS SignIn, SequenceTheorems, TLAPS

\* Connection k is adding x, at one of the steps ops of complete_oauth.
InAdd(k, ops, x) == req[k] # Idle /\ req[k].op \in ops /\ req[k].id = x

\* Nobody has created the row of x yet.
Untouched(x) == x \notin row /\ x \notin deleted

\* A challenge nobody has taken is nobody's account.
Challenges ==
  /\ \A x \in pending : flow[x] # "none"
  /\ \A x \in Flows : flow[x] = "none" \/ x \in pending =>
       Untouched(x) /\ \A k \in Conns : ~InAdd(k, Adding, x)

\* One connection adds an account, and finds what its steps have done unless
\* someone has deleted the row since.
AddInOrder ==
  \A k \in Conns, x \in Flows :
    /\ InAdd(k, Adding, x) => \A j \in Conns : InAdd(j, Adding, x) => j = k
    /\ InAdd(k, {"join", "create"}, x) => Untouched(x)
    /\ InAdd(k, {"defaults"}, x) => x \in row \cup deleted
    /\ InAdd(k, {"secret"}, x) => x \in perms \cup deleted
    /\ InAdd(k, {"register"}, x) => x \in (perms \cap secret) \cup deleted
    /\ InAdd(k, {"get"}, x) => x \in (perms \cap secret \cap providers) \cup deleted

\* A deleted row does not come back; whoever still adds the account makes it
\* an overlap.
Deletion ==
  /\ row \cap deleted = {}
  /\ removed \subseteq deleted
  /\ \A k \in Conns : req[k] # Idle /\ req[k].op \in Removing => req[k].id \in deleted
  /\ \A x \in deleted \ overlapped : \A k \in Conns : ~InAdd(k, Adding, x)

Promises == ReportedIsUsable /\ RemovedUnreachable /\ ServedSurvivesRestart

AInv == TypeOK /\ Challenges /\ AddInOrder /\ Deletion /\ Promises

------------------------------------------------------------------------------
\* While the listener is open no code has been captured, and who has been
\* answered, or captured, has said all it will say.
Listening ==
  /\ pc \in {"loop", "accept", "read"} => captured = Task!None
  /\ pc = "read" => cur \in Peers
  /\ \A p \in Peers : answered[p] # Task!None \/ captured = p => link[p] = "sent"

\* The flow succeeds only with the task, and only then is anything stored.
Succeeded == pc \in {"tokens", "no_refresh"}

Stored ==
  /\ \A x \in Flows : flow[x] \in {"tokens", "no_refresh"} => Succeeded
  /\ \A k \in Conns, x \in Flows : InAdd(k, Adding \ {"join"}, x) => Succeeded
  /\ row \cup secret \cup providers \cup inflight # {} => Succeeded

TInv == Task!TypeOK /\ Listening /\ Task!CallbackGenuine /\ Stored

------------------------------------------------------------------------------
\* The invariant holds at the start.
LEMMA InitAInv == Init => AInv
<1> SUFFICES ASSUME Init PROVE AInv
  OBVIOUS
<1>1. TypeOK
  BY DEF Init, TypeOK
<1>2. Challenges /\ AddInOrder /\ Deletion
  BY DEF Init, Challenges, AddInOrder, Deletion, Untouched, InAdd
<1>3. Promises
  BY DEF Init, Promises, ReportedIsUsable, RemovedUnreachable, ServedSurvivesRestart
<1> QED
  BY <1>1, <1>2, <1>3 DEF AInv

\* Every step keeps the types.
LEMMA TypeStep == TypeOK /\ [Next]_vars => TypeOK'
<1> SUFFICES ASSUME TypeOK, [Next]_vars PROVE TypeOK'
  OBVIOUS
<1>1. ASSUME NEW k \in Conns, NEW x \in Flows, AddOauth(k, x)
      PROVE  TypeOK'
  BY <1>1 DEF TypeOK, Idle, Adding, Removing, AddOauth, storeVars, pastVars
<1>2. ASSUME NEW k \in Conns, NEW x \in Flows, TakeChallenge(k, x)
      PROVE  TypeOK'
  BY <1>2 DEF TypeOK, Idle, Adding, Removing, TakeChallenge, Continue, storeVars,
     pastVars
<1>3. ASSUME NEW k \in Conns, NEW x \in Flows, Cancel(k, x)
      PROVE  TypeOK'
  BY <1>3 DEF TypeOK, Idle, Adding, Removing, Cancel, storeVars
<1>4. ASSUME NEW k \in Conns, NEW x \in Flows, DeleteRow(k, x)
      PROVE  TypeOK'
  BY <1>4 DEF TypeOK, Idle, Adding, Removing, DeleteRow, Continue
<1>5. ASSUME NEW k \in Conns, NEW x \in Flows, Join(k, x)
      PROVE  TypeOK'
  BY <1>5 DEF TypeOK, Idle, Adding, Removing, Join, At, Continue, Finish,
     storeVars, pastVars
<1>6. ASSUME NEW k \in Conns, NEW x \in Flows, CreateRow(k, x)
      PROVE  TypeOK'
  BY <1>6 DEF TypeOK, Idle, Adding, Removing, CreateRow, At, Continue, Finish,
     pastVars
<1>7. ASSUME NEW k \in Conns, NEW x \in Flows, InstallDefaults(k, x)
      PROVE  TypeOK'
  BY <1>7 DEF TypeOK, Idle, Adding, Removing, InstallDefaults, At, Continue,
     Finish, pastVars
<1>8. ASSUME NEW k \in Conns, NEW x \in Flows, SetSecret(k, x)
      PROVE  TypeOK'
  BY <1>8 DEF TypeOK, Idle, Adding, Removing, SetSecret, At, Continue, Finish,
     pastVars
<1>9. ASSUME NEW k \in Conns, NEW x \in Flows, Register(k, x)
      PROVE  TypeOK'
  BY <1>9 DEF TypeOK, Idle, Adding, Removing, Register, At, Continue, pastVars
<1>10. ASSUME NEW k \in Conns, NEW x \in Flows, GetAccount(k, x)
      PROVE  TypeOK'
  BY <1>10 DEF TypeOK, Idle, Adding, Removing, GetAccount, At, Finish, storeVars
<1>11. ASSUME NEW k \in Conns, NEW x \in Flows, Purge(k, x)
      PROVE  TypeOK'
  BY <1>11 DEF TypeOK, Idle, Adding, Removing, Purge, At, Continue
<1>12. ASSUME NEW k \in Conns, NEW x \in Flows, DropProvider(k, x)
      PROVE  TypeOK'
  BY <1>12 DEF TypeOK, Idle, Adding, Removing, DropProvider, At, Finish
<1>13. ASSUME NEW k \in Conns, NEW b \in BOOLEAN, SetOnboarding(k, b)
      PROVE  TypeOK'
  BY <1>13 DEF TypeOK, Idle, Adding, Removing, SetOnboarding, storeVars, pastVars
<1>14. ASSUME NEW x \in Flows, BeginRefresh(x)
      PROVE  TypeOK'
  BY <1>14 DEF TypeOK, Idle, Adding, Removing, BeginRefresh, storeVars
<1>15. ASSUME NEW x \in Flows, EndRefresh(x)
      PROVE  TypeOK'
  BY <1>15 DEF TypeOK, Idle, Adding, Removing, EndRefresh, pastVars
<1>16. ASSUME Crash
      PROVE  TypeOK'
  BY <1>16 DEF TypeOK, Idle, Adding, Removing, Crash, pastVars
<1>17. ASSUME Hydrate
      PROVE  TypeOK'
  BY <1>17 DEF TypeOK, Idle, Adding, Removing, Hydrate, pastVars
<1>18. ASSUME NEW x \in Flows, NEW result \in {"tokens", "no_refresh", "failed"},
             FlowEnds(x, result)
      PROVE  TypeOK'
  BY <1>18 DEF TypeOK, Idle, Adding, Removing, FlowEnds, storeVars, pastVars
<1>19. CASE UNCHANGED vars
  BY <1>19 DEF TypeOK, Idle, Adding, Removing, vars, storeVars, pastVars
<1> QED
  BY <1>1, <1>2, <1>3, <1>4, <1>5, <1>6, <1>7, <1>8, <1>9, <1>10, <1>11, <1>12,
     <1>13, <1>14, <1>15, <1>16, <1>17, <1>18, <1>19 DEF Next, Handlers, Step,
     HydrateFails

\* A challenge is taken once.
LEMMA ChallengesStep ==
  TypeOK /\ Challenges /\ AddInOrder /\ [Next]_vars => Challenges'
<1> SUFFICES ASSUME TypeOK, Challenges, AddInOrder, [Next]_vars PROVE Challenges'
  OBVIOUS
<1>1. ASSUME NEW k \in Conns, NEW x \in Flows, AddOauth(k, x)
      PROVE  Challenges'
  BY <1>1 DEF TypeOK, Idle, Adding, Removing, Challenges, AddInOrder, Untouched,
     InAdd, AddOauth, storeVars, pastVars
<1>2. ASSUME NEW k \in Conns, NEW x \in Flows, TakeChallenge(k, x)
      PROVE  Challenges'
  <2>1. \A y \in Flows, j \in Conns : InAdd(j, Adding, y)' => InAdd(j, Adding, y) \/ y = x
    BY <1>2 DEF TypeOK, Idle, Adding, Removing, InAdd, TakeChallenge, Continue
  <2>2. flow[x] # "none"
    BY <1>2 DEF TypeOK, Challenges, TakeChallenge
  <2> QED
    BY <1>2, <2>1, <2>2 DEF TypeOK, Challenges, Untouched, TakeChallenge,
       storeVars, pastVars
<1>3. ASSUME NEW k \in Conns, NEW x \in Flows, Cancel(k, x)
      PROVE  Challenges'
  BY <1>3 DEF TypeOK, Idle, Adding, Removing, Challenges, AddInOrder, Untouched,
     InAdd, Cancel, storeVars
<1>4. ASSUME NEW k \in Conns, NEW x \in Flows, DeleteRow(k, x)
      PROVE  Challenges'
  BY <1>4 DEF TypeOK, Idle, Adding, Removing, Challenges, AddInOrder, Untouched,
     InAdd, DeleteRow, Continue
<1>5. ASSUME NEW k \in Conns, NEW x \in Flows, Join(k, x)
      PROVE  Challenges'
  BY <1>5 DEF TypeOK, Idle, Adding, Removing, Challenges, AddInOrder, Untouched,
     InAdd, Join, At, Continue, Finish, storeVars, pastVars
<1>6. ASSUME NEW k \in Conns, NEW x \in Flows, CreateRow(k, x)
      PROVE  Challenges'
  BY <1>6 DEF TypeOK, Idle, Adding, Removing, Challenges, AddInOrder, Untouched,
     InAdd, CreateRow, At, Continue, Finish, pastVars
<1>7. ASSUME NEW k \in Conns, NEW x \in Flows, InstallDefaults(k, x)
      PROVE  Challenges'
  BY <1>7 DEF TypeOK, Idle, Adding, Removing, Challenges, AddInOrder, Untouched,
     InAdd, InstallDefaults, At, Continue, Finish, pastVars
<1>8. ASSUME NEW k \in Conns, NEW x \in Flows, SetSecret(k, x)
      PROVE  Challenges'
  BY <1>8 DEF TypeOK, Idle, Adding, Removing, Challenges, AddInOrder, Untouched,
     InAdd, SetSecret, At, Continue, Finish, pastVars
<1>9. ASSUME NEW k \in Conns, NEW x \in Flows, Register(k, x)
      PROVE  Challenges'
  BY <1>9 DEF TypeOK, Idle, Adding, Removing, Challenges, AddInOrder, Untouched,
     InAdd, Register, At, Continue, pastVars
<1>10. ASSUME NEW k \in Conns, NEW x \in Flows, GetAccount(k, x)
      PROVE  Challenges'
  BY <1>10 DEF TypeOK, Idle, Adding, Removing, Challenges, AddInOrder, Untouched,
     InAdd, GetAccount, At, Finish, storeVars
<1>11. ASSUME NEW k \in Conns, NEW x \in Flows, Purge(k, x)
      PROVE  Challenges'
  BY <1>11 DEF TypeOK, Idle, Adding, Removing, Challenges, AddInOrder, Untouched,
     InAdd, Purge, At, Continue
<1>12. ASSUME NEW k \in Conns, NEW x \in Flows, DropProvider(k, x)
      PROVE  Challenges'
  BY <1>12 DEF TypeOK, Idle, Adding, Removing, Challenges, AddInOrder, Untouched,
     InAdd, DropProvider, At, Finish
<1>13. ASSUME NEW k \in Conns, NEW b \in BOOLEAN, SetOnboarding(k, b)
      PROVE  Challenges'
  BY <1>13 DEF TypeOK, Idle, Adding, Removing, Challenges, AddInOrder, Untouched,
     InAdd, SetOnboarding, storeVars, pastVars
<1>14. ASSUME NEW x \in Flows, BeginRefresh(x)
      PROVE  Challenges'
  BY <1>14 DEF TypeOK, Idle, Adding, Removing, Challenges, AddInOrder, Untouched,
     InAdd, BeginRefresh, storeVars
<1>15. ASSUME NEW x \in Flows, EndRefresh(x)
      PROVE  Challenges'
  BY <1>15 DEF TypeOK, Idle, Adding, Removing, Challenges, AddInOrder, Untouched,
     InAdd, EndRefresh, pastVars
<1>16. ASSUME Crash
      PROVE  Challenges'
  BY <1>16 DEF TypeOK, Idle, Adding, Removing, Challenges, AddInOrder, Untouched,
     InAdd, Crash, pastVars
<1>17. ASSUME Hydrate
      PROVE  Challenges'
  BY <1>17 DEF TypeOK, Idle, Adding, Removing, Challenges, AddInOrder, Untouched,
     InAdd, Hydrate, pastVars
<1>18. ASSUME NEW x \in Flows, NEW result \in {"tokens", "no_refresh", "failed"},
             FlowEnds(x, result)
      PROVE  Challenges'
  BY <1>18 DEF TypeOK, Idle, Adding, Removing, Challenges, AddInOrder, Untouched,
     InAdd, FlowEnds, storeVars, pastVars
<1>19. CASE UNCHANGED vars
  BY <1>19 DEF TypeOK, Idle, Adding, Removing, Challenges, AddInOrder, Untouched,
     InAdd, vars, storeVars, pastVars
<1> QED
  BY <1>1, <1>2, <1>3, <1>4, <1>5, <1>6, <1>7, <1>8, <1>9, <1>10, <1>11, <1>12,
     <1>13, <1>14, <1>15, <1>16, <1>17, <1>18, <1>19 DEF Next, Handlers, Step,
     HydrateFails

\* Adding goes on in order.
LEMMA AddInOrderStep ==
  TypeOK /\ Challenges /\ AddInOrder /\ Deletion /\ [Next]_vars => AddInOrder'
<1> SUFFICES ASSUME TypeOK, Challenges, AddInOrder, Deletion, [Next]_vars
             PROVE  AddInOrder'
  OBVIOUS
<1>1. ASSUME NEW k \in Conns, NEW x \in Flows, AddOauth(k, x)
      PROVE  AddInOrder'
  BY <1>1 DEF TypeOK, Idle, Adding, Removing, Challenges, AddInOrder, Deletion,
     Untouched, InAdd, AddOauth, storeVars, pastVars
<1>2. ASSUME NEW k \in Conns, NEW x \in Flows, TakeChallenge(k, x)
      PROVE  AddInOrder'
  BY <1>2 DEF TypeOK, Idle, Adding, Removing, Challenges, AddInOrder, Deletion,
     Untouched, InAdd, TakeChallenge, Continue, storeVars, pastVars
<1>3. ASSUME NEW k \in Conns, NEW x \in Flows, Cancel(k, x)
      PROVE  AddInOrder'
  BY <1>3 DEF TypeOK, Idle, Adding, Removing, Challenges, AddInOrder, Deletion,
     Untouched, InAdd, Cancel, storeVars
<1>4. ASSUME NEW k \in Conns, NEW x \in Flows, DeleteRow(k, x)
      PROVE  AddInOrder'
  BY <1>4 DEF TypeOK, Idle, Adding, Removing, Challenges, AddInOrder, Deletion,
     Untouched, InAdd, DeleteRow, Continue
<1>5. ASSUME NEW k \in Conns, NEW x \in Flows, Join(k, x)
      PROVE  AddInOrder'
  BY <1>5 DEF TypeOK, Idle, Adding, Removing, Challenges, AddInOrder, Deletion,
     Untouched, InAdd, Join, At, Continue, Finish, storeVars, pastVars
<1>6. ASSUME NEW k \in Conns, NEW x \in Flows, CreateRow(k, x)
      PROVE  AddInOrder'
  BY <1>6 DEF TypeOK, Idle, Adding, Removing, Challenges, AddInOrder, Deletion,
     Untouched, InAdd, CreateRow, At, Continue, Finish, pastVars
<1>7. ASSUME NEW k \in Conns, NEW x \in Flows, InstallDefaults(k, x)
      PROVE  AddInOrder'
  BY <1>7 DEF TypeOK, Idle, Adding, Removing, Challenges, AddInOrder, Deletion,
     Untouched, InAdd, InstallDefaults, At, Continue, Finish, pastVars
<1>8. ASSUME NEW k \in Conns, NEW x \in Flows, SetSecret(k, x)
      PROVE  AddInOrder'
  BY <1>8 DEF TypeOK, Idle, Adding, Removing, Challenges, AddInOrder, Deletion,
     Untouched, InAdd, SetSecret, At, Continue, Finish, pastVars
<1>9. ASSUME NEW k \in Conns, NEW x \in Flows, Register(k, x)
      PROVE  AddInOrder'
  BY <1>9 DEF TypeOK, Idle, Adding, Removing, Challenges, AddInOrder, Deletion,
     Untouched, InAdd, Register, At, Continue, pastVars
<1>10. ASSUME NEW k \in Conns, NEW x \in Flows, GetAccount(k, x)
      PROVE  AddInOrder'
  BY <1>10 DEF TypeOK, Idle, Adding, Removing, Challenges, AddInOrder, Deletion,
     Untouched, InAdd, GetAccount, At, Finish, storeVars
<1>11. ASSUME NEW k \in Conns, NEW x \in Flows, Purge(k, x)
      PROVE  AddInOrder'
  BY <1>11 DEF TypeOK, Idle, Adding, Removing, Challenges, AddInOrder, Deletion,
     Untouched, InAdd, Purge, At, Continue
<1>12. ASSUME NEW k \in Conns, NEW x \in Flows, DropProvider(k, x)
      PROVE  AddInOrder'
  BY <1>12 DEF TypeOK, Idle, Adding, Removing, Challenges, AddInOrder, Deletion,
     Untouched, InAdd, DropProvider, At, Finish
<1>13. ASSUME NEW k \in Conns, NEW b \in BOOLEAN, SetOnboarding(k, b)
      PROVE  AddInOrder'
  BY <1>13 DEF TypeOK, Idle, Adding, Removing, Challenges, AddInOrder, Deletion,
     Untouched, InAdd, SetOnboarding, storeVars, pastVars
<1>14. ASSUME NEW x \in Flows, BeginRefresh(x)
      PROVE  AddInOrder'
  BY <1>14 DEF TypeOK, Idle, Adding, Removing, Challenges, AddInOrder, Deletion,
     Untouched, InAdd, BeginRefresh, storeVars
<1>15. ASSUME NEW x \in Flows, EndRefresh(x)
      PROVE  AddInOrder'
  BY <1>15 DEF TypeOK, Idle, Adding, Removing, Challenges, AddInOrder, Deletion,
     Untouched, InAdd, EndRefresh, pastVars
<1>16. ASSUME Crash
      PROVE  AddInOrder'
  BY <1>16 DEF TypeOK, Idle, Adding, Removing, Challenges, AddInOrder, Deletion,
     Untouched, InAdd, Crash, pastVars
<1>17. ASSUME Hydrate
      PROVE  AddInOrder'
  BY <1>17 DEF TypeOK, Idle, Adding, Removing, Challenges, AddInOrder, Deletion,
     Untouched, InAdd, Hydrate, pastVars
<1>18. ASSUME NEW x \in Flows, NEW result \in {"tokens", "no_refresh", "failed"},
             FlowEnds(x, result)
      PROVE  AddInOrder'
  BY <1>18 DEF TypeOK, Idle, Adding, Removing, Challenges, AddInOrder, Deletion,
     Untouched, InAdd, FlowEnds, storeVars, pastVars
<1>19. CASE UNCHANGED vars
  BY <1>19 DEF TypeOK, Idle, Adding, Removing, Challenges, AddInOrder, Deletion,
     Untouched, InAdd, vars, storeVars, pastVars
<1> QED
  BY <1>1, <1>2, <1>3, <1>4, <1>5, <1>6, <1>7, <1>8, <1>9, <1>10, <1>11, <1>12,
     <1>13, <1>14, <1>15, <1>16, <1>17, <1>18, <1>19 DEF Next, Handlers, Step,
     HydrateFails

\* A deleted row stays deleted.
LEMMA DeletionStep ==
  TypeOK /\ Challenges /\ AddInOrder /\ Deletion /\ [Next]_vars => Deletion'
<1> SUFFICES ASSUME TypeOK, Challenges, AddInOrder, Deletion, [Next]_vars
             PROVE  Deletion'
  OBVIOUS
<1>1. ASSUME NEW k \in Conns, NEW x \in Flows, AddOauth(k, x)
      PROVE  Deletion'
  BY <1>1 DEF TypeOK, Idle, Adding, Removing, Challenges, AddInOrder, Deletion,
     Untouched, InAdd, AddOauth, storeVars, pastVars
<1>2. ASSUME NEW k \in Conns, NEW x \in Flows, TakeChallenge(k, x)
      PROVE  Deletion'
  BY <1>2 DEF TypeOK, Idle, Adding, Removing, Challenges, AddInOrder, Deletion,
     Untouched, InAdd, TakeChallenge, Continue, storeVars, pastVars
<1>3. ASSUME NEW k \in Conns, NEW x \in Flows, Cancel(k, x)
      PROVE  Deletion'
  BY <1>3 DEF TypeOK, Idle, Adding, Removing, Challenges, AddInOrder, Deletion,
     Untouched, InAdd, Cancel, storeVars
<1>4. ASSUME NEW k \in Conns, NEW x \in Flows, DeleteRow(k, x)
      PROVE  Deletion'
  BY <1>4 DEF TypeOK, Idle, Adding, Removing, Challenges, AddInOrder, Deletion,
     Untouched, InAdd, DeleteRow, Continue
<1>5. ASSUME NEW k \in Conns, NEW x \in Flows, Join(k, x)
      PROVE  Deletion'
  BY <1>5 DEF TypeOK, Idle, Adding, Removing, Challenges, AddInOrder, Deletion,
     Untouched, InAdd, Join, At, Continue, Finish, storeVars, pastVars
<1>6. ASSUME NEW k \in Conns, NEW x \in Flows, CreateRow(k, x)
      PROVE  Deletion'
  BY <1>6 DEF TypeOK, Idle, Adding, Removing, Challenges, AddInOrder, Deletion,
     Untouched, InAdd, CreateRow, At, Continue, Finish, pastVars
<1>7. ASSUME NEW k \in Conns, NEW x \in Flows, InstallDefaults(k, x)
      PROVE  Deletion'
  BY <1>7 DEF TypeOK, Idle, Adding, Removing, Challenges, AddInOrder, Deletion,
     Untouched, InAdd, InstallDefaults, At, Continue, Finish, pastVars
<1>8. ASSUME NEW k \in Conns, NEW x \in Flows, SetSecret(k, x)
      PROVE  Deletion'
  BY <1>8 DEF TypeOK, Idle, Adding, Removing, Challenges, AddInOrder, Deletion,
     Untouched, InAdd, SetSecret, At, Continue, Finish, pastVars
<1>9. ASSUME NEW k \in Conns, NEW x \in Flows, Register(k, x)
      PROVE  Deletion'
  BY <1>9 DEF TypeOK, Idle, Adding, Removing, Challenges, AddInOrder, Deletion,
     Untouched, InAdd, Register, At, Continue, pastVars
<1>10. ASSUME NEW k \in Conns, NEW x \in Flows, GetAccount(k, x)
      PROVE  Deletion'
  BY <1>10 DEF TypeOK, Idle, Adding, Removing, Challenges, AddInOrder, Deletion,
     Untouched, InAdd, GetAccount, At, Finish, storeVars
<1>11. ASSUME NEW k \in Conns, NEW x \in Flows, Purge(k, x)
      PROVE  Deletion'
  BY <1>11 DEF TypeOK, Idle, Adding, Removing, Challenges, AddInOrder, Deletion,
     Untouched, InAdd, Purge, At, Continue
<1>12. ASSUME NEW k \in Conns, NEW x \in Flows, DropProvider(k, x)
      PROVE  Deletion'
  BY <1>12 DEF TypeOK, Idle, Adding, Removing, Challenges, AddInOrder, Deletion,
     Untouched, InAdd, DropProvider, At, Finish
<1>13. ASSUME NEW k \in Conns, NEW b \in BOOLEAN, SetOnboarding(k, b)
      PROVE  Deletion'
  BY <1>13 DEF TypeOK, Idle, Adding, Removing, Challenges, AddInOrder, Deletion,
     Untouched, InAdd, SetOnboarding, storeVars, pastVars
<1>14. ASSUME NEW x \in Flows, BeginRefresh(x)
      PROVE  Deletion'
  BY <1>14 DEF TypeOK, Idle, Adding, Removing, Challenges, AddInOrder, Deletion,
     Untouched, InAdd, BeginRefresh, storeVars
<1>15. ASSUME NEW x \in Flows, EndRefresh(x)
      PROVE  Deletion'
  BY <1>15 DEF TypeOK, Idle, Adding, Removing, Challenges, AddInOrder, Deletion,
     Untouched, InAdd, EndRefresh, pastVars
<1>16. ASSUME Crash
      PROVE  Deletion'
  BY <1>16 DEF TypeOK, Idle, Adding, Removing, Challenges, AddInOrder, Deletion,
     Untouched, InAdd, Crash, pastVars
<1>17. ASSUME Hydrate
      PROVE  Deletion'
  BY <1>17 DEF TypeOK, Idle, Adding, Removing, Challenges, AddInOrder, Deletion,
     Untouched, InAdd, Hydrate, pastVars
<1>18. ASSUME NEW x \in Flows, NEW result \in {"tokens", "no_refresh", "failed"},
             FlowEnds(x, result)
      PROVE  Deletion'
  BY <1>18 DEF TypeOK, Idle, Adding, Removing, Challenges, AddInOrder, Deletion,
     Untouched, InAdd, FlowEnds, storeVars, pastVars
<1>19. CASE UNCHANGED vars
  BY <1>19 DEF TypeOK, Idle, Adding, Removing, Challenges, AddInOrder, Deletion,
     Untouched, InAdd, vars, storeVars, pastVars
<1> QED
  BY <1>1, <1>2, <1>3, <1>4, <1>5, <1>6, <1>7, <1>8, <1>9, <1>10, <1>11, <1>12,
     <1>13, <1>14, <1>15, <1>16, <1>17, <1>18, <1>19 DEF Next, Handlers, Step,
     HydrateFails

\* Every step keeps the promises.
LEMMA PromisesStep ==
  TypeOK /\ AddInOrder /\ Deletion /\ Promises /\ [Next]_vars => Promises'
<1> SUFFICES ASSUME TypeOK, AddInOrder, Deletion, Promises, [Next]_vars
             PROVE  Promises'
  OBVIOUS
<1>1. ASSUME NEW k \in Conns, NEW x \in Flows, AddOauth(k, x)
      PROVE  Promises'
  BY <1>1 DEF TypeOK, Idle, Adding, Removing, AddInOrder, Deletion, Promises,
     ReportedIsUsable, RemovedUnreachable, ServedSurvivesRestart, Untouched, InAdd,
     AddOauth, storeVars, pastVars
<1>2. ASSUME NEW k \in Conns, NEW x \in Flows, TakeChallenge(k, x)
      PROVE  Promises'
  BY <1>2 DEF TypeOK, Idle, Adding, Removing, AddInOrder, Deletion, Promises,
     ReportedIsUsable, RemovedUnreachable, ServedSurvivesRestart, Untouched, InAdd,
     TakeChallenge, Continue, storeVars, pastVars
<1>3. ASSUME NEW k \in Conns, NEW x \in Flows, Cancel(k, x)
      PROVE  Promises'
  BY <1>3 DEF TypeOK, Idle, Adding, Removing, AddInOrder, Deletion, Promises,
     ReportedIsUsable, RemovedUnreachable, ServedSurvivesRestart, Untouched, InAdd,
     Cancel, storeVars
<1>4. ASSUME NEW k \in Conns, NEW x \in Flows, DeleteRow(k, x)
      PROVE  Promises'
  BY <1>4 DEF TypeOK, Idle, Adding, Removing, AddInOrder, Deletion, Promises,
     ReportedIsUsable, RemovedUnreachable, ServedSurvivesRestart, Untouched, InAdd,
     DeleteRow, Continue
<1>5. ASSUME NEW k \in Conns, NEW x \in Flows, Join(k, x)
      PROVE  Promises'
  BY <1>5 DEF TypeOK, Idle, Adding, Removing, AddInOrder, Deletion, Promises,
     ReportedIsUsable, RemovedUnreachable, ServedSurvivesRestart, Untouched, InAdd,
     Join, At, Continue, Finish, storeVars, pastVars
<1>6. ASSUME NEW k \in Conns, NEW x \in Flows, CreateRow(k, x)
      PROVE  Promises'
  BY <1>6 DEF TypeOK, Idle, Adding, Removing, AddInOrder, Deletion, Promises,
     ReportedIsUsable, RemovedUnreachable, ServedSurvivesRestart, Untouched, InAdd,
     CreateRow, At, Continue, Finish, pastVars
<1>7. ASSUME NEW k \in Conns, NEW x \in Flows, InstallDefaults(k, x)
      PROVE  Promises'
  BY <1>7 DEF TypeOK, Idle, Adding, Removing, AddInOrder, Deletion, Promises,
     ReportedIsUsable, RemovedUnreachable, ServedSurvivesRestart, Untouched, InAdd,
     InstallDefaults, At, Continue, Finish, pastVars
<1>8. ASSUME NEW k \in Conns, NEW x \in Flows, SetSecret(k, x)
      PROVE  Promises'
  BY <1>8 DEF TypeOK, Idle, Adding, Removing, AddInOrder, Deletion, Promises,
     ReportedIsUsable, RemovedUnreachable, ServedSurvivesRestart, Untouched, InAdd,
     SetSecret, At, Continue, Finish, pastVars
<1>9. ASSUME NEW k \in Conns, NEW x \in Flows, Register(k, x)
      PROVE  Promises'
  BY <1>9 DEF TypeOK, Idle, Adding, Removing, AddInOrder, Deletion, Promises,
     ReportedIsUsable, RemovedUnreachable, ServedSurvivesRestart, Untouched, InAdd,
     Register, At, Continue, pastVars
<1>10. ASSUME NEW k \in Conns, NEW x \in Flows, GetAccount(k, x)
      PROVE  Promises'
  BY <1>10 DEF TypeOK, Idle, Adding, Removing, AddInOrder, Deletion, Promises,
     ReportedIsUsable, RemovedUnreachable, ServedSurvivesRestart, Untouched, InAdd,
     GetAccount, At, Finish, storeVars
<1>11. ASSUME NEW k \in Conns, NEW x \in Flows, Purge(k, x)
      PROVE  Promises'
  BY <1>11 DEF TypeOK, Idle, Adding, Removing, AddInOrder, Deletion, Promises,
     ReportedIsUsable, RemovedUnreachable, ServedSurvivesRestart, Untouched, InAdd,
     Purge, At, Continue
<1>12. ASSUME NEW k \in Conns, NEW x \in Flows, DropProvider(k, x)
      PROVE  Promises'
  BY <1>12 DEF TypeOK, Idle, Adding, Removing, AddInOrder, Deletion, Promises,
     ReportedIsUsable, RemovedUnreachable, ServedSurvivesRestart, Untouched, InAdd,
     DropProvider, At, Finish
<1>13. ASSUME NEW k \in Conns, NEW b \in BOOLEAN, SetOnboarding(k, b)
      PROVE  Promises'
  BY <1>13 DEF TypeOK, Idle, Adding, Removing, AddInOrder, Deletion, Promises,
     ReportedIsUsable, RemovedUnreachable, ServedSurvivesRestart, Untouched, InAdd,
     SetOnboarding, storeVars, pastVars
<1>14. ASSUME NEW x \in Flows, BeginRefresh(x)
      PROVE  Promises'
  BY <1>14 DEF TypeOK, Idle, Adding, Removing, AddInOrder, Deletion, Promises,
     ReportedIsUsable, RemovedUnreachable, ServedSurvivesRestart, Untouched, InAdd,
     BeginRefresh, storeVars
<1>15. ASSUME NEW x \in Flows, EndRefresh(x)
      PROVE  Promises'
  BY <1>15 DEF TypeOK, Idle, Adding, Removing, AddInOrder, Deletion, Promises,
     ReportedIsUsable, RemovedUnreachable, ServedSurvivesRestart, Untouched, InAdd,
     EndRefresh, pastVars
<1>16. ASSUME Crash
      PROVE  Promises'
  BY <1>16 DEF TypeOK, Idle, Adding, Removing, AddInOrder, Deletion, Promises,
     ReportedIsUsable, RemovedUnreachable, ServedSurvivesRestart, Untouched, InAdd,
     Crash, pastVars
<1>17. ASSUME Hydrate
      PROVE  Promises'
  BY <1>17 DEF TypeOK, Idle, Adding, Removing, AddInOrder, Deletion, Promises,
     ReportedIsUsable, RemovedUnreachable, ServedSurvivesRestart, Untouched, InAdd,
     Hydrate, pastVars
<1>18. ASSUME NEW x \in Flows, NEW result \in {"tokens", "no_refresh", "failed"},
             FlowEnds(x, result)
      PROVE  Promises'
  BY <1>18 DEF TypeOK, Idle, Adding, Removing, AddInOrder, Deletion, Promises,
     ReportedIsUsable, RemovedUnreachable, ServedSurvivesRestart, Untouched, InAdd,
     FlowEnds, storeVars, pastVars
<1>19. CASE UNCHANGED vars
  BY <1>19 DEF TypeOK, Idle, Adding, Removing, AddInOrder, Deletion, Promises,
     ReportedIsUsable, RemovedUnreachable, ServedSurvivesRestart, Untouched, InAdd,
     vars, storeVars, pastVars
<1> QED
  BY <1>1, <1>2, <1>3, <1>4, <1>5, <1>6, <1>7, <1>8, <1>9, <1>10, <1>11, <1>12,
     <1>13, <1>14, <1>15, <1>16, <1>17, <1>18, <1>19 DEF Next, Handlers, Step,
     HydrateFails

------------------------------------------------------------------------------
\* The inductive invariant of AccountLifecycle.
LEMMA AccountInvariant == Spec => []AInv
<1>1. AInv /\ [Next]_vars => AInv'
  BY TypeStep, ChallengesStep, AddInOrderStep, DeletionStep, PromisesStep DEF AInv
<1> QED
  BY InitAInv, <1>1, PTL DEF Spec

\* A step of SignIn is one of AccountLifecycle or none.
LEMMA AccountStep == [SignInNext]_allVars => [Next]_vars
<1> SUFFICES ASSUME [SignInNext]_allVars PROVE [Next]_vars
  OBVIOUS
<1>1. CASE Handlers /\ UNCHANGED taskVars
  BY <1>1 DEF Next
<1>2. CASE While(Task!Next)
  BY <1>2 DEF While
<1>3. ASSUME NEW x \in Flows, TaskEnds(x) PROVE Next
  BY <1>3 DEF TaskEnds, Next
<1>4. CASE UNCHANGED allVars
  BY <1>4 DEF allVars
<1> QED
  BY <1>1, <1>2, <1>3, <1>4 DEF SignInNext

(***************************************************************************)
(* SignIn implements AccountLifecycle: with the listener, the exchange and *)
(* the userinfo request in place of the abstract end of the flow, the      *)
(* handlers do nothing they could not do before.                           *)
(***************************************************************************)
THEOREM SignInImplementsAccounts == SignInSpec => Spec
<1>1. SignInInit => Init
  BY DEF SignInInit
<1> QED
  BY <1>1, AccountStep, PTL DEF SignInSpec, Spec

(***************************************************************************)
(* Type correctness of the stores, the flows and the requests.             *)
(***************************************************************************)
THEOREM AccountTypes == Spec => []TypeOK
<1>1. AInv => TypeOK
  BY DEF AInv
<1> QED
  BY AccountInvariant, <1>1, PTL

(***************************************************************************)
(* An account complete_oauth answered with is complete until someone       *)
(* removes it, whatever crashes, cancels and refreshes come in between.    *)
(***************************************************************************)
THEOREM ReportedStaysUsable == Spec => []ReportedIsUsable
<1>1. AInv => ReportedIsUsable
  BY DEF AInv, Promises
<1> QED
  BY AccountInvariant, <1>1, PTL

(***************************************************************************)
(* A removed account is never reached again, across restarts, unless it    *)
(* was removed while complete_oauth was still adding it.                   *)
(***************************************************************************)
THEOREM RemovedStaysUnreachable == Spec => []RemovedUnreachable
<1>1. AInv => RemovedUnreachable
  BY DEF AInv, Promises
<1> QED
  BY AccountInvariant, <1>1, PTL

(***************************************************************************)
(* What the daemon serves, hydrate_providers finds again.                  *)
(***************************************************************************)
THEOREM ServedIsStored == Spec => []ServedSurvivesRestart
<1>1. AInv => ServedSurvivesRestart
  BY DEF AInv, Promises
<1> QED
  BY AccountInvariant, <1>1, PTL

------------------------------------------------------------------------------
\* The task keeps its types.
LEMMA TaskTypeStep == Task!TypeOK /\ Listening /\ Task!Next => Task!TypeOK'
<1> SUFFICES ASSUME Task!TypeOK, Listening, Task!Next PROVE Task!TypeOK'
  OBVIOUS
<1>1. CASE Task!CheckDeadline
  BY <1>1 DEF Task!TypeOK, Task!Ended, Task!None, Listening, Task!CheckDeadline,
     Task!Goto
<1>2. CASE Task!Accept
  BY <1>2 DEF Task!TypeOK, Task!Ended, Task!None, Listening, Task!Accept, Task!Goto
<1>3. CASE Task!AcceptTimesOut
  BY <1>3 DEF Task!TypeOK, Task!Ended, Task!None, Listening, Task!AcceptTimesOut,
     Task!Goto
<1>4. CASE Task!ReadFails
  BY <1>4 DEF Task!TypeOK, Task!Ended, Task!None, Listening, Task!ReadFails,
     Task!Goto
<1>5. CASE Task!HandleOne
  BY <1>5 DEF Task!TypeOK, Task!Ended, Task!None, Listening, Task!HandleOne,
     Task!Goto
<1>6. CASE Task!Exchange
  BY <1>6 DEF Task!TypeOK, Task!Ended, Task!None, Listening, Task!Exchange,
     Task!Goto
<1>7. CASE Task!UserInfo
  BY <1>7 DEF Task!TypeOK, Task!Ended, Task!None, Listening, Task!UserInfo,
     Task!Goto
<1>8. CASE Task!AcceptFails
  BY <1>8 DEF Task!TypeOK, Task!Ended, Task!None, Listening, Task!AcceptFails,
     Task!Goto
<1>9. CASE Task!Deadline
  BY <1>9 DEF Task!TypeOK, Task!Ended, Task!None, Listening, Task!Deadline
<1>10. ASSUME NEW p \in Peers, Task!Connect(p)
      PROVE  Task!TypeOK'
  BY <1>10 DEF Task!TypeOK, Task!Ended, Task!None, Listening, Task!Connect
<1>11. ASSUME NEW p \in Peers, Task!Abort(p)
      PROVE  Task!TypeOK'
  BY <1>11 DEF Task!TypeOK, Task!Ended, Task!None, Listening, Task!Abort
<1>12. ASSUME NEW p \in Peers, NEW q \in SUBSET Task!Field, Task!Send(p, q)
      PROVE  Task!TypeOK'
  BY <1>12 DEF Task!TypeOK, Task!Ended, Task!None, Listening, Task!Send
<1> QED
  BY <1>1, <1>2, <1>3, <1>4, <1>5, <1>6, <1>7, <1>8, <1>9, <1>10, <1>11, <1>12 DEF
     Task!Next, Task!Task, Task!Speak

\* A peer that was answered has nothing more to say.
LEMMA ListeningStep == Task!TypeOK /\ Listening /\ Task!Next => Listening'
<1> SUFFICES ASSUME Task!TypeOK, Listening, Task!Next PROVE Listening'
  OBVIOUS
<1>1. CASE Task!CheckDeadline
  BY <1>1, PeersNamed DEF Task!TypeOK, Task!Ended, Task!None, Listening,
     Task!CheckDeadline, Task!Goto
<1>2. CASE Task!Accept
  BY <1>2, PeersNamed DEF Task!TypeOK, Task!Ended, Task!None, Listening,
     Task!Accept, Task!Goto
<1>3. CASE Task!AcceptTimesOut
  BY <1>3, PeersNamed DEF Task!TypeOK, Task!Ended, Task!None, Listening,
     Task!AcceptTimesOut, Task!Goto
<1>4. CASE Task!ReadFails
  BY <1>4, PeersNamed DEF Task!TypeOK, Task!Ended, Task!None, Listening,
     Task!ReadFails, Task!Goto
<1>5. CASE Task!HandleOne
  BY <1>5, PeersNamed DEF Task!TypeOK, Task!Ended, Task!None, Listening,
     Task!HandleOne, Task!Goto
<1>6. CASE Task!Exchange
  BY <1>6, PeersNamed DEF Task!TypeOK, Task!Ended, Task!None, Listening,
     Task!Exchange, Task!Goto
<1>7. CASE Task!UserInfo
  BY <1>7, PeersNamed DEF Task!TypeOK, Task!Ended, Task!None, Listening,
     Task!UserInfo, Task!Goto
<1>8. CASE Task!AcceptFails
  BY <1>8, PeersNamed DEF Task!TypeOK, Task!Ended, Task!None, Listening,
     Task!AcceptFails, Task!Goto
<1>9. CASE Task!Deadline
  BY <1>9, PeersNamed DEF Task!TypeOK, Task!Ended, Task!None, Listening,
     Task!Deadline
<1>10. ASSUME NEW p \in Peers, Task!Connect(p)
      PROVE  Listening'
  BY <1>10, PeersNamed DEF Task!TypeOK, Task!Ended, Task!None, Listening,
     Task!Connect
<1>11. ASSUME NEW p \in Peers, Task!Abort(p)
      PROVE  Listening'
  BY <1>11, PeersNamed DEF Task!TypeOK, Task!Ended, Task!None, Listening, Task!Abort
<1>12. ASSUME NEW p \in Peers, NEW q \in SUBSET Task!Field, Task!Send(p, q)
      PROVE  Listening'
  BY <1>12, PeersNamed DEF Task!TypeOK, Task!Ended, Task!None, Listening, Task!Send
<1> QED
  BY <1>1, <1>2, <1>3, <1>4, <1>5, <1>6, <1>7, <1>8, <1>9, <1>10, <1>11, <1>12 DEF
     Task!Next, Task!Task, Task!Speak

\* handle_one goes on with a genuine callback only, and with every one.
LEMMA GenuineStep ==
  Task!TypeOK /\ Listening /\ Task!CallbackGenuine /\ Task!Next => Task!CallbackGenuine'
<1> SUFFICES ASSUME Task!TypeOK, Listening, Task!CallbackGenuine, Task!Next
             PROVE  Task!CallbackGenuine'
  OBVIOUS
<1>1. CASE Task!CheckDeadline
  BY <1>1, PeersNamed DEF Task!TypeOK, Task!Ended, Task!None, Listening,
     Task!CallbackGenuine, Task!Genuine, Task!CheckDeadline, Task!Goto
<1>2. CASE Task!Accept
  BY <1>2, PeersNamed DEF Task!TypeOK, Task!Ended, Task!None, Listening,
     Task!CallbackGenuine, Task!Genuine, Task!Accept, Task!Goto
<1>3. CASE Task!AcceptTimesOut
  BY <1>3, PeersNamed DEF Task!TypeOK, Task!Ended, Task!None, Listening,
     Task!CallbackGenuine, Task!Genuine, Task!AcceptTimesOut, Task!Goto
<1>4. CASE Task!ReadFails
  BY <1>4, PeersNamed DEF Task!TypeOK, Task!Ended, Task!None, Listening,
     Task!CallbackGenuine, Task!Genuine, Task!ReadFails, Task!Goto
<1>5. CASE Task!HandleOne
  BY <1>5, PeersNamed DEF Task!TypeOK, Task!Ended, Task!None, Listening,
     Task!CallbackGenuine, Task!Genuine, Task!HandleOne, Task!Goto
<1>6. CASE Task!Exchange
  BY <1>6, PeersNamed DEF Task!TypeOK, Task!Ended, Task!None, Listening,
     Task!CallbackGenuine, Task!Genuine, Task!Exchange, Task!Goto
<1>7. CASE Task!UserInfo
  BY <1>7, PeersNamed DEF Task!TypeOK, Task!Ended, Task!None, Listening,
     Task!CallbackGenuine, Task!Genuine, Task!UserInfo, Task!Goto
<1>8. CASE Task!AcceptFails
  BY <1>8, PeersNamed DEF Task!TypeOK, Task!Ended, Task!None, Listening,
     Task!CallbackGenuine, Task!Genuine, Task!AcceptFails, Task!Goto
<1>9. CASE Task!Deadline
  BY <1>9, PeersNamed DEF Task!TypeOK, Task!Ended, Task!None, Listening,
     Task!CallbackGenuine, Task!Genuine, Task!Deadline
<1>10. ASSUME NEW p \in Peers, Task!Connect(p)
      PROVE  Task!CallbackGenuine'
  BY <1>10, PeersNamed DEF Task!TypeOK, Task!Ended, Task!None, Listening,
     Task!CallbackGenuine, Task!Genuine, Task!Connect
<1>11. ASSUME NEW p \in Peers, Task!Abort(p)
      PROVE  Task!CallbackGenuine'
  BY <1>11, PeersNamed DEF Task!TypeOK, Task!Ended, Task!None, Listening,
     Task!CallbackGenuine, Task!Genuine, Task!Abort
<1>12. ASSUME NEW p \in Peers, NEW q \in SUBSET Task!Field, Task!Send(p, q)
      PROVE  Task!CallbackGenuine'
  BY <1>12, PeersNamed DEF Task!TypeOK, Task!Ended, Task!None, Listening,
     Task!CallbackGenuine, Task!Genuine, Task!Send
<1> QED
  BY <1>1, <1>2, <1>3, <1>4, <1>5, <1>6, <1>7, <1>8, <1>9, <1>10, <1>11, <1>12 DEF
     Task!Next, Task!Task, Task!Speak

\* Nothing is stored before the flow has succeeded.
LEMMA StoredStep ==
  TypeOK /\ Stored /\ Handlers /\ UNCHANGED taskVars => Stored'
<1> SUFFICES ASSUME TypeOK, Stored, Handlers, UNCHANGED taskVars PROVE Stored'
  OBVIOUS
<1>1. ASSUME NEW k \in Conns, NEW x \in Flows, AddOauth(k, x)
      PROVE  Stored'
  BY <1>1 DEF taskVars, TypeOK, Idle, Adding, Removing, Stored, Succeeded, InAdd,
     AddOauth, storeVars, pastVars
<1>2. ASSUME NEW k \in Conns, NEW x \in Flows, TakeChallenge(k, x)
      PROVE  Stored'
  BY <1>2 DEF taskVars, TypeOK, Idle, Adding, Removing, Stored, Succeeded, InAdd,
     TakeChallenge, Continue, storeVars, pastVars
<1>3. ASSUME NEW k \in Conns, NEW x \in Flows, Cancel(k, x)
      PROVE  Stored'
  BY <1>3 DEF taskVars, TypeOK, Idle, Adding, Removing, Stored, Succeeded, InAdd,
     Cancel, storeVars
<1>4. ASSUME NEW k \in Conns, NEW x \in Flows, DeleteRow(k, x)
      PROVE  Stored'
  BY <1>4 DEF taskVars, TypeOK, Idle, Adding, Removing, Stored, Succeeded, InAdd,
     DeleteRow, Continue
<1>5. ASSUME NEW k \in Conns, NEW x \in Flows, Join(k, x)
      PROVE  Stored'
  BY <1>5 DEF taskVars, TypeOK, Idle, Adding, Removing, Stored, Succeeded, InAdd,
     Join, At, Continue, Finish, storeVars, pastVars
<1>6. ASSUME NEW k \in Conns, NEW x \in Flows, CreateRow(k, x)
      PROVE  Stored'
  BY <1>6 DEF taskVars, TypeOK, Idle, Adding, Removing, Stored, Succeeded, InAdd,
     CreateRow, At, Continue, Finish, pastVars
<1>7. ASSUME NEW k \in Conns, NEW x \in Flows, InstallDefaults(k, x)
      PROVE  Stored'
  BY <1>7 DEF taskVars, TypeOK, Idle, Adding, Removing, Stored, Succeeded, InAdd,
     InstallDefaults, At, Continue, Finish, pastVars
<1>8. ASSUME NEW k \in Conns, NEW x \in Flows, SetSecret(k, x)
      PROVE  Stored'
  BY <1>8 DEF taskVars, TypeOK, Idle, Adding, Removing, Stored, Succeeded, InAdd,
     SetSecret, At, Continue, Finish, pastVars
<1>9. ASSUME NEW k \in Conns, NEW x \in Flows, Register(k, x)
      PROVE  Stored'
  BY <1>9 DEF taskVars, TypeOK, Idle, Adding, Removing, Stored, Succeeded, InAdd,
     Register, At, Continue, pastVars
<1>10. ASSUME NEW k \in Conns, NEW x \in Flows, GetAccount(k, x)
      PROVE  Stored'
  BY <1>10 DEF taskVars, TypeOK, Idle, Adding, Removing, Stored, Succeeded, InAdd,
     GetAccount, At, Finish, storeVars
<1>11. ASSUME NEW k \in Conns, NEW x \in Flows, Purge(k, x)
      PROVE  Stored'
  BY <1>11 DEF taskVars, TypeOK, Idle, Adding, Removing, Stored, Succeeded, InAdd,
     Purge, At, Continue
<1>12. ASSUME NEW k \in Conns, NEW x \in Flows, DropProvider(k, x)
      PROVE  Stored'
  BY <1>12 DEF taskVars, TypeOK, Idle, Adding, Removing, Stored, Succeeded, InAdd,
     DropProvider, At, Finish
<1>13. ASSUME NEW k \in Conns, NEW b \in BOOLEAN, SetOnboarding(k, b)
      PROVE  Stored'
  BY <1>13 DEF taskVars, TypeOK, Idle, Adding, Removing, Stored, Succeeded, InAdd,
     SetOnboarding, storeVars, pastVars
<1>14. ASSUME NEW x \in Flows, BeginRefresh(x)
      PROVE  Stored'
  BY <1>14 DEF taskVars, TypeOK, Idle, Adding, Removing, Stored, Succeeded, InAdd,
     BeginRefresh, storeVars
<1>15. ASSUME NEW x \in Flows, EndRefresh(x)
      PROVE  Stored'
  BY <1>15 DEF taskVars, TypeOK, Idle, Adding, Removing, Stored, Succeeded, InAdd,
     EndRefresh, pastVars
<1>16. ASSUME Crash
      PROVE  Stored'
  BY <1>16 DEF taskVars, TypeOK, Idle, Adding, Removing, Stored, Succeeded, InAdd,
     Crash, pastVars
<1>17. ASSUME Hydrate
      PROVE  Stored'
  BY <1>17 DEF taskVars, TypeOK, Idle, Adding, Removing, Stored, Succeeded, InAdd,
     Hydrate, pastVars
<1>18. CASE UNCHANGED vars
  BY <1>18 DEF taskVars, TypeOK, Idle, Adding, Removing, Stored, Succeeded, InAdd,
     vars, storeVars, pastVars
<1> QED
  BY <1>1, <1>2, <1>3, <1>4, <1>5, <1>6, <1>7, <1>8, <1>9, <1>10, <1>11, <1>12,
     <1>13, <1>14, <1>15, <1>16, <1>17, <1>18 DEF Handlers, Step, HydrateFails

\* What the task has succeeded at stays so.
LEMMA SucceededStays == Task!TypeOK /\ Succeeded /\ Task!Next => Succeeded'
  BY DEF Succeeded, Task!Next, Task!Task, Task!Speak, Task!CheckDeadline,
     Task!Accept, Task!AcceptTimesOut, Task!ReadFails, Task!HandleOne, Task!Exchange,
     Task!UserInfo, Task!AcceptFails, Task!Deadline, Task!Connect, Task!Abort,
     Task!Send

\* The task's invariant holds while the handlers run beside it.
LEMMA TaskInvariant == SignInSpec => []TInv
<1>1. SignInInit => TInv
  <2> SUFFICES ASSUME SignInInit PROVE TInv
    OBVIOUS
  <2>1. Task!TypeOK
    <3>1. backlog \in Seq(Peers) /\ pc = "loop" /\ late \in BOOLEAN
      BY EmptySeq DEF SignInInit, Task!Init
    <3>2. /\ link \in [Peers -> {"away", "open", "sent", "reset"}]
          /\ query \in [Peers -> SUBSET Task!Field]
          /\ answered \in [Peers -> {Task!None, "200", "400"}]
      BY DEF SignInInit, Task!Init
    <3>3. cur = Task!None /\ captured = Task!None
      BY DEF SignInInit, Task!Init
    <3> QED
      BY <3>1, <3>2, <3>3 DEF Task!TypeOK
  <2>2. Listening /\ Task!CallbackGenuine
    BY PeersNamed DEF SignInInit, Task!Init, Listening, Task!CallbackGenuine,
       Task!None
  <2>3. Stored
    BY DEF SignInInit, Init, Stored, InAdd
  <2> QED
    BY <2>1, <2>2, <2>3 DEF TInv
<1>2. TypeOK /\ TInv /\ [SignInNext]_allVars => TInv'
  <2> SUFFICES ASSUME TypeOK, TInv, [SignInNext]_allVars PROVE TInv'
    OBVIOUS
  <2>1. ASSUME UNCHANGED taskVars, Stored' PROVE TInv'
    BY <2>1 DEF TInv, taskVars, Listening, Task!TypeOK, Task!CallbackGenuine,
       Task!Genuine
  <2>2. CASE Handlers /\ UNCHANGED taskVars
    BY <2>1, <2>2, StoredStep DEF TInv
  <2>3. CASE While(Task!Next)
    <3>1. Task!Next /\ UNCHANGED vars
      BY <2>3 DEF While
    <3>2. Task!TypeOK' /\ Listening' /\ Task!CallbackGenuine'
      BY <3>1, TaskTypeStep, ListeningStep, GenuineStep DEF TInv
    <3>3. Stored'
      BY <3>1, SucceededStays DEF TInv, Stored, InAdd, vars, storeVars
    <3> QED
      BY <3>2, <3>3 DEF TInv
  <2>4. ASSUME NEW x \in Flows, TaskEnds(x) PROVE TInv'
    <3>1. UNCHANGED taskVars
      BY <2>4 DEF TaskEnds
    <3>2. Stored'
      BY <2>4, <3>1 DEF TypeOK, TInv, Stored, Succeeded, InAdd, TaskEnds,
         FlowEnds, taskVars, storeVars
    <3> QED
      BY <2>1, <3>1, <3>2
  <2>5. CASE UNCHANGED allVars
    <3>1. UNCHANGED taskVars /\ UNCHANGED vars
      BY <2>5 DEF allVars
    <3>2. Stored'
      BY <3>1 DEF TInv, Stored, Succeeded, InAdd, vars, taskVars, storeVars
    <3> QED
      BY <2>1, <3>1, <3>2
  <2> QED
    BY <2>2, <2>3, <2>4, <2>5 DEF SignInNext
<1> QED
  BY <1>1, <1>2, SignInImplementsAccounts, AccountTypes, PTL DEF SignInSpec

(***************************************************************************)
(* A code is exchanged, and an account created, only from a callback with  *)
(* this flow's nonce, and no such callback is turned away, whatever else   *)
(* connects to the listener and whatever the clients do meanwhile.         *)
(***************************************************************************)
THEOREM CallbackAlwaysGenuine == SignInSpec => []CallbackGenuine
<1>1. TInv => CallbackGenuine
  BY DEF TInv, Stored, Succeeded, Task!CallbackGenuine, CallbackGenuine
<1> QED
  BY <1>1, TaskInvariant, PTL

------------------------------------------------------------------------------
(***************************************************************************)
(* What RequestsEnd rests on besides fairness: a request that waits waits  *)
(* for something that can still happen, its steps only go forward, and the *)
(* listener's loop uses up a connection each time round.                   *)
(***************************************************************************)
\* The connections the kernel holds, and the one that is read, are open ones that
\* have not been answered, and none is there twice.
Queued ==
  /\ \A i \in DOMAIN backlog : link[backlog[i]] # "away" /\ answered[backlog[i]] = Task!None
  /\ \A i, j \in DOMAIN backlog : backlog[i] = backlog[j] => i = j
  /\ pc = "read" => /\ link[cur] # "away" /\ answered[cur] = Task!None
                    /\ \A i \in DOMAIN backlog : backlog[i] # cur

\* Requests are served by a running daemon, and complete_oauth has a flow to wait for.
Served ==
  \A k \in Conns : req[k] # Idle => up /\ (req[k].op = "join" => flow[req[k].id] # "none")

\* Nobody waits for a task that is not there: a request is served by a running daemon,
\* and complete_oauth waits for a task that has ended or runs; if that one reads, then
\* from a connection that a peer has made and may still speak on, close or lose.
NobodyStranded ==
  \A k \in Conns : req[k] # Idle =>
    /\ up
    /\ req[k].op = "join" =>
         \/ flow[req[k].id] \in {"tokens", "no_refresh", "failed", "gone"}
         \/ flow[req[k].id] = "running" /\ (pc = "read" => cur \in Peers /\ link[cur] # "away")

Rank(op) ==
  CASE op = "join" -> 1 [] op = "create" -> 2 [] op = "defaults" -> 3 [] op = "secret" -> 4
    [] op = "register" -> 5 [] op = "get" -> 6 [] op = "purge" -> 7 [] OTHER -> 8

\* A request stays with its account and goes from one step to a later one, whatever the
\* other connections do, until it is answered or the daemon dies (ipc_handler.rs).
Forward(k) ==
  req[k] # Idle /\ req'[k] # req[k] =>
    \/ req'[k] = Idle
    \/ req'[k].id = req[k].id /\ Rank(req[k].op) < Rank(req'[k].op)
RequestsAdvance == [][\A k \in Conns : Forward(k)]_allVars

\* handle_one answers a connection once, and await_callback is at the top of its loop
\* again only after it has answered one more: whoever connects, the rounds are
\* counted by the connections.
RoundTaken ==
  /\ \A p \in Peers : answered[p] # Task!None => answered'[p] = answered[p]
  /\ pc = "read" /\ pc' = "loop" =>
       \E p \in Peers : answered[p] = Task!None /\ answered'[p] # Task!None
ListenerAdvances == [][RoundTaken]_allVars

\* The requests of the other connections are left alone; k's own goes on or ends.
LEMMA RequestMoves ==
  ASSUME TypeOK, NEW k \in Conns, NEW x \in Flows, NEW j \in Conns,
         NEW a \in Adding \union Removing, NEW b \in Adding \union Removing, Rank(a) < Rank(b),
         req[k] = [op |-> a, id |-> x],
         Continue(k, b, x) \/ Finish(k)
  PROVE  Forward(j)
<1>1. CASE j # k
  BY <1>1 DEF TypeOK, Forward, Continue, Finish
<1>2. CASE j = k
  <2>1. req[k].id = x /\ req[k].op = a
    OBVIOUS
  <2>2. CASE Finish(k)
    BY <1>2, <2>2 DEF TypeOK, Forward, Finish
  <2>3. CASE Continue(k, b, x)
    <3>1. req'[k] = [op |-> b, id |-> x]
      BY <2>3 DEF TypeOK, Continue
    <3>2. req'[k].id = x /\ req'[k].op = b
      BY <3>1
    <3> QED
      BY <1>2, <2>1, <3>2 DEF Forward
  <2> QED
    BY <2>2, <2>3
<1> QED
  BY <1>1, <1>2

\* Every step of the handlers takes the requests forward.
LEMMA ForwardStep == TypeOK /\ [Next]_vars => \A j \in Conns : Forward(j)
<1> SUFFICES ASSUME TypeOK, [Next]_vars, NEW j \in Conns PROVE Forward(j)
  OBVIOUS
<1>1. UNCHANGED req => Forward(j)
  BY DEF Forward
<1>2. ASSUME NEW k \in Conns, NEW x \in Flows, TakeChallenge(k, x) \/ DeleteRow(k, x)
      PROVE  Forward(j)
  <2>1. req[k] = Idle /\ \E op \in {"join", "purge"} : Continue(k, op, x)
    BY <1>2 DEF TakeChallenge, DeleteRow
  <2>2. j # k => req'[j] = req[j]
    BY <2>1 DEF TypeOK, Continue
  <2> QED
    BY <2>1, <2>2 DEF Forward
<1>3. ASSUME NEW k \in Conns, NEW x \in Flows, Step(k, x) PROVE Forward(j)
  <2>1. Rank("join") = 1 /\ Rank("create") = 2 /\ Rank("defaults") = 3 /\ Rank("secret") = 4
    BY DEF Rank
  <2>2. Rank("register") = 5 /\ Rank("get") = 6 /\ Rank("purge") = 7 /\ Rank("drop") = 8
    BY DEF Rank
  <2>3. {"join", "create", "defaults", "secret", "register", "get", "purge", "drop"}
          = Adding \union Removing
    BY DEF Adding, Removing
  <2>4. CASE Join(k, x)
    BY <2>1, <2>3, <2>4, RequestMoves DEF Join, At
  <2>5. CASE CreateRow(k, x)
    BY <2>1, <2>3, <2>5, RequestMoves DEF CreateRow, At
  <2>6. CASE InstallDefaults(k, x)
    BY <2>1, <2>3, <2>6, RequestMoves DEF InstallDefaults, At
  <2>7. CASE SetSecret(k, x)
    BY <2>1, <2>2, <2>3, <2>7, RequestMoves DEF SetSecret, At
  <2>8. CASE Register(k, x)
    BY <2>2, <2>3, <2>8, RequestMoves DEF Register, At
  <2>9. CASE Purge(k, x)
    BY <2>2, <2>3, <2>9, RequestMoves DEF Purge, At
  <2>10. CASE GetAccount(k, x) \/ DropProvider(k, x)
    BY <2>10 DEF GetAccount, DropProvider, Finish, TypeOK, Forward
  <2> QED
    BY <1>3, <2>4, <2>5, <2>6, <2>7, <2>8, <2>9, <2>10 DEF Step
<1>4. ASSUME NEW k \in Conns, NEW x \in Flows, AddOauth(k, x) \/ Cancel(k, x)
      PROVE  Forward(j)
  BY <1>1, <1>4 DEF AddOauth, Cancel
<1>5. ASSUME NEW k \in Conns, NEW b \in BOOLEAN, SetOnboarding(k, b) PROVE Forward(j)
  BY <1>1, <1>5 DEF SetOnboarding
<1>6. ASSUME NEW x \in Flows, BeginRefresh(x) \/ EndRefresh(x) PROVE Forward(j)
  BY <1>1, <1>6 DEF BeginRefresh, EndRefresh
<1>7. ASSUME NEW x \in Flows, NEW result, FlowEnds(x, result) PROVE Forward(j)
  BY <1>1, <1>7 DEF FlowEnds
<1>8. CASE Crash
  BY <1>8 DEF Crash, Forward
<1>9. CASE Hydrate \/ HydrateFails
  BY <1>1, <1>9 DEF Hydrate, HydrateFails, vars
<1>10. CASE UNCHANGED vars
  BY <1>1, <1>10 DEF vars
<1> QED
  BY <1>2, <1>3, <1>4, <1>5, <1>6, <1>7, <1>8, <1>9, <1>10 DEF Next, Handlers

\* The steps of a request (complete_oauth, remove_account) only go forward.
THEOREM RequestsGoForward == SignInSpec => RequestsAdvance
<1>1. TypeOK /\ [SignInNext]_allVars => [\A k \in Conns : Forward(k)]_allVars
  BY AccountStep, ForwardStep
<1> QED
  BY <1>1, SignInImplementsAccounts, AccountTypes, PTL DEF SignInSpec, RequestsAdvance

\* Every step keeps the requests served.
LEMMA ServedStep == AInv /\ Served /\ [Next]_vars => Served'
<1> SUFFICES ASSUME AInv, Served, [Next]_vars PROVE Served'
  OBVIOUS
<1>0. TypeOK /\ Challenges
  BY DEF AInv
<1>1. ASSUME req' = req, up' = up, \A x \in Flows : flow[x] # "none" => flow'[x] # "none"
      PROVE  Served'
  <2>1. \A k \in Conns : req[k] # Idle => req[k].id \in Flows
    BY <1>0 DEF TypeOK
  <2> QED
    BY <1>1, <2>1 DEF Served
<1>2. ASSUME NEW k \in Conns, NEW x \in Flows, NEW b \in Adding \union Removing,
             Continue(k, b, x) \/ Finish(k), UNCHANGED <<up, flow>>, up,
             b = "join" => flow[x] # "none"
      PROVE  Served'
  <2> SUFFICES ASSUME NEW j \in Conns, req'[j] # Idle
               PROVE  up' /\ (req'[j].op = "join" => flow'[req'[j].id] # "none")
    BY DEF Served
  <2>1. CASE j # k
    BY <1>0, <1>2, <2>1 DEF TypeOK, Served, Continue, Finish
  <2>2. CASE j = k
    <3>1. req'[k] = [op |-> b, id |-> x]
      BY <1>0, <1>2, <2>2 DEF TypeOK, Continue, Finish
    <3>2. req'[k].op = b /\ req'[k].id = x
      BY <3>1
    <3> QED
      BY <1>2, <2>2, <3>2
  <2> QED
    BY <2>1, <2>2
<1>3. {"join", "create", "defaults", "secret", "register", "get", "purge", "drop"}
        = Adding \union Removing
  BY DEF Adding, Removing
<1>4. ASSUME NEW k \in Conns, NEW x \in Flows, TakeChallenge(k, x) \/ DeleteRow(k, x)
      PROVE  Served'
  <2>1. CASE TakeChallenge(k, x)
    <3>1. flow[x] # "none"
      BY <1>0, <2>1 DEF TakeChallenge, Challenges
    <3> QED
      BY <1>2, <1>3, <2>1, <3>1 DEF TakeChallenge
  <2>2. CASE DeleteRow(k, x)
    BY <1>2, <1>3, <2>2 DEF DeleteRow
  <2> QED
    BY <1>4, <2>1, <2>2
<1>5. ASSUME NEW k \in Conns, NEW x \in Flows, Step(k, x) PROVE Served'
  <2>1. PICK b \in Adding \union Removing :
          b # "join" /\ (Continue(k, b, x) \/ Finish(k)) /\ UNCHANGED <<up, flow>> /\ up
    BY <1>3, <1>5 DEF Step, Join, CreateRow, InstallDefaults, SetSecret, Register, GetAccount,
       Purge, DropProvider, At
  <2> QED
    BY <1>2, <2>1
<1>6. ASSUME NEW k \in Conns, NEW x \in Flows, AddOauth(k, x) \/ Cancel(k, x)
      PROVE  Served'
  BY <1>0, <1>1, <1>6 DEF AddOauth, Cancel, TypeOK
<1>7. ASSUME NEW k \in Conns, NEW b \in BOOLEAN, SetOnboarding(k, b) PROVE Served'
  BY <1>1, <1>7 DEF SetOnboarding
<1>8. ASSUME NEW x \in Flows, BeginRefresh(x) \/ EndRefresh(x) PROVE Served'
  BY <1>1, <1>8 DEF BeginRefresh, EndRefresh
<1>9. ASSUME NEW x \in Flows, NEW result \in {"tokens", "no_refresh", "failed"},
             FlowEnds(x, result)
      PROVE  Served'
  BY <1>0, <1>1, <1>9 DEF FlowEnds, TypeOK
<1>10. CASE Crash
  BY <1>10 DEF Crash, Served
<1>11. CASE Hydrate
  BY <1>11 DEF Hydrate, Served
<1>12. CASE HydrateFails \/ UNCHANGED vars
  BY <1>1, <1>12 DEF HydrateFails, vars
<1> QED
  BY <1>4, <1>5, <1>6, <1>7, <1>8, <1>9, <1>10, <1>11, <1>12 DEF Next, Handlers

\* The task takes a connection out of the backlog once.
LEMMA QueuedStep == Task!TypeOK /\ Listening /\ Queued /\ Task!Next => Queued' /\ RoundTaken
<1> SUFFICES ASSUME Task!TypeOK, Listening, Queued, Task!Next PROVE Queued' /\ RoundTaken
  OBVIOUS
<1>0. /\ backlog \in Seq(Peers) /\ link \in [Peers -> {"away", "open", "sent", "reset"}]
      /\ answered \in [Peers -> {Task!None, "200", "400"}] /\ (pc = "read" => cur \in Peers)
  BY DEF Task!TypeOK, Listening
<1>1. ASSUME UNCHANGED <<backlog, link, answered, cur>>, pc' # "read", ~(pc = "read" /\ pc' = "loop")
      PROVE  Queued' /\ RoundTaken
  BY <1>1 DEF Queued, RoundTaken
<1>2. CASE \/ Task!CheckDeadline \/ Task!AcceptTimesOut \/ Task!ReadFails \/ Task!Exchange
           \/ Task!UserInfo \/ Task!AcceptFails
  BY <1>1, <1>2 DEF Task!CheckDeadline, Task!AcceptTimesOut, Task!ReadFails, Task!Exchange,
     Task!UserInfo, Task!AcceptFails, Task!Goto
<1>3. CASE Task!Deadline
  BY <1>3 DEF Task!Deadline, Queued, RoundTaken
<1>4. CASE Task!Accept
  <2>1. /\ pc = "accept" /\ pc' = "read" /\ backlog # <<>> /\ cur' = Head(backlog)
        /\ backlog' = Tail(backlog) /\ UNCHANGED <<link, answered>>
    BY <1>4 DEF Task!Accept, Task!Goto
  <2>2. /\ DOMAIN backlog = 1 .. Len(backlog) /\ Len(backlog) \in Nat \ {0}
        /\ DOMAIN Tail(backlog) = 1 .. Len(backlog) - 1 /\ Head(backlog) = backlog[1]
        /\ \A i \in 1 .. Len(backlog) - 1 : Tail(backlog)[i] = backlog[i + 1]
    BY <1>0, <2>1
  <2>3. \A i \in DOMAIN backlog' : i + 1 \in DOMAIN backlog /\ backlog'[i] = backlog[i + 1]
    BY <2>1, <2>2
  <2>4. 1 \in DOMAIN backlog /\ cur' = backlog[1] /\ \A i \in DOMAIN backlog' : i \in Nat \ {0}
    BY <2>1, <2>2
  <2>5. Queued'
    BY <2>1, <2>3, <2>4 DEF Queued
  <2> QED
    BY <2>1, <2>5 DEF RoundTaken
<1>5. CASE Task!HandleOne
  <2>1. /\ pc = "read" /\ pc' # "read" /\ UNCHANGED <<backlog, link, cur>>
        /\ \E s \in {"200", "400"} : answered' = [answered EXCEPT ![cur] = s]
    BY <1>5 DEF Task!HandleOne, Task!Goto
  <2>2. cur \in Peers /\ answered[cur] = Task!None /\ \A i \in DOMAIN backlog : backlog[i] # cur
    BY <1>0, <2>1 DEF Queued
  <2>3. /\ \A p \in Peers : p # cur => answered'[p] = answered[p]
        /\ answered'[cur] # Task!None
    BY <1>0, <2>1, <2>2 DEF Task!None
  <2>4. \A i \in DOMAIN backlog : backlog[i] \in Peers
    BY <1>0
  <2>5. Queued'
    BY <2>1, <2>2, <2>3, <2>4 DEF Queued
  <2> QED
    BY <2>2, <2>3, <2>5 DEF RoundTaken
<1>6. ASSUME NEW p \in Peers, Task!Connect(p) PROVE Queued' /\ RoundTaken
  <2>1. /\ link[p] = "away" /\ backlog' = Append(backlog, p)
        /\ link' = [link EXCEPT ![p] = "open"] /\ UNCHANGED <<pc, cur, answered>>
    BY <1>6 DEF Task!Connect
  <2>2. /\ DOMAIN backlog = 1 .. Len(backlog) /\ Len(backlog) \in Nat
        /\ DOMAIN backlog' = 1 .. Len(backlog) + 1 /\ backlog'[Len(backlog) + 1] = p
        /\ \A i \in 1 .. Len(backlog) : backlog'[i] = backlog[i]
    BY <1>0, <2>1
  <2>3. /\ \A r \in Peers : r # p => link'[r] = link[r]
        /\ link'[p] = "open" /\ answered[p] = Task!None
    BY <1>0, <2>1 DEF Listening
  <2>4. \A i \in DOMAIN backlog : backlog[i] # p /\ backlog[i] \in Peers
    BY <1>0, <2>1 DEF Queued
  <2>5. \A i \in DOMAIN backlog' : \/ i \in DOMAIN backlog /\ backlog'[i] = backlog[i]
                                   \/ i = Len(backlog) + 1 /\ backlog'[i] = p
    BY <2>2
  <2>6. pc = "read" => cur # p
    BY <2>1 DEF Queued
  <2>7. Queued'
    BY <1>0, <2>1, <2>3, <2>4, <2>5, <2>6 DEF Queued
  <2> QED
    BY <2>1, <2>7 DEF RoundTaken
<1>7. ASSUME NEW p \in Peers, Task!Speak(p) PROVE Queued' /\ RoundTaken
  <2>1. /\ \E s \in {"sent", "reset"} : link' = [link EXCEPT ![p] = s]
        /\ UNCHANGED <<pc, backlog, cur, answered>>
    BY <1>7 DEF Task!Speak, Task!Abort, Task!Send
  <2>2. \A r \in Peers : link[r] # "away" => link'[r] # "away"
    BY <1>0, <2>1
  <2>3. \A i \in DOMAIN backlog : backlog[i] \in Peers
    BY <1>0
  <2> QED
    BY <1>0, <2>1, <2>2, <2>3 DEF Queued, RoundTaken
<1> QED
  BY <1>2, <1>3, <1>4, <1>5, <1>6, <1>7 DEF Task!Next, Task!Task

\* Both hold beside the handlers.
LEMMA WaitInvariant == SignInSpec => [](Served /\ Queued)
<1>1. SignInInit => Served /\ Queued
  BY DEF SignInInit, Init, Task!Init, Served, Queued
<1>2. AInv /\ TInv /\ Served /\ Queued /\ [SignInNext]_allVars => Served' /\ Queued'
  <2> SUFFICES ASSUME AInv, TInv, Served, Queued, [SignInNext]_allVars PROVE Queued'
    BY AccountStep, ServedStep
  <2>1. UNCHANGED taskVars => Queued'
    BY DEF taskVars, Queued
  <2>2. While(Task!Next) => Queued'
    BY QueuedStep DEF While, TInv
  <2> QED
    BY <2>1, <2>2 DEF SignInNext, TaskEnds, allVars
<1> QED
  BY <1>1, <1>2, SignInImplementsAccounts, AccountInvariant, TaskInvariant, PTL DEF SignInSpec

(***************************************************************************)
(* No request waits for what cannot happen, however cancel, remove and the *)
(* browser's answer interleave and whoever connects to the listener        *)
(* (complete_oauth, await_callback, handle_one).                           *)
(***************************************************************************)
THEOREM NoRequestStranded == SignInSpec => []NobodyStranded
<1>1. AInv /\ TInv /\ Served /\ Queued => NobodyStranded
  <2> SUFFICES ASSUME AInv, TInv, Served, Queued, NEW k \in Conns, req[k] # Idle
               PROVE  /\ up
                      /\ req[k].op = "join" =>
                           \/ flow[req[k].id] \in {"tokens", "no_refresh", "failed", "gone"}
                           \/ /\ flow[req[k].id] = "running"
                              /\ pc = "read" => cur \in Peers /\ link[cur] # "away"
    BY DEF NobodyStranded
  <2>1. req[k].id \in Flows
    BY DEF AInv, TypeOK
  <2>2. flow[req[k].id] \in {"none", "running", "tokens", "no_refresh", "failed", "gone"}
    BY <2>1 DEF AInv, TypeOK
  <2>3. pc = "read" => cur \in Peers /\ link[cur] # "away"
    BY DEF TInv, Listening, Queued
  <2>4. up /\ (req[k].op = "join" => flow[req[k].id] # "none")
    BY DEF Served
  <2> QED
    BY <2>2, <2>3, <2>4
<1> QED
  BY <1>1, WaitInvariant, SignInImplementsAccounts, AccountInvariant, TaskInvariant, PTL

(***************************************************************************)
(* handle_one answers every connection at most once, and each round of     *)
(* await_callback's loop answers a new one.                                *)
(***************************************************************************)
THEOREM ListenerGoesForward == SignInSpec => ListenerAdvances
<1>1. TInv /\ Queued /\ [SignInNext]_allVars => [RoundTaken]_allVars
  <2> SUFFICES ASSUME TInv, Queued, [SignInNext]_allVars PROVE RoundTaken
    OBVIOUS
  <2>1. UNCHANGED taskVars => RoundTaken
    BY DEF taskVars, RoundTaken
  <2>2. While(Task!Next) => RoundTaken
    BY QueuedStep DEF While, TInv
  <2> QED
    BY <2>1, <2>2 DEF SignInNext, TaskEnds, allVars
<1> QED
  BY <1>1, WaitInvariant, TaskInvariant, PTL DEF SignInSpec, ListenerAdvances
=============================================================================
