--------------------------- MODULE RoleTrailProofs ---------------------------
(***************************************************************************)
(* When requests do not overlap and nothing fails, the role_changed rows   *)
(* of every account lead from its first role to its current one.           *)
(***************************************************************************)
EXTENDS SerialProofs

USE DEF At, Op, Snap

-----------------------------------------------------------------------------
(* Where the roles are written. *)

Patching(r) == Op(r) \in {"profile", "update"}

\* The rows of the UPDATEs other than the one of update.
RoleKeeping(r, row) ==
    row \in {CountedRow(r), ClearedRow(r), SessionRow(r, Digest(Signed(r))),
             SessionRow(r, None), RepasswordedRow(r), RemovedRow(r), RestoredRow(r)}

RoleCase(r) ==
    \/ users' = users
    \/ /\ req[r].pc \in {"count", "clear", "store", "write"}
       /\ \E row : RoleKeeping(r, row) /\ Put(req[r].uid, row)
    \/ Patching(r) /\ req[r].pc = "write" /\ Put(req[r].uid, PatchedRow(r))
    \/ \E u \in Ids : /\ users[u].status = "absent"
                      /\ Put(u, FreshRow(req[r].call.email, req[r].call.password))

LEMMA UsersServiceRoleCase ==
    ASSUME NEW r \in Requests, UsersServiceStep(r)
    PROVE  RoleCase(r)
BY DEF UsersServiceStep, UpdateFind, UpdateCheck, UpdateWrite, UpdateReload,
       RemoveFind, RemoveWrite, RestoreFind, RestoreCheck, RestoreWrite,
       RestoreReload, RoleCase, RoleKeeping, Patching

LEMMA AuthServiceRoleCase ==
    ASSUME NEW r \in Requests, AuthServiceStep(r)
    PROVE  RoleCase(r)
BY DEF AuthServiceStep, CreateLookup, RegisterInsert, Created, LoginLookup, LoginVerify,
       LoginCount, LoginClear, RefreshLookup, RefreshVerify, StoreTokens,
       LogoutSelf, LogoutWrite, ChangePasswordSelf, ChangePasswordFind,
       ChangePasswordWrite, RoleCase, RoleKeeping

LEMMA MayLandRoleCase ==
    ASSUME Typed, NEW r \in Requests, MayLand(r)
    PROVE  RoleCase(r)
<1>1. CASE req[r].pc \in {"count", "clear", "store"} /\ Put(req[r].uid, PendingRow(r))
  BY <1>1 DEF PendingRow, RoleCase, RoleKeeping
<1>2. CASE req[r].pc = "write" /\ Put(req[r].uid, PendingRow(r))
  <2>1. Op(r) \in GuardedOps
    BY <1>2 DEF Typed, RequestsOK, WellFormed
  <2>2. RoleKeeping(r, PendingRow(r)) \/ (Patching(r) /\ PendingRow(r) = PatchedRow(r))
    BY <1>2, <2>1 DEF PendingRow, RoleKeeping, Patching, GuardedOps, AdminOps, SelfOps
  <2> QED
    BY <1>2, <2>2 DEF RoleCase
<1> QED
  BY <1>1, <1>2 DEF MayLand, RoleCase

LEMMA RoleKeepingColumns ==
    ASSUME TableOK, NEW r \in Requests, req[r].uid \in Ids, NEW row, RoleKeeping(r, row)
    PROVE  /\ row.role = users[req[r].uid].role
           /\ row.status = "absent" => users[req[r].uid].status = "absent"
<1>1. Current(r) = users[req[r].uid] /\ Current(r) \in Row
  BY DEF Current, TableOK
<1>2. CASE row = CountedRow(r) \/ row = ClearedRow(r)
  BY <1>1, <1>2 DEF CountedRow, ClearedRow, Row
<1>3. CASE row = SessionRow(r, Digest(Signed(r))) \/ row = SessionRow(r, None)
  BY <1>1, <1>3 DEF SessionRow, Row
<1>4. CASE row = RepasswordedRow(r)
  BY <1>1, <1>4 DEF RepasswordedRow, Row
<1>5. CASE row = RemovedRow(r) \/ row = RestoredRow(r)
  BY <1>1, <1>5 DEF RemovedRow, RestoredRow, Row
<1> QED
  BY <1>2, <1>3, <1>4, <1>5 DEF RoleKeeping

-----------------------------------------------------------------------------
(* What update has read stays true until its row is handed over. *)

PatchSteady(r) ==
    Patching(r) =>
        /\ req[r].pc \in {"check", "write"} => Fresh(r)
        /\ req[r].pc = "reload" =>
              /\ FindLive(req[r].uid)
              /\ users[req[r].uid].role = Given(req[r].call.role, req[r].snap.role)

\* An id without an account has the default role.
Unprivileged == \A u \in Ids : users[u].status = "absent" => users[u].role = "user"

LEMMA UpdateWriteSteady ==
    ASSUME Typed, NEW r \in Requests, PatchSteady(r), UpdateWrite(r),
           Put(req[r].uid, PatchedRow(r)), Goto(r, "reload")
    PROVE  PatchSteady(r)'
<1>1. req[r].uid \in Ids /\ TableOK /\ RequestsOK
  BY DEF UpdateWrite, Typed, RequestsOK, WellFormed, Bound
<1>2. users[req[r].uid] = req[r].snap /\ req[r].snap.status = "live"
  BY DEF UpdateWrite, PatchSteady, Patching, Fresh
<1>3. /\ PatchedRow(r).status = "live"
      /\ PatchedRow(r).role = Given(req[r].call.role, req[r].snap.role)
  BY <1>1, <1>2 DEF PatchedRow, Current, TableOK, Row
<1>4. users'[req[r].uid] = PatchedRow(r)
  BY <1>1 DEF Put, TableOK
<1>5. /\ req'[r].pc = "reload" /\ req'[r].call = req[r].call
      /\ req'[r].uid = req[r].uid /\ req'[r].snap = req[r].snap
  BY <1>1, GotoFields
<1> QED
  BY <1>3, <1>4, <1>5 DEF PatchSteady, FindLive, Given

LEMMA UsersServiceSteady ==
    ASSUME Typed, NEW r \in Requests, PatchSteady(r), UsersServiceStep(r)
    PROVE  PatchSteady(r)'
<1> RequestsOK /\ TableOK
  BY DEF Typed
<1>1. CASE \E status : Throw(r, status) \/ Reply(r, status)
  BY <1>1, ReplyFields DEF Throw, PatchSteady
<1>2. CASE UpdateFind(r) /\ ~\E status : Throw(r, status)
  <2>1. /\ FindLive(req[r].uid) /\ users' = users
        /\ \E pc \in {"write", "check"} : Remember(r, pc, req[r].uid, Current(r))
    BY <1>2 DEF UpdateFind
  <2> QED
    BY <2>1, RememberFields DEF PatchSteady, Fresh, FindLive, Current
<1>3. CASE UpdateCheck(r) /\ Goto(r, "write")
  BY <1>3, GotoFields DEF UpdateCheck, PatchSteady, Fresh, Patching
<1>4. CASE UpdateWrite(r) /\ Put(req[r].uid, PatchedRow(r)) /\ Goto(r, "reload")
  BY <1>4, UpdateWriteSteady
<1>5. CASE Op(r) \in {"remove", "restore"}
  <2>1. req'[r].call = req[r].call
    BY <1>5, ReplyFields, GotoFields, RememberFields
       DEF UsersServiceStep, UpdateFind, UpdateCheck, UpdateWrite, UpdateReload,
           RemoveFind, RemoveWrite, RestoreFind, RestoreCheck, RestoreWrite,
           RestoreReload, Throw
  <2> QED
    BY <1>5, <2>1 DEF PatchSteady, Patching
<1> QED
  BY <1>1, <1>2, <1>3, <1>4, <1>5
     DEF UsersServiceStep, UpdateFind, UpdateCheck, UpdateWrite, UpdateReload,
         RemoveFind, RemoveWrite, RestoreFind, RestoreCheck, RestoreWrite, RestoreReload

LEMMA OtherStepsPatchNothing ==
    ASSUME Typed, NEW r \in Requests, Knows(r), Guard(r) \/ AuthServiceStep(r)
    PROVE  PatchSteady(r)' /\ ~(Patching(r) /\ req'[r].pc = "reload")
<1> RequestsOK /\ WellFormed(req[r])
  BY DEF Typed, RequestsOK
<1>1. CASE Guard(r)
  <2>1. req'[r].pc \in {"done", "self", "find"}
    BY <1>1, ReplyFields, RememberFields DEF Guard, Throw
  <2> QED
    BY <2>1 DEF PatchSteady
<1>2. CASE AuthServiceStep(r)
  <2>1. ~Patching(r)
    BY <1>2 DEF AuthServiceStep, CreateLookup, RegisterInsert, LoginLookup, LoginVerify,
       LoginCount, LoginClear, RefreshLookup, RefreshVerify, StoreTokens,
       LogoutSelf, LogoutWrite, ChangePasswordSelf, ChangePasswordFind,
       ChangePasswordWrite, Knows, WellFormed, Earned, Patching
  <2>2. CASE \/ CreateLookup(r) \/ RegisterInsert(r) \/ RefreshLookup(r) \/ RefreshVerify(r)
    BY <2>1, <2>2, ReplyFields, GotoFields, RememberFields, SignTokensFields
       DEF CreateLookup, RegisterInsert, RefreshLookup, RefreshVerify, Throw, PatchSteady, Patching
  <2>3. CASE LoginLookup(r) \/ LoginVerify(r) \/ LoginCount(r) \/ LoginClear(r)
    BY <2>1, <2>3, ReplyFields, GotoFields, GotoNowFields, RememberFields, SignTokensFields
       DEF LoginLookup, LoginVerify, LoginCount, LoginClear, PatchSteady, Patching
  <2>4. CASE \/ StoreTokens(r) \/ LogoutSelf(r) \/ LogoutWrite(r) \/ ChangePasswordSelf(r)
             \/ ChangePasswordFind(r) \/ ChangePasswordWrite(r)
    BY <2>1, <2>4, ReplyFields, GotoFields, RememberFields
       DEF StoreTokens, LogoutSelf, LogoutWrite, ChangePasswordSelf, ChangePasswordFind,
           ChangePasswordWrite, Throw, PatchSteady, Patching
  <2> QED
    BY <1>2, <2>1, <2>2, <2>3, <2>4 DEF AuthServiceStep
<1> QED
  BY <1>1, <1>2

LEMMA UpdatesSteady ==
    ASSUME Typed, Informed, Alone, [Next]_vars, \A q \in Requests : PatchSteady(q)
    PROVE  \A q \in Requests : PatchSteady(q)'
<1>1. \A q \in Requests : Knows(q)
  BY DEF Informed
<1>2. CASE \E r \in Requests : InFlight(r) /\ Stepped(r) /\ (Step(r) \/ req'[r].pc = "done")
  <2>1. PICK r \in Requests : InFlight(r) /\ Stepped(r) /\ (Step(r) \/ req'[r].pc = "done")
    BY <1>2
  <2>2. ASSUME Step(r)
        PROVE  PatchSteady(r)'
    BY <1>1, <2>2, UsersServiceSteady, OtherStepsPatchNothing DEF Step
  <2>3. ASSUME req'[r].pc = "done"
        PROVE  PatchSteady(r)'
    BY <2>3 DEF PatchSteady
  <2>4. ASSUME NEW q \in Requests \ {r}
        PROVE  PatchSteady(q)'
    BY <2>1, <2>4 DEF Alone, Stepped, Goes, Carries, Others, InFlight, Steps, PatchSteady
  <2> QED
    BY <2>1, <2>2, <2>3, <2>4
<1>3. CASE \E r \in Requests : Begins(r)
  BY <1>3 DEF Begins, Others, PatchSteady, Patching, Fresh, FindLive, Given
<1>4. CASE Crashes
  BY <1>4 DEF Crashes, InFlight, Steps, PatchSteady
<1>5. CASE Rests
  BY <1>5 DEF Rests, PatchSteady, Patching, Fresh, FindLive, Given
<1> QED
  BY <1>1, <1>2, <1>3, <1>4, <1>5, NextCases

\* Apart from the UPDATE of update, no write changes a role.
LEMMA RolesKept ==
    ASSUME Typed, NEW r \in Requests, InFlight(r), PatchSteady(r), RoleCase(r), Unprivileged
    PROVE  /\ Unprivileged'
           /\ \/ \A u \in Ids : users'[u].role = users[u].role
              \/ Patching(r) /\ req[r].pc = "write" /\ Put(req[r].uid, PatchedRow(r))
<1> TableOK /\ (req[r].pc \in Bound => req[r].uid \in Ids)
  BY DEF Typed, RequestsOK, WellFormed
<1>1. CASE users' = users
  BY <1>1 DEF Unprivileged
<1>2. ASSUME req[r].pc \in {"count", "clear", "store", "write"},
             NEW row, RoleKeeping(r, row), Put(req[r].uid, row)
      PROVE  Unprivileged' /\ \A u \in Ids : users'[u].role = users[u].role
  BY <1>2, RoleKeepingColumns DEF Bound, Put, TableOK, Unprivileged
<1>3. CASE Patching(r) /\ req[r].pc = "write" /\ Put(req[r].uid, PatchedRow(r))
  <2>1. PatchedRow(r).status = "live"
    BY <1>3 DEF PatchSteady, Fresh, PatchedRow, Current, TableOK, Row, Bound
  <2> QED
    BY <1>3, <2>1 DEF Put, TableOK, Unprivileged
<1>4. ASSUME NEW u \in Ids, users[u].status = "absent",
             Put(u, FreshRow(req[r].call.email, req[r].call.password))
      PROVE  Unprivileged' /\ \A v \in Ids : users'[v].role = users[v].role
  <2> DEFINE row == FreshRow(req[r].call.email, req[r].call.password)
  <2>1. row.role = "user"
    BY DEF FreshRow, AbsentRow
  <2> HIDE DEF row
  <2> QED
    BY <1>4, <2>1 DEF row, Put, TableOK, Unprivileged
<1> QED
  BY <1>1, <1>2, <1>3, <1>4 DEF RoleCase

LEMMA UnprivilegedKept ==
    ASSUME Typed, Unprivileged, \A q \in Requests : PatchSteady(q), [Next]_vars
    PROVE  Unprivileged'
<1>1. ASSUME NEW r \in Requests, InFlight(r), RoleCase(r)
      PROVE  Unprivileged'
  BY <1>1, RolesKept
<1>2. ASSUME NEW r \in Requests, Step(r)
      PROVE  Unprivileged'
  <2>1. CASE Guard(r)
    BY <2>1 DEF Guard, Unprivileged
  <2>2. CASE UsersServiceStep(r) \/ AuthServiceStep(r)
    BY <1>1, <2>2, StepInFlight, UsersServiceRoleCase, AuthServiceRoleCase
  <2> QED
    BY <1>2, <2>1, <2>2 DEF Step
<1>3. ASSUME NEW r \in Requests, Fault(r)
      PROVE  Unprivileged'
  BY <1>1, <1>3, MayLandRoleCase DEF Fault, QueryFails, Crash
<1> QED
  BY <1>2, <1>3 DEF Next, vars, Arrive, Tick, Quiet, Unprivileged

-----------------------------------------------------------------------------
(* The books of an account: how often each role was entered and left.      *)

Entered(u, role) == {row \in RoleRows(u) : row.to = role}
Left(u, role) == {row \in RoleRows(u) : row.from = role}
One(b) == IF b THEN 1 ELSE 0

\* The rows of u lead from its first role to the role held.
Balanced(u, held) ==
    \A role \in Roles :
        Cardinality(Entered(u, role)) + One(Seed[u].role = role)
            = Cardinality(Left(u, role)) + One(held = role)

\* Request r has written u and not yet handed over the row.
Owes(r, u) == Patching(r) /\ req[r].pc = "reload" /\ req[r].uid = u

\* The role of u as far as the rows can know: the one in the table, or the one
\* before the write whose row is still owed.
Held(u, role) ==
    \/ \E r \in Requests : Owes(r, u) /\ req[r].snap.role = role
    \/ (\A r \in Requests : ~Owes(r, u)) /\ users[u].role = role

BooksRight == \A u \in Ids : \A held \in Roles : Held(u, held) => Balanced(u, held)

RoleSound ==
    /\ Unprivileged
    /\ \A r \in Requests : PatchSteady(r)
    /\ IsFiniteSet(audit)
    /\ faults = 0 => BooksRight

LEMMA UnloggedRoles ==
    ASSUME NEW r \in Requests, ReportCase(r), ~UpdateReload(r)
    PROVE  \A u : RoleRows(u)' = RoleRows(u)
<1>1. LoginFailure(r).action = "login"
  BY DEF LoginFailure, EventRow
<1>2. PICK rows : Log(rows) /\ \A row \in rows : row.action # "role_changed"
  BY <1>1 DEF ReportCase
<1> QED
  BY <1>2 DEF Log, RoleRows

\* A step that neither changes a role nor owes or pays a row.
LEMMA BooksClosed ==
    ASSUME BooksRight, \A u : RoleRows(u)' = RoleRows(u),
           \A u \in Ids : users'[u].role = users[u].role,
           \A r \in Requests : \A u \in Ids : ~Owes(r, u) /\ ~Owes(r, u)'
    PROVE  BooksRight'
<1>1. ASSUME NEW u \in Ids, NEW held \in Roles, Held(u, held)'
      PROVE  Balanced(u, held)'
  <2>1. Balanced(u, held)
    BY <1>1 DEF BooksRight, Held
  <2> QED
    BY <2>1 DEF Balanced, Entered, Left, One
<1> QED
  BY <1>1 DEF BooksRight

\* The UPDATE: the row is owed from here on.
LEMMA WriteKeepsBooks ==
    ASSUME Typed, Alone, Alone', BooksRight, NEW r \in Requests, PatchSteady(r), UpdateWrite(r),
           Put(req[r].uid, PatchedRow(r)), Goto(r, "reload"), UNCHANGED audit
    PROVE  BooksRight'
<1>1. /\ req'[r].pc = "reload" /\ req'[r].uid = req[r].uid /\ req'[r].snap = req[r].snap
      /\ Others(r)
  BY GotoFields DEF Typed
<1>2. users[req[r].uid] = req[r].snap
  BY DEF UpdateWrite, PatchSteady, Patching, Fresh
<1>3. \A u \in Ids \ {req[r].uid} : users'[u] = users[u]
  BY DEF Put, Typed, TableOK
<1>4. \A q \in Requests, u \in Ids : ~Owes(q, u)
  BY DEF UpdateWrite, Alone, Owes, InFlight, Steps
<1>5. \A q \in Requests \ {r}, u \in Ids : ~Owes(q, u)'
  BY <1>1 DEF Alone, Owes, InFlight, Steps
<1>6. ASSUME NEW u \in Ids, NEW held \in Roles, Held(u, held)'
      PROVE  Balanced(u, held)'
  <2>1. CASE u = req[r].uid
    <3>1. Owes(r, u)'
      BY <1>1, <2>1, GotoFields DEF Owes, UpdateWrite, Patching, Typed
    <3>2. req[r].snap.role = held
      BY <1>1, <1>5, <1>6, <3>1 DEF Held
    <3> QED
      BY <1>2, <1>4, <2>1, <3>2 DEF BooksRight, Held, Balanced, Entered, Left, RoleRows, One
  <2>2. CASE u # req[r].uid
    <3>1. ~Owes(r, u)'
      BY <1>1, <2>2 DEF Owes
    <3>2. users[u].role = held
      BY <1>3, <1>5, <1>6, <2>2, <3>1 DEF Held
    <3> QED
      BY <1>4, <3>2 DEF BooksRight, Held, Balanced, Entered, Left, RoleRows, One
  <2> QED
    BY <2>1, <2>2
<1> QED
  BY <1>6 DEF BooksRight

\* A new row for u: the role it names as left is what the rows led to so far.
LEMMA RowBalances ==
    ASSUME NEW u \in Ids, NEW left \in Roles, NEW entered \in Roles, left # entered,
           IsFiniteSet(audit), Balanced(u, left),
           NEW row, row \notin audit, Log({row}), row.action = "role_changed",
           row.userId = u, row.from = left, row.to = entered
    PROVE  Balanced(u, entered)'
<1>1. RoleRows(u)' = RoleRows(u) \cup {row} /\ row \notin RoleRows(u)
  BY DEF RoleRows, Log
<1>2. IsFiniteSet(RoleRows(u))
  BY FS_Subset DEF RoleRows
<1>3. ASSUME NEW role \in Roles
      PROVE  /\ Cardinality(Entered(u, role)') = Cardinality(Entered(u, role)) + One(entered = role)
             /\ Cardinality(Left(u, role)') = Cardinality(Left(u, role)) + One(left = role)
             /\ Cardinality(Entered(u, role)) \in Nat /\ Cardinality(Left(u, role)) \in Nat
  <2>1. IsFiniteSet(Entered(u, role)) /\ IsFiniteSet(Left(u, role))
    BY <1>2, FS_Subset DEF Entered, Left
  <2>2. Cardinality(Entered(u, role)) \in Nat /\ Cardinality(Left(u, role)) \in Nat
    BY <2>1, FS_CardinalityType
  <2>3. row \notin Entered(u, role) /\ row \notin Left(u, role)
    BY <1>1 DEF Entered, Left
  <2>4. Entered(u, role)' = IF entered = role THEN Entered(u, role) \cup {row} ELSE Entered(u, role)
    BY <1>1 DEF Entered
  <2>5. Left(u, role)' = IF left = role THEN Left(u, role) \cup {row} ELSE Left(u, role)
    BY <1>1 DEF Left
  <2>6. /\ Cardinality(Entered(u, role) \cup {row}) = Cardinality(Entered(u, role)) + 1
        /\ Cardinality(Left(u, role) \cup {row}) = Cardinality(Left(u, role)) + 1
    BY <2>1, <2>3, FS_AddElement
  <2> QED
    BY <2>2, <2>4, <2>5, <2>6 DEF One
<1>4. ASSUME NEW role \in Roles
      PROVE  Cardinality(Entered(u, role)') + One(Seed[u].role = role)
                = Cardinality(Left(u, role)') + One(entered = role)
  <2>1. Cardinality(Entered(u, role)) + One(Seed[u].role = role)
           = Cardinality(Left(u, role)) + One(left = role)
    BY DEF Balanced
  <2> QED
    BY <1>3, <2>1 DEF One
<1> QED
  BY <1>4 DEF Balanced, One

\* The row is paid.
LEMMA ReloadKeepsBooks ==
    ASSUME Typed, Informed, Alone, BooksRight, IsFiniteSet(audit),
           NEW r \in Requests, PatchSteady(r), UpdateReload(r)
    PROVE  BooksRight'
<1> DEFINE snap == req[r].snap
           to == req[r].call.role
           row == UpdatedRow(r)
<1>1. /\ Patching(r) /\ req[r].pc = "reload" /\ req[r].uid \in Ids /\ FindLive(req[r].uid)
      /\ users' = users /\ Log({row}) /\ Reply(r, 200)
      /\ users[req[r].uid].role = Given(to, snap.role)
  BY DEF UpdateReload, PatchSteady, Patching, Typed, RequestsOK, WellFormed, Bound
<1>2. Others(r) /\ req'[r].pc = "done"
  BY <1>1, ReplyFields DEF Typed
<1>3. \A q \in Requests, u \in Ids : ~Owes(q, u)' /\ (Owes(q, u) => q = r)
  BY <1>1, <1>2 DEF Alone, Owes, InFlight, Steps, Others
<1>4. row.userId = req[r].uid /\ row.by = r /\ row.status = "success"
  BY DEF UpdatedRow, UserRow, EventRow
<1>5. row \notin audit
  BY <1>1, <1>4 DEF Informed, Knows, Due, Succeeded, Patching, Steps
<1>6. snap.role \in Roles /\ to \in Roles \cup {None}
  <2>0. to # Null
    BY <1>1, NullIsNoValue DEF Typed, TableOK, Row, Given
  <2>1. req[r] \in Request
    BY DEF Typed, RequestsOK
  <2>2. snap \in Row /\ req[r].call \in Call \cup {NoCall}
    BY <2>1 DEF Request
  <2> QED
    BY <2>0, <2>2 DEF Row, Call, NoCall
<1>7. ASSUME NEW u \in Ids, NEW held \in Roles, Held(u, held)'
      PROVE  Balanced(u, held)'
  <2>1. users[u].role = held
    BY <1>1, <1>3, <1>7 DEF Held
  <2>2. CASE u # req[r].uid
    <3>1. Balanced(u, held)
      BY <1>1, <1>3, <2>1, <2>2 DEF BooksRight, Held, Owes
    <3>2. RoleRows(u)' = RoleRows(u)
      BY <1>1, <1>4, <2>2 DEF RoleRows, Log
    <3> QED
      BY <3>1, <3>2 DEF Balanced, Entered, Left, One
  <2>3. CASE u = req[r].uid
    <3>1. Balanced(u, snap.role)
      BY <1>1, <1>6, <2>3 DEF BooksRight, Held, Owes
    <3>2. held = Given(to, snap.role)
      BY <1>1, <2>1, <2>3
    <3>3. CASE to \notin {None, snap.role}
      <4>1. row.action = "role_changed" /\ row.from = snap.role /\ row.to = to
        BY <1>6, <3>3, NullIsNoValue DEF UpdatedRow, UserRow, EventRow
      <4>2. held = to /\ to # snap.role /\ to \in Roles
        BY <1>6, <3>2, <3>3 DEF Given
      <4> HIDE DEF snap, to, row
      <4> QED
        BY <1>1, <1>4, <1>5, <1>6, <2>3, <3>1, <4>1, <4>2, RowBalances
    <3>4. CASE to \in {None, snap.role}
      <4>1. held = snap.role
        BY <3>2, <3>4 DEF Given
      <4>2. row.action = AuditAction(Op(r))
        BY <3>4 DEF UpdatedRow, UserRow, EventRow
      <4>3. row.action # "role_changed"
        BY <1>1, <4>2 DEF Patching, AuditAction
      <4>4. RoleRows(u)' = RoleRows(u)
        BY <1>1, <4>3 DEF RoleRows, Log
      <4> QED
        BY <3>1, <4>1, <4>4 DEF Balanced, Entered, Left, One
    <3> QED
      BY <3>3, <3>4
  <2> QED
    BY <2>2, <2>3
<1> QED
  BY <1>7 DEF BooksRight

-----------------------------------------------------------------------------
(* The steps. *)

LEMMA PatchingStep ==
    ASSUME Typed, NEW r \in Requests, Knows(r), Step(r), Patching(r)
    PROVE  /\ req[r].pc = "reload" => UpdateReload(r)
           /\ req[r].pc = "write" => UpdateWrite(r)
           /\ req'[r].pc = "reload" =>
                 /\ UpdateWrite(r) /\ Put(req[r].uid, PatchedRow(r))
                 /\ Goto(r, "reload") /\ UNCHANGED audit
<1>1. CASE Guard(r) \/ AuthServiceStep(r)
  <2>1. req[r].pc \notin {"reload", "write"}
    BY <1>1 DEF Guard, AuthServiceStep, CreateLookup, RegisterInsert, LoginLookup,
       LoginVerify, LoginCount, LoginClear, RefreshLookup, RefreshVerify, StoreTokens,
       LogoutSelf, LogoutWrite, ChangePasswordSelf, ChangePasswordFind,
       ChangePasswordWrite, Patching
  <2> QED
    BY <1>1, <2>1, OtherStepsPatchNothing
<1>2. CASE UsersServiceStep(r)
  <2>1. UpdateFind(r) \/ UpdateCheck(r) \/ UpdateWrite(r) \/ UpdateReload(r)
    BY <1>2 DEF UsersServiceStep, RemoveFind, RemoveWrite, RestoreFind, RestoreCheck,
       RestoreWrite, RestoreReload, Patching
  <2>2. CASE UpdateFind(r)
    BY <2>2, ReplyFields, RememberFields DEF UpdateFind, Throw, Typed
  <2>3. CASE UpdateCheck(r)
    BY <2>3, ReplyFields, GotoFields DEF UpdateCheck, Typed
  <2>4. CASE UpdateWrite(r)
    BY <2>4, ReplyFields DEF UpdateWrite, Throw, Typed
  <2>5. CASE UpdateReload(r)
    BY <2>5, ReplyFields DEF UpdateReload, Throw, Typed
  <2> QED
    BY <2>1, <2>2, <2>3, <2>4, <2>5
<1> QED
  BY <1>1, <1>2 DEF Step

LEMMA StepKeepsBooks ==
    ASSUME Typed, Informed, Alone, Alone', RoleSound, BooksRight, NEW r \in Requests, Step(r)
    PROVE  BooksRight'
<1>1. Knows(r) /\ PatchSteady(r) /\ InFlight(r) /\ Stepped(r) /\ ReportCase(r)
  BY StepReports DEF Informed, RoleSound
<1>2. CASE UpdateReload(r)
  BY <1>1, <1>2, ReloadKeepsBooks DEF RoleSound
<1>3. CASE /\ UpdateWrite(r) /\ Put(req[r].uid, PatchedRow(r))
           /\ Goto(r, "reload") /\ UNCHANGED audit
  BY <1>1, <1>3, WriteKeepsBooks
<1>4. CASE ~UpdateReload(r) /\ ~(/\ UpdateWrite(r) /\ Put(req[r].uid, PatchedRow(r))
                                 /\ Goto(r, "reload") /\ UNCHANGED audit)
  <2>1. req'[r].call = req[r].call /\ Others(r)
    BY <1>1 DEF Stepped, Goes, Carries
  <2>2. ~(Patching(r) /\ req[r].pc = "reload") /\ ~(Patching(r) /\ req[r].pc = "reload")'
    BY <1>1, <1>4, <2>1, PatchingStep DEF Patching
  <2>3. \A q \in Requests : \A u \in Ids : ~Owes(q, u) /\ ~Owes(q, u)'
    BY <1>1, <2>1, <2>2 DEF Alone, Others, Owes, Patching, InFlight, Steps
  <2>4. \A u : RoleRows(u)' = RoleRows(u)
    BY <1>1, <1>4, UnloggedRoles
  <2>5. \A u \in Ids : users'[u].role = users[u].role
    <3>1. users' = users \/ RoleCase(r)
      BY UsersServiceRoleCase, AuthServiceRoleCase DEF Step, Guard
    <3>2. CASE Patching(r) /\ req[r].pc = "write" /\ Put(req[r].uid, PatchedRow(r))
      BY <1>1, <1>4, <3>2, PatchingStep DEF UpdateWrite
    <3> QED
      BY <1>1, <3>1, <3>2, RolesKept DEF RoleSound
  <2> QED
    BY <2>3, <2>4, <2>5, BooksClosed
<1> QED
  BY <1>2, <1>3, <1>4

LEMMA BooksUntouched ==
    ASSUME BooksRight, UNCHANGED <<users, audit>>,
           \A q \in Requests : \/ req'[q] = req[q]
                               \/ req[q].pc # "reload" /\ req'[q].pc # "reload"
    PROVE  BooksRight'
<1>1. \A q \in Requests, u \in Ids : /\ Owes(q, u)' <=> Owes(q, u)
                                     /\ Owes(q, u) => req'[q].snap = req[q].snap
  BY DEF Owes, Patching
<1>2. ASSUME NEW u \in Ids, NEW held \in Roles, Held(u, held)'
      PROVE  Balanced(u, held)'
  <2>1. Balanced(u, held)
    BY <1>1, <1>2 DEF BooksRight, Held
  <2> QED
    BY <2>1 DEF Balanced, Entered, Left, RoleRows, One
<1> QED
  BY <1>2 DEF BooksRight

LEMMA RoleSoundKept ==
    ASSUME MaxInFlight = 1, Typed, Informed, Alone, RoleSound, [Next]_vars
    PROVE  RoleSound'
<1>1. \A r \in Requests : Knows(r) /\ PatchSteady(r)
  BY DEF Informed, RoleSound
<1>2. Unprivileged' /\ (\A r \in Requests : PatchSteady(r)') /\ IsFiniteSet(audit')
  BY <1>1, UnprivilegedKept, UpdatesSteady, TrailGrowsFinitely DEF RoleSound
<1>3. ASSUME faults' = 0
      PROVE  BooksRight'
  <2>1. BooksRight
    BY <1>1, <1>3, NextCases DEF RoleSound
  <2>2. ASSUME NEW r \in Requests, Step(r)
        PROVE  BooksRight'
    BY <2>1, <2>2, AloneKept, StepKeepsBooks
  <2>3. ASSUME NEW r \in Requests, Arrive(r)
        PROVE  BooksRight'
    BY <1>1, <2>1, <2>3, ArriveBegins, BooksUntouched DEF Begins, Others, IdleRequest
  <2>4. ASSUME NEW r \in Requests, Fault(r)
        PROVE  FALSE
    BY <1>3, <2>4 DEF Fault, Typed, ClockOK
  <2>5. CASE Tick \/ UNCHANGED vars
    BY <2>1, <2>5, BooksUntouched DEF Tick, vars
  <2> QED
    BY <2>2, <2>3, <2>4, <2>5 DEF Next, Quiet
<1> QED
  BY <1>2, <1>3 DEF RoleSound

LEMMA InitRoleSound == Init => RoleSound
<1> SUFFICES ASSUME Init PROVE RoleSound
  OBVIOUS
<1>1. \A r \in Requests : req[r].pc = "idle"
  BY DEF Init, IdleRequest
<1>2. Unprivileged
  BY SeedAssumption DEF Init, Unprivileged, AbsentRow
<1>3. ASSUME NEW u \in Ids, NEW held \in Roles, Held(u, held)
      PROVE  Balanced(u, held)
  <2>1. Seed[u].role = held
    BY <1>1, <1>3 DEF Held, Owes, Init
  <2>2. \A role : Entered(u, role) = {} /\ Left(u, role) = {}
    BY DEF Init, Entered, Left, RoleRows
  <2> QED
    BY <2>1, <2>2 DEF Balanced
<1> QED
  BY <1>1, <1>2, <1>3, FS_EmptySet DEF RoleSound, BooksRight, PatchSteady, Init

\* SECURITY.md on the trail: it records whose role changed.  When requests do not
\* overlap and nothing has failed, every role of an account was entered as often
\* as it was left, but for its first and its current one, at every moment at which
\* no request is in progress.
THEOREM RoleTrailLeads ==
    ASSUME MaxInFlight = 1
    PROVE  Spec => [](faults = 0 => RoleTrailAccurate)
<1>1. Typed /\ Informed /\ SerialInv /\ RoleSound /\ [Next]_vars => RoleSound'
  BY RoleSoundKept DEF SerialInv
<1>2. ASSUME Typed, RoleSound, faults = 0
      PROVE  RoleTrailAccurate
  <2> SUFFICES ASSUME \A r \in Requests : ~InFlight(r), NEW u \in Ids, NEW role \in Roles
               PROVE  Cardinality(Entered(u, role)) + One(Seed[u].role = role)
                         = Cardinality(Left(u, role)) + One(users[u].role = role)
    BY DEF RoleTrailAccurate, Entered, Left, One
  <2>1. users[u].role \in Roles
    BY <1>2 DEF Typed, TableOK, Row
  <2>2. Held(u, users[u].role)
    BY DEF Held, Owes, InFlight, Steps
  <2> QED
    BY <1>2, <2>1, <2>2 DEF RoleSound, BooksRight, Balanced
<1>3. Spec => []SerialInv
  BY SerialAlways
<1> QED
  BY <1>1, <1>2, <1>3, InitRoleSound, TypedAlways, InformedAlways, PTL DEF Spec
=============================================================================
