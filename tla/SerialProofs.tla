---------------------------- MODULE SerialProofs ----------------------------
(***************************************************************************)
(* What holds when requests do not overlap, for any accounts, any calls    *)
(* and any number of requests, one after another.                          *)
(***************************************************************************)
EXTENDS RequestProofs

USE DEF At, Op, Snap

-----------------------------------------------------------------------------
(* The writes of the API, by the columns that matter here. *)

\* The rows of the UPDATEs that leave the lockout columns alone and start no
\* session.
Plainly(r, row) ==
    row \in {SessionRow(r, None), RepasswordedRow(r), PatchedRow(r),
             RemovedRow(r), RestoredRow(r)}

WriteCase(r) ==
    \/ users' = users
    \/ req[r].pc = "count" /\ Put(req[r].uid, CountedRow(r))
    \/ req[r].pc = "clear" /\ Put(req[r].uid, ClearedRow(r))
    \/ req[r].pc = "store" /\ Put(req[r].uid, SessionRow(r, Digest(Signed(r))))
    \/ /\ req[r].pc = "write"
       /\ \E row : Plainly(r, row) /\ Put(req[r].uid, row)
    \/ \E u \in Ids : /\ users[u].status = "absent"
                      /\ Put(u, FreshRow(req[r].call.email, req[r].call.password))

LEMMA UsersServiceWriteCase ==
    ASSUME NEW r \in Requests, UsersServiceStep(r)
    PROVE  WriteCase(r)
BY DEF UsersServiceStep, UpdateFind, UpdateCheck, UpdateWrite, UpdateReload,
       RemoveFind, RemoveWrite, RestoreFind, RestoreCheck, RestoreWrite,
       RestoreReload, WriteCase, Plainly

LEMMA AuthServiceWriteCase ==
    ASSUME NEW r \in Requests, AuthServiceStep(r)
    PROVE  WriteCase(r)
BY DEF AuthServiceStep, CreateLookup, RegisterInsert, Created, LoginLookup, LoginVerify,
       LoginCount, LoginClear, RefreshLookup, RefreshVerify, StoreTokens,
       LogoutSelf, LogoutWrite, ChangePasswordSelf, ChangePasswordFind,
       ChangePasswordWrite, WriteCase, Plainly

LEMMA MayLandWriteCase ==
    ASSUME NEW r \in Requests, MayLand(r)
    PROVE  WriteCase(r)
<1>1. CASE req[r].pc \in {"count", "clear", "store"} /\ Put(req[r].uid, PendingRow(r))
  BY <1>1 DEF PendingRow, WriteCase
<1>2. CASE req[r].pc = "write" /\ Put(req[r].uid, PendingRow(r))
  <2>1. Plainly(r, PendingRow(r))
    BY <1>2 DEF PendingRow, Plainly
  <2> QED
    BY <1>2, <2>1 DEF WriteCase
<1> QED
  BY <1>1, <1>2 DEF MayLand, WriteCase

LEMMA StepInFlight ==
    ASSUME NEW r \in Requests, UsersServiceStep(r) \/ AuthServiceStep(r)
    PROVE  InFlight(r)
BY DEF AuthServiceStep, CreateLookup, RegisterInsert, LoginLookup, LoginVerify,
       LoginCount, LoginClear, RefreshLookup, RefreshVerify, StoreTokens,
       LogoutSelf, LogoutWrite, ChangePasswordSelf, ChangePasswordFind,
       ChangePasswordWrite, UsersServiceStep, UpdateFind, UpdateCheck, UpdateWrite,
       UpdateReload, RemoveFind, RemoveWrite, RestoreFind, RestoreCheck,
       RestoreWrite, RestoreReload, InFlight, Steps

LEMMA NextWriteCase ==
    ASSUME [Next]_vars
    PROVE  \/ users' = users
           \/ now' = now /\ \E r \in Requests : InFlight(r) /\ WriteCase(r)
<1>1. ASSUME NEW r \in Requests, Step(r)
      PROVE  \/ users' = users
             \/ now' = now /\ InFlight(r) /\ WriteCase(r)
  <2>1. now' = now
    BY <1>1 DEF Step, Guard, UsersServiceStep, AuthServiceStep
  <2>2. CASE Guard(r)
    BY <2>2 DEF Guard
  <2>3. CASE UsersServiceStep(r) \/ AuthServiceStep(r)
    <3>1. InFlight(r)
      BY <2>3, StepInFlight
    <3> QED
      BY <2>1, <2>3, <3>1, UsersServiceWriteCase, AuthServiceWriteCase
  <2> QED
    BY <1>1, <2>2, <2>3 DEF Step
<1>2. ASSUME NEW r \in Requests, Fault(r)
      PROVE  now' = now /\ InFlight(r) /\ WriteCase(r)
  BY <1>2, MayLandWriteCase DEF Fault, QueryFails, Crash
<1> QED
  BY <1>1, <1>2 DEF Next, vars, Arrive, Tick, Quiet

-----------------------------------------------------------------------------
(* One request at a time. *)

Alone == \A q, r \in Requests : InFlight(q) /\ InFlight(r) => q = r

LEMMA AloneKept ==
    ASSUME MaxInFlight = 1, Typed, Informed, Alone, [Next]_vars
    PROVE  Alone'
<1>1. CASE \E r \in Requests : InFlight(r) /\ Stepped(r)
  BY <1>1 DEF Alone, Stepped, Goes, Carries, Others, InFlight
<1>2. CASE Crashes
  BY <1>2 DEF Alone, Crashes, InFlight, Steps
<1>3. CASE Rests
  BY <1>3 DEF Rests, Alone, InFlight
<1>4. ASSUME NEW r \in Requests, Arrive(r), Begins(r)
      PROVE  Alone'
  <2> DEFINE busy == {q \in Requests : InFlight(q)}
  <2>1. IsFiniteSet(busy) /\ Cardinality(busy) \in Nat /\ Cardinality(busy) < 1
    <3>1. IsFiniteSet(busy)
      BY BoundsAssumption, FS_Subset
    <3>2. Cardinality(busy) < MaxInFlight
      BY <1>4 DEF Arrive
    <3> QED
      BY <3>1, <3>2, FS_CardinalityType
  <2>2. busy = {}
    <3>1. Cardinality(busy) = 0
      BY <2>1
    <3> QED
      BY <2>1, <3>1, FS_EmptySet
  <2>3. \A q \in Requests \ {r} : req'[q] = req[q]
    BY <1>4 DEF Begins, Others
  <2>4. \A q \in Requests : ~InFlight(q)
    BY <2>2
  <2> QED
    BY <2>3, <2>4 DEF Alone, InFlight
<1> QED
  BY <1>1, <1>2, <1>3, <1>4, NextCases DEF Informed

-----------------------------------------------------------------------------
(* What a handler has read is still what the table holds, as long as no    *)
(* other request writes.                                                   *)

Fresh(r) == req[r].snap = users[req[r].uid] /\ req[r].snap.status = "live"

Steady(r) ==
    /\ req[r].pc = "verify" /\ req[r].uid # None => Fresh(r)
    /\ req[r].pc \in {"count", "clear"} => Fresh(r)
    /\ req[r].pc = "count" => req[r].snap.lockedUntil <= req[r].at
    /\ req[r].pc = "store" /\ Op(r) = "refresh" => Fresh(r)

\* An id without an account has neither failures nor a lock.
Blank ==
    \A u \in Ids : users[u].status = "absent" =>
        users[u].failedLoginAttempts = 0 /\ users[u].lockedUntil = 0

SerialInv == Alone /\ Blank /\ \A r \in Requests : Steady(r)

Quick == {"idle", "guard", "lookup", "insert", "self", "find", "check", "write",
          "reload", "done", "lost"}

LEMMA QuickSteady ==
    ASSUME NEW r \in Requests, req[r].pc \in Quick
    PROVE  Steady(r)
BY DEF Steady, Quick

LEMMA ThrowQuick ==
    ASSUME RequestsOK, NEW r \in Requests, NEW status, Throw(r, status)
    PROVE  req'[r].pc \in Quick
BY ReplyFields DEF Throw, Quick

LEMMA UsersServiceQuick ==
    ASSUME RequestsOK, NEW r \in Requests, UsersServiceStep(r)
    PROVE  req'[r].pc \in Quick
BY ThrowQuick, ReplyFields, GotoFields, RememberFields
   DEF UsersServiceStep, UpdateFind, UpdateCheck, UpdateWrite, UpdateReload,
       RemoveFind, RemoveWrite, RestoreFind, RestoreCheck, RestoreWrite,
       RestoreReload, Quick

LEMMA GuardQuick ==
    ASSUME RequestsOK, NEW r \in Requests, Guard(r)
    PROVE  req'[r].pc \in Quick
BY ThrowQuick, RememberFields DEF Guard, Quick

LEMMA AuthServiceSteady ==
    ASSUME Typed, NEW r \in Requests, Knows(r), Steady(r), AuthServiceStep(r)
    PROVE  Steady(r)'
<1> req[r] \in Request /\ now \in Nat /\ RequestsOK /\ TableOK
  BY DEF Typed, RequestsOK, ClockOK
<1>1. CASE LoginLookup(r)
  <2>1. CASE Goto(r, "verify")
    BY <1>1, <2>1, GotoFields DEF LoginLookup, Knows, Steady
  <2>2. ASSUME NEW u \in HoldersOf(req[r].call.email), Remember(r, "verify", u, users[u])
        PROVE  Steady(r)'
    BY <1>1, <2>2, RememberFields DEF LoginLookup, HoldersOf, FindLive, Steady, Fresh
  <2> QED
    BY <1>1, <2>1, <2>2 DEF LoginLookup
<1>2. CASE LoginVerify(r)
  <2>1. CASE GotoNow(r, "count") /\ req[r].uid # None /\ ~IsLocked(r)
    <3>1. Fresh(r) /\ req[r].snap.lockedUntil <= now
      BY <1>2, <2>1 DEF LoginVerify, Steady, IsLocked, Request, Row
    <3> QED
      BY <1>2, <2>1, <3>1, GotoNowFields DEF LoginVerify, Steady, Fresh
  <2>2. CASE Goto(r, "clear") /\ PasswordMatches(r)
    <3>1. Fresh(r)
      BY <1>2, <2>2 DEF LoginVerify, Steady, PasswordMatches
    <3> QED
      BY <1>2, <2>2, <3>1, GotoFields DEF LoginVerify, Steady, Fresh
  <2>3. CASE SignTokens(r, req[r].uid, Snap(r))
    BY <1>2, <2>3, SignTokensFields DEF LoginVerify, Steady
  <2>4. CASE Reply(r, 401) \/ Reply(r, 403)
    BY <2>4, ReplyFields DEF Steady
  <2> QED
    BY <1>2, <2>1, <2>2, <2>3, <2>4 DEF LoginVerify
<1>3. CASE RefreshLookup(r)
  <2>1. CASE Throw(r, 403)
    BY <2>1, ThrowQuick, QuickSteady DEF Steady, Quick
  <2>2. CASE /\ FindLive(req[r].tok.sub)
             /\ Remember(r, "verify", req[r].tok.sub, users[req[r].tok.sub])
    BY <1>3, <2>2, RememberFields DEF RefreshLookup, FindLive, Steady, Fresh
  <2> QED
    BY <1>3, <2>1, <2>2 DEF RefreshLookup
<1>4. CASE RefreshVerify(r)
  <2>1. CASE Throw(r, 403)
    BY <2>1, ThrowQuick DEF Steady, Quick
  <2>2. CASE SignTokens(r, req[r].tok.sub, Snap(r))
    <3>1. WellFormed(req[r]) /\ req[r].tok.sub = req[r].uid
      BY <1>4 DEF RequestsOK, RefreshVerify, Knows
    <3>2. req[r].uid # None
      BY <1>4, <3>1, NoneIsNoValue DEF WellFormed, RefreshVerify, Token
    <3> QED
      BY <1>4, <2>2, <3>1, <3>2, SignTokensFields DEF RefreshVerify, Steady, Fresh
  <2> QED
    BY <1>4, <2>1, <2>2 DEF RefreshVerify
<1>5. CASE RegisterInsert(r) \/ LoginClear(r)
  <2>1. CASE \E row : \E u : SignTokens(r, u, row)
    <3>1. Op(r) # "refresh"
      BY <1>5 DEF RegisterInsert, LoginClear, Knows, RequestsOK, WellFormed
    <3> QED
      BY <2>1, <3>1, SignTokensFields DEF Steady
  <2>2. CASE Throw(r, UniqueViolation)
    BY <2>2, ThrowQuick DEF Steady, Quick
  <2> QED
    BY <1>5, <2>1, <2>2 DEF RegisterInsert, LoginClear
<1>6. CASE \/ CreateLookup(r) \/ LoginCount(r) \/ StoreTokens(r)
           \/ LogoutSelf(r) \/ LogoutWrite(r) \/ ChangePasswordSelf(r)
           \/ ChangePasswordFind(r) \/ ChangePasswordWrite(r)
  <2>1. req'[r].pc \in Quick
    BY <1>6, ThrowQuick, ReplyFields, GotoFields, RememberFields
       DEF CreateLookup, LoginCount, StoreTokens, LogoutSelf, LogoutWrite,
           ChangePasswordSelf, ChangePasswordFind, ChangePasswordWrite, Quick
  <2> QED
    BY <2>1 DEF Steady, Quick
<1> QED
  BY <1>1, <1>2, <1>3, <1>4, <1>5, <1>6 DEF AuthServiceStep

LEMMA SteadyKept ==
    ASSUME MaxInFlight = 1, Typed, Informed, SerialInv, [Next]_vars
    PROVE  \A q \in Requests : Steady(q)'
<1>1. \A q \in Requests : Knows(q) /\ Steady(q)
  BY DEF Informed, SerialInv
<1>2. CASE \E r \in Requests : InFlight(r) /\ Stepped(r) /\ (Step(r) \/ req'[r].pc = "done")
  <2>1. PICK r \in Requests : InFlight(r) /\ Stepped(r) /\ (Step(r) \/ req'[r].pc = "done")
    BY <1>2
  <2>2. Steady(r)'
    <3>1. CASE req'[r].pc \in Quick
      BY <3>1 DEF Steady, Quick
    <3>2. CASE Step(r)
      BY <1>1, <3>1, <3>2, UsersServiceQuick, GuardQuick, AuthServiceSteady DEF Step, Typed
    <3> QED
      BY <2>1, <3>1, <3>2 DEF Quick
  <2>3. ASSUME NEW q \in Requests \ {r}
        PROVE  Steady(q)'
    BY <2>1, <2>3 DEF SerialInv, Alone, Stepped, Goes, Carries, Others, InFlight, Steps, Steady
  <2> QED
    BY <2>2, <2>3
<1>3. CASE \E r \in Requests : Arrive(r) /\ Begins(r)
  BY <1>1, <1>3 DEF Begins, Others, Steady, Fresh
<1>4. CASE Crashes
  BY <1>4 DEF Crashes, InFlight, Steps, Steady
<1>5. CASE Rests
  BY <1>1, <1>5 DEF Rests, Steady, Fresh
<1> QED
  BY <1>1, <1>2, <1>3, <1>4, <1>5, NextCases

\* The columns of the lockout after each write.
LockoutCase(r) ==
    \/ \A u \in Ids : /\ users'[u].failedLoginAttempts = users[u].failedLoginAttempts
                      /\ users'[u].lockedUntil = users[u].lockedUntil
    \/ req[r].pc = "count" /\ Put(req[r].uid, CountedRow(r))
    \/ req[r].pc = "clear" /\ Put(req[r].uid, ClearedRow(r))

LEMMA PlainlyColumns ==
    ASSUME TableOK, NEW r \in Requests, req[r].uid \in Ids, NEW row, Plainly(r, row)
    PROVE  /\ row.failedLoginAttempts = users[req[r].uid].failedLoginAttempts
           /\ row.lockedUntil = users[req[r].uid].lockedUntil
           /\ row.refreshToken \in {None, users[req[r].uid].refreshToken}
           /\ row.status = "absent" => users[req[r].uid].status = "absent"
<1>1. Current(r) = users[req[r].uid] /\ Current(r) \in Row
  BY DEF Current, TableOK
<1>2. CASE row = SessionRow(r, None)
  BY <1>1, <1>2 DEF SessionRow, Row
<1>3. CASE row = RepasswordedRow(r)
  BY <1>1, <1>3 DEF RepasswordedRow, Row
<1>4. CASE row = PatchedRow(r)
  BY <1>1, <1>4 DEF PatchedRow, Row
<1>5. CASE row = RemovedRow(r) \/ row = RestoredRow(r)
  BY <1>1, <1>5 DEF RemovedRow, RestoredRow, Row
<1> QED
  BY <1>2, <1>3, <1>4, <1>5 DEF Plainly

LEMMA WriteLockout ==
    ASSUME Typed, Blank, NEW r \in Requests, InFlight(r), Steady(r), WriteCase(r)
    PROVE  LockoutCase(r) /\ Blank'
<1> TableOK /\ (req[r].pc \in Bound => req[r].uid \in Ids)
  BY DEF Typed, RequestsOK, WellFormed
<1>1. CASE users' = users
  BY <1>1 DEF LockoutCase, Blank
<1>2. CASE req[r].pc = "count" /\ Put(req[r].uid, CountedRow(r))
  <2>1. CountedRow(r).status = "live"
    BY <1>2 DEF Steady, Fresh, CountedRow, Current, TableOK, Row, Bound
  <2> QED
    BY <1>2, <2>1 DEF LockoutCase, Put, TableOK, Blank
<1>3. CASE req[r].pc = "clear" /\ Put(req[r].uid, ClearedRow(r))
  <2>1. ClearedRow(r).failedLoginAttempts = 0 /\ ClearedRow(r).lockedUntil = 0
    BY <1>3 DEF ClearedRow, Current, TableOK, Row, Bound
  <2> QED
    BY <1>3, <2>1 DEF LockoutCase, Put, TableOK, Blank
<1>4. CASE req[r].pc = "store" /\ Put(req[r].uid, SessionRow(r, Digest(Signed(r))))
  <2> DEFINE row == SessionRow(r, Digest(Signed(r)))
  <2>1. /\ row.failedLoginAttempts = users[req[r].uid].failedLoginAttempts
        /\ row.lockedUntil = users[req[r].uid].lockedUntil
        /\ row.status = users[req[r].uid].status
    BY <1>4 DEF SessionRow, Current, TableOK, Row, Bound
  <2> HIDE DEF row
  <2> QED
    BY <1>4, <2>1 DEF row, LockoutCase, Put, TableOK, Blank
<1>5. ASSUME req[r].pc = "write", NEW row, Plainly(r, row), Put(req[r].uid, row)
      PROVE  LockoutCase(r) /\ Blank'
  BY <1>5, PlainlyColumns DEF Bound, LockoutCase, Put, TableOK, Blank
<1>6. ASSUME NEW u \in Ids, users[u].status = "absent",
             Put(u, FreshRow(req[r].call.email, req[r].call.password))
      PROVE  LockoutCase(r) /\ Blank'
  <2> DEFINE row == FreshRow(req[r].call.email, req[r].call.password)
  <2>1. row.failedLoginAttempts = 0 /\ row.lockedUntil = 0
    BY DEF FreshRow, AbsentRow
  <2> HIDE DEF row
  <2> QED
    BY <1>6, <2>1 DEF row, LockoutCase, Put, TableOK, Blank
<1> QED
  BY <1>1, <1>2, <1>3, <1>4, <1>5, <1>6 DEF WriteCase

LEMMA SerialKept ==
    ASSUME MaxInFlight = 1, Typed, Informed, SerialInv, [Next]_vars
    PROVE  SerialInv'
<1>1. Blank'
  BY NextWriteCase, WriteLockout DEF SerialInv, Blank
<1> QED
  BY <1>1, AloneKept, SteadyKept DEF SerialInv

LEMMA InitSerial == Init => SerialInv
<1> SUFFICES ASSUME Init PROVE SerialInv
  OBVIOUS
<1>1. \A r \in Requests : req[r].pc = "idle"
  BY DEF Init, IdleRequest
<1>2. Blank
  BY SeedAssumption DEF Init, Blank, AbsentRow
<1> QED
  BY <1>1, <1>2 DEF SerialInv, Alone, InFlight, Steps, Steady

LEMMA SerialAlways ==
    ASSUME MaxInFlight = 1
    PROVE  Spec => []SerialInv
<1>1. Typed /\ Informed /\ SerialInv /\ [Next]_vars => SerialInv'
  BY SerialKept
<1> QED
  BY <1>1, InitSerial, TypedAlways, InformedAlways, PTL DEF Spec

-----------------------------------------------------------------------------
(* Refusals and the counter, while only wrong passwords are given. *)

\* Registration has no account before its INSERT.
Unbound(r) == req[r].pc = "insert" => req[r].uid = None

\* Every request that has read u is a login with a wrong password.
OnlyWrong(u) ==
    \A r \in Requests : req[r].uid = u =>
        Op(r) = "login" /\ req[r].snap.password # req[r].call.password

Refusals(u) == {r \in WrongLogins(u) : req[r].reply = 401}

\* Wrong logins for u that are refused are on its counter, unless it is locked.
Tallied ==
    \A u \in Ids : OnlyWrong(u) =>
        \/ users[u].failedLoginAttempts >= MaxAttempts
        \/ users[u].failedLoginAttempts >= Cardinality(Refusals(u))

\* Once a handler has its account it keeps it, and a login what it has read of it.
Keeps(r) ==
    req[r].uid # None =>
        /\ req'[r].uid = req[r].uid /\ req'[r].call = req[r].call
        /\ Op(r) = "login" => req'[r].snap = req[r].snap

LEMMA UsersServiceKeeps ==
    ASSUME RequestsOK, NEW r \in Requests, UsersServiceStep(r)
    PROVE  Keeps(r) /\ Unbound(r)' /\ Op(r) # "login"
<1>1. /\ Op(r) # "login"
      /\ \/ \E status : Reply(r, status)
         \/ \E pc \in Steps \ {"insert"} : Goto(r, pc)
         \/ \E pc \in Steps \ {"insert"} : \E row : Remember(r, pc, req[r].uid, row)
  BY DEF UsersServiceStep, UpdateFind, UpdateCheck, UpdateWrite, UpdateReload,
         RemoveFind, RemoveWrite, RestoreFind, RestoreCheck, RestoreWrite,
         RestoreReload, Throw, Steps
<1> QED
  BY <1>1, ReplyFields, GotoFields, RememberFields DEF Keeps, Unbound

LEMMA LoginKeeps ==
    ASSUME Typed, NEW r \in Requests, Knows(r),
           LoginLookup(r) \/ LoginVerify(r) \/ LoginCount(r) \/ LoginClear(r)
    PROVE  Keeps(r) /\ Unbound(r)'
<1> RequestsOK
  BY DEF Typed
<1>1. CASE LoginLookup(r)
  BY <1>1, GotoFields, RememberFields DEF LoginLookup, Knows, Keeps, Unbound
<1>2. CASE LoginVerify(r) \/ LoginCount(r) \/ LoginClear(r)
  <2>1. \/ \E status : Reply(r, status)
        \/ Goto(r, "clear") \/ GotoNow(r, "count")
        \/ SignTokens(r, req[r].uid, req[r].snap)
    BY <1>2 DEF LoginVerify, LoginCount, LoginClear
  <2> QED
    BY <2>1, ReplyFields, GotoFields, GotoNowFields, SignTokensFields DEF Keeps, Unbound
<1> QED
  BY <1>1, <1>2

LEMMA AuthServiceKeeps ==
    ASSUME Typed, NEW r \in Requests, Knows(r), Unbound(r), AuthServiceStep(r)
    PROVE  Keeps(r) /\ Unbound(r)'
<1> RequestsOK /\ WellFormed(req[r])
  BY DEF Typed, RequestsOK
<1>1. CASE CreateLookup(r) \/ RegisterInsert(r) \/ RefreshLookup(r)
  <2>1. req[r].uid = None
    BY <1>1 DEF CreateLookup, RegisterInsert, RefreshLookup, Knows, Unbound
  <2>2. Unbound(r)'
    BY <1>1, <2>1, ReplyFields, GotoFields, RememberFields, SignTokensFields
       DEF CreateLookup, RegisterInsert, RefreshLookup, Throw, Unbound
  <2> QED
    BY <2>1, <2>2 DEF Keeps
<1>2. CASE LoginLookup(r) \/ LoginVerify(r) \/ LoginCount(r) \/ LoginClear(r)
  BY <1>2, LoginKeeps
<1>3. CASE RefreshVerify(r)
  <2>1. req[r].uid = req[r].tok.sub /\ Op(r) = "refresh"
    BY <1>3 DEF RefreshVerify, Knows
  <2> QED
    BY <1>3, <2>1, ReplyFields, SignTokensFields DEF RefreshVerify, Throw, Keeps, Unbound
<1>4. CASE StoreTokens(r) \/ LogoutWrite(r) \/ ChangePasswordWrite(r)
  BY <1>4, ReplyFields DEF StoreTokens, LogoutWrite, ChangePasswordWrite, Keeps, Unbound
<1>5. CASE LogoutSelf(r) \/ ChangePasswordSelf(r) \/ ChangePasswordFind(r)
  BY <1>5, ReplyFields, GotoFields, RememberFields
     DEF LogoutSelf, ChangePasswordSelf, ChangePasswordFind, Throw, Keeps, Unbound
<1> QED
  BY <1>1, <1>2, <1>3, <1>4, <1>5 DEF AuthServiceStep

LEMMA StepKeeps ==
    ASSUME Typed, NEW r \in Requests, Knows(r), Unbound(r), Step(r)
    PROVE  Keeps(r) /\ Unbound(r)'
<1>1. CASE Guard(r)
  <2>1. req[r].uid = None
    BY <1>1 DEF Guard, Typed, RequestsOK, WellFormed
  <2>2. req'[r].pc # "insert"
    BY <1>1, ReplyFields, RememberFields DEF Guard, Throw, Typed
  <2> QED
    BY <2>1, <2>2 DEF Keeps, Unbound
<1> QED
  BY <1>1, UsersServiceKeeps, AuthServiceKeeps DEF Step, Typed

\* No step takes its account from a request.
LEMMA NextKeeps ==
    ASSUME Typed, Informed, \A q \in Requests : Unbound(q), [Next]_vars
    PROVE  \A q \in Requests : Keeps(q) /\ Unbound(q)'
<1>1. \A q \in Requests : Knows(q) /\ Unbound(q)
  BY DEF Informed
<1>2. ASSUME NEW r \in Requests, Step(r)
      PROVE  \A q \in Requests : Keeps(q) /\ Unbound(q)'
  <2>1. Keeps(r) /\ Unbound(r)'
    BY <1>1, <1>2, StepKeeps
  <2>2. Others(r)
    BY <1>1, <1>2, StepReports DEF Stepped, Goes, Carries
  <2> QED
    BY <1>1, <2>1, <2>2 DEF Others, Keeps, Unbound
<1>3. ASSUME NEW r \in Requests, QueryFails(r)
      PROVE  \A q \in Requests : Keeps(q) /\ Unbound(q)'
  BY <1>1, <1>3, ReplyFields DEF QueryFails, Throw, Typed, Others, Keeps, Unbound
<1>4. ASSUME NEW r \in Requests, Crash(r)
      PROVE  \A q \in Requests : Keeps(q) /\ Unbound(q)'
  BY <1>1, <1>4, CrashCrashes DEF Crashes, Keeps, Unbound, InFlight
<1>5. ASSUME NEW r \in Requests, Arrive(r)
      PROVE  \A q \in Requests : Keeps(q) /\ Unbound(q)'
  BY <1>1, <1>5, ArriveBegins DEF Begins, Others, IdleRequest, Keeps, Unbound
<1>6. CASE Tick \/ UNCHANGED vars
  BY <1>1, <1>6 DEF Tick, vars, Keeps, Unbound
<1> QED
  BY <1>2, <1>3, <1>4, <1>5, <1>6 DEF Next, Fault, Quiet

\* A login is refused by the count of its failure, or during a lock.
LEMMA StepRefuses ==
    ASSUME Typed, NEW r \in Requests, Knows(r), InFlight(r), Step(r),
           Op(r) = "login", req'[r].reply = 401
    PROVE  \/ LoginCount(r)
           \/ LoginVerify(r) /\ (req[r].uid = None \/ IsLocked(r))
<1> RequestsOK /\ WellFormed(req[r]) /\ req[r].reply = 0
  BY DEF Typed, RequestsOK, Knows
<1>1. ~Guard(r) /\ ~UsersServiceStep(r)
  BY UsersServiceKeeps DEF Guard, WellFormed, GuardedOps, AdminOps, SelfOps
<1>2. \/ LoginLookup(r) \/ LoginVerify(r) \/ LoginCount(r) \/ LoginClear(r) \/ StoreTokens(r)
  BY <1>1 DEF Step, AuthServiceStep, CreateLookup, RegisterInsert, RefreshLookup, RefreshVerify,
     LogoutSelf, LogoutWrite, ChangePasswordSelf, ChangePasswordFind, ChangePasswordWrite,
     WellFormed
<1>3. ~LoginLookup(r) /\ ~LoginClear(r) /\ ~StoreTokens(r)
  BY GotoFields, RememberFields, SignTokensFields, ReplyFields
     DEF LoginLookup, LoginClear, StoreTokens
<1>4. CASE LoginVerify(r)
  BY <1>4, GotoFields, GotoNowFields, SignTokensFields, ReplyFields DEF LoginVerify
<1> QED
  BY <1>2, <1>3, <1>4

\* A login that is counted was compared with the row the account still has.
LEMMA CountAdds ==
    ASSUME Typed, NEW r \in Requests, Steady(r), At(r, "count"), Put(req[r].uid, CountedRow(r))
    PROVE  /\ req[r].uid \in Ids
           /\ users'[req[r].uid].failedLoginAttempts =
                 users[req[r].uid].failedLoginAttempts + 1
<1>1. /\ req[r].uid \in Ids /\ TableOK /\ req[r].at \in Nat
      /\ users[req[r].uid] \in Row /\ req[r].snap = users[req[r].uid]
      /\ req[r].snap.lockedUntil <= req[r].at
  BY DEF Typed, RequestsOK, WellFormed, Bound, Steady, Fresh, Request, TableOK
<1>2. CountedRow(r).failedLoginAttempts = users[req[r].uid].failedLoginAttempts + 1
  BY <1>1 DEF CountedRow, Current, Row
<1> QED
  BY <1>1, <1>2 DEF Put, TableOK

\* While only wrong passwords are given for u nothing takes from its counter.
LEMMA CounterGrows ==
    ASSUME Typed, Informed, SerialInv, [Next]_vars, NEW u \in Ids, OnlyWrong(u)
    PROVE  /\ users[u].failedLoginAttempts \in Nat /\ users'[u].failedLoginAttempts \in Nat
           /\ users[u].failedLoginAttempts <= users'[u].failedLoginAttempts
<1>1. users[u].failedLoginAttempts \in Nat /\ users'[u].failedLoginAttempts \in Nat
  BY NextKept DEF Typed, TableOK, Row
<1>2. ASSUME NEW r \in Requests, InFlight(r), WriteCase(r)
      PROVE  users[u].failedLoginAttempts <= users'[u].failedLoginAttempts
  <2>1. LockoutCase(r) /\ Steady(r) /\ Knows(r)
    BY <1>2, WriteLockout DEF SerialInv, Informed
  <2>2. CASE users'[u].failedLoginAttempts = users[u].failedLoginAttempts
    BY <1>1, <2>2
  <2>3. CASE At(r, "count") /\ Put(req[r].uid, CountedRow(r))
    <3>1. CASE req[r].uid = u
      BY <1>1, <2>1, <2>3, <3>1, CountAdds
    <3>2. CASE req[r].uid # u
      BY <1>1, <2>3, <3>2 DEF Put, Typed, TableOK
    <3> QED
      BY <3>1, <3>2
  <2>4. CASE At(r, "clear") /\ Put(req[r].uid, ClearedRow(r))
    <3>1. req[r].uid # u
      BY <2>1, <2>4 DEF OnlyWrong, Knows
    <3> QED
      BY <1>1, <2>4, <3>1 DEF Put, Typed, TableOK
  <2> QED
    BY <2>1, <2>2, <2>3, <2>4 DEF LockoutCase
<1>3. CASE users' = users
  BY <1>1, <1>3
<1> QED
  BY <1>1, <1>2, <1>3, NextWriteCase

\* A new refusal for u is on its counter, or u is locked.
Recorded(u) ==
    \/ Refusals(u)' \subseteq Refusals(u)
    \/ users[u].failedLoginAttempts >= MaxAttempts
    \/ /\ \E r \in Requests : Refusals(u)' \subseteq Refusals(u) \cup {r}
       /\ users'[u].failedLoginAttempts = users[u].failedLoginAttempts + 1

LEMMA RefusalRecorded ==
    ASSUME Typed, Informed, SerialInv, LockMatchesCounter, [Next]_vars, NEW u \in Ids
    PROVE  Recorded(u)
<1>1. \A q \in Requests : Knows(q) /\ Steady(q) /\ (InFlight(q) => req[q].reply = 0)
  BY DEF Informed, Knows, SerialInv
<1>2. ASSUME NEW r \in Requests, Step(r), InFlight(r)
      PROVE  Recorded(u)
  <2>1. Others(r) /\ req'[r].call = req[r].call
    BY <1>1, <1>2, StepReports DEF Stepped, Goes, Carries
  <2>2. Refusals(u)' \subseteq Refusals(u) \cup {r}
    BY <2>1 DEF Others, Refusals, WrongLogins
  <2>3. CASE r \notin Refusals(u)'
    BY <2>2, <2>3 DEF Recorded
  <2>4. CASE r \in Refusals(u)'
    <3>1. Op(r) = "login" /\ req'[r].reply = 401 /\ req'[r].uid = u
      BY <2>1, <2>4 DEF Refusals, WrongLogins
    <3>2. CASE LoginCount(r)
      <4>1. req[r].uid = u
        BY <3>1, <3>2, ReplyFields DEF LoginCount, Typed
      <4> QED
        BY <1>1, <2>2, <3>2, <4>1, CountAdds DEF LoginCount, Recorded
    <3>3. CASE LoginVerify(r) /\ (req[r].uid = None \/ IsLocked(r))
      <4>1. req[r].uid = u
        BY <3>1, <3>3, ReplyFields, GotoFields, GotoNowFields, SignTokensFields
           DEF LoginVerify, Typed
      <4>2. req[r].uid # None /\ users[u].lockedUntil > now
        BY <1>1, <3>3, <4>1, NoneIsNoValue DEF LoginVerify, Steady, Fresh, IsLocked
      <4>3. users[u].lockedUntil # 0
        BY <4>2 DEF Typed, ClockOK, TableOK, Row
      <4> QED
        BY <4>3 DEF LockMatchesCounter, Recorded
    <3> QED
      BY <1>1, <1>2, <3>1, <3>2, <3>3, StepRefuses
  <2> QED
    BY <2>3, <2>4
<1>3. ASSUME NEW r \in Requests, QueryFails(r)
      PROVE  Refusals(u)' \subseteq Refusals(u)
  BY <1>3, ReplyFields DEF QueryFails, QueryFailed, Throw, Typed, Others, Refusals, WrongLogins
<1>4. ASSUME NEW r \in Requests, Crash(r)
      PROVE  Refusals(u)' \subseteq Refusals(u)
  BY <1>1, <1>4, CrashCrashes DEF Crashes, Refusals, WrongLogins
<1>5. ASSUME NEW r \in Requests, Arrive(r)
      PROVE  Refusals(u)' \subseteq Refusals(u)
  BY <1>1, <1>5, ArriveBegins DEF Begins, Others, Refusals, WrongLogins
<1>6. CASE Tick \/ UNCHANGED vars
  BY <1>6 DEF Tick, vars, Refusals, WrongLogins, Recorded
<1>7. ASSUME NEW r \in Requests, Step(r)
      PROVE  InFlight(r)
  BY <1>7, StepInFlight DEF Step, Guard, InFlight, Steps
<1> QED
  BY <1>2, <1>3, <1>4, <1>5, <1>6, <1>7 DEF Next, Fault, Quiet, Recorded

LEMMA RefusalsFinite ==
    ASSUME NEW u
    PROVE  /\ IsFiniteSet(Refusals(u)) /\ Cardinality(Refusals(u)) \in Nat
           /\ IsFiniteSet(Refusals(u)') /\ Cardinality(Refusals(u)') \in Nat
<1>1. Refusals(u) \subseteq WrongLogins(u) /\ Refusals(u)' \subseteq WrongLogins(u)'
  BY DEF Refusals
<1>2. IsFiniteSet(Refusals(u)) /\ IsFiniteSet(Refusals(u)')
  BY <1>1, WrongLoginsFinite, WrongLoginsFiniteNext, FS_Subset
<1> QED
  BY <1>2, FS_CardinalityType

LEMMA TalliedKept ==
    ASSUME Typed, Informed, SerialInv, LockMatchesCounter, [Next]_vars, Tallied,
           \A q \in Requests : Unbound(q)
    PROVE  Tallied'
<1> SUFFICES ASSUME NEW u \in Ids, OnlyWrong(u)'
             PROVE  \/ users'[u].failedLoginAttempts >= MaxAttempts
                    \/ users'[u].failedLoginAttempts >= Cardinality(Refusals(u)')
  BY DEF Tallied
<1> DEFINE count == users[u].failedLoginAttempts
           count1 == users'[u].failedLoginAttempts
           size == Cardinality(Refusals(u))
           size1 == Cardinality(Refusals(u)')
<1>1. OnlyWrong(u)
  BY NextKeeps, NoneIsNoValue DEF Keeps, OnlyWrong
<1>2. count \in Nat /\ count1 \in Nat /\ count <= count1
  BY <1>1, CounterGrows
<1>3. size \in Nat /\ size1 \in Nat /\ MaxAttempts \in Nat
  BY RefusalsFinite, PolicyAssumption
<1>4. count >= MaxAttempts \/ count >= size
  BY <1>1 DEF Tallied
<1>5. CASE Refusals(u)' \subseteq Refusals(u)
  <2>1. size1 <= size
    BY <1>5, RefusalsFinite, FS_Subset
  <2> HIDE DEF count, count1, size, size1
  <2>2. count1 >= MaxAttempts \/ count1 >= size1
    BY <1>2, <1>3, <1>4, <2>1
  <2> QED
    BY <2>2 DEF count1, size1
<1>6. ASSUME NEW r \in Requests, Refusals(u)' \subseteq Refusals(u) \cup {r}, count1 = count + 1
      PROVE  count1 >= MaxAttempts \/ count1 >= size1
  <2>1. /\ IsFiniteSet(Refusals(u) \cup {r})
        /\ Cardinality(Refusals(u) \cup {r}) \in {size, size + 1}
    BY RefusalsFinite, FS_AddElement
  <2>2. size1 <= Cardinality(Refusals(u) \cup {r})
    BY <1>6, <2>1, FS_Subset
  <2> HIDE DEF count, count1, size, size1
  <2> QED
    BY <1>2, <1>3, <1>4, <1>6, <2>1, <2>2
<1>7. CASE count >= MaxAttempts
  <2> HIDE DEF count, count1
  <2>1. count1 >= MaxAttempts
    BY <1>2, <1>3, <1>7
  <2> QED
    BY <2>1 DEF count1
<1> QED
  BY <1>5, <1>6, <1>7, RefusalRecorded DEF Recorded

-----------------------------------------------------------------------------
(* The theorems. *)

\* A refresh of requests that do not overlap stores a new hash only over the
\* one it has compared: a session that logout has ended stays ended until
\* somebody registers or logs in, whatever statements fail in between.
THEOREM SessionsEnd ==
    ASSUME MaxInFlight = 1
    PROVE  Spec => LogoutEndsSession
<1>1. ASSUME Typed, Informed, SerialInv, [Next]_vars, NEW u \in Ids,
             users[u].refreshToken = None, users'[u].refreshToken # None
      PROVE  \E r \in Requests : /\ At(r, "store") /\ req[r].uid = u
                                 /\ Op(r) \in {"register", "login"}
  <2>1. PICK r \in Requests : InFlight(r) /\ WriteCase(r)
    BY <1>1, NextWriteCase
  <2>2. TableOK /\ (req[r].pc \in Bound => req[r].uid \in Ids) /\ Knows(r) /\ Steady(r)
    BY <1>1 DEF Typed, RequestsOK, WellFormed, Informed, SerialInv
  <2>3. users' # users
    BY <1>1
  <2>4. CASE req[r].pc = "count" /\ Put(req[r].uid, CountedRow(r))
    <3>1. CountedRow(r).refreshToken = users[req[r].uid].refreshToken
      BY <2>2, <2>4 DEF CountedRow, Current, TableOK, Row, Bound
    <3> QED
      BY <1>1, <2>2, <2>4, <3>1 DEF Put, TableOK
  <2>5. CASE req[r].pc = "clear" /\ Put(req[r].uid, ClearedRow(r))
    <3>1. ClearedRow(r).refreshToken = users[req[r].uid].refreshToken
      BY <2>2, <2>5 DEF ClearedRow, Current, TableOK, Row, Bound
    <3> QED
      BY <1>1, <2>2, <2>5, <3>1 DEF Put, TableOK
  <2>6. CASE req[r].pc = "store" /\ Put(req[r].uid, SessionRow(r, Digest(Signed(r))))
    <3>1. req[r].uid = u
      BY <1>1, <2>2, <2>6 DEF Put, TableOK
    <3>2. Earned(r)
      BY <2>2, <2>6 DEF Knows
    <3>3. Op(r) # "refresh"
      BY <1>1, <2>2, <2>6, <3>1, <3>2 DEF Earned, Steady, Fresh
    <3> QED
      BY <2>6, <3>1, <3>2, <3>3 DEF Earned
  <2>7. ASSUME req[r].pc = "write", NEW row, Plainly(r, row), Put(req[r].uid, row)
        PROVE  FALSE
    <3>1. row.refreshToken \in {None, users[req[r].uid].refreshToken}
      BY <2>2, <2>7, PlainlyColumns DEF Bound
    <3> QED
      BY <1>1, <2>2, <2>7, <3>1 DEF Put, TableOK
  <2>8. ASSUME NEW v \in Ids, Put(v, FreshRow(req[r].call.email, req[r].call.password))
        PROVE  FALSE
    <3> DEFINE row == FreshRow(req[r].call.email, req[r].call.password)
    <3>1. row.refreshToken = None
      BY DEF FreshRow, AbsentRow
    <3> HIDE DEF row
    <3> QED
      BY <1>1, <2>2, <2>8, <3>1 DEF row, Put, TableOK
  <2> QED
    BY <2>1, <2>3, <2>4, <2>5, <2>6, <2>7, <2>8 DEF WriteCase
<1> DEFINE Ended == \A u \in Ids :
              users[u].refreshToken = None /\ users'[u].refreshToken # None =>
              \E r \in Requests : /\ At(r, "store") /\ req[r].uid = u
                                  /\ Op(r) \in {"register", "login"}
<1>2. Typed /\ Informed /\ SerialInv /\ [Next]_vars => [Ended]_vars
  BY <1>1
<1>3. Spec => []SerialInv
  BY SerialAlways
<1> QED
  BY <1>2, <1>3, TypedAlways, InformedAlways, PTL DEF Spec, LogoutEndsSession

\* The two columns and the clock implement LockoutPolicy when requests do not
\* overlap, whatever else is done to the accounts and whatever statements fail:
\* no failure is counted during a lock, and each one that is counted is judged
\* by the row that its password was compared with.
THEOREM ImplementsPolicy ==
    ASSUME MaxInFlight = 1
    PROVE  Spec => LockoutPolicyHolds
<1> DEFINE failures == [u \in Ids |-> users[u].failedLoginAttempts]
           lockEnd == [u \in Ids |-> users[u].lockedUntil]
<1>1. Init => Policy!Init
  <2> SUFFICES ASSUME Init PROVE Policy!Init
    OBVIOUS
  <2>1. Seed \in [Ids -> Row] /\ users = Seed /\ now = 0
    BY SeedAssumption DEF Init
  <2>2. failures \in [Ids -> Nat]
    BY <2>1 DEF Row
  <2>3. lockEnd \in [Ids -> 0 .. LockDuration]
    BY <2>1, SeedAssumption, PolicyAssumption DEF Row
  <2> QED
    BY <2>1, <2>2, <2>3 DEF Policy!Init
<1>2. Typed /\ Informed /\ SerialInv /\ [Next]_vars
          => [Policy!Next]_<<now, failures, lockEnd>>
  <2> SUFFICES ASSUME Typed, Informed, SerialInv, [Next]_vars
               PROVE  Policy!Next \/ UNCHANGED <<now, failures, lockEnd>>
    OBVIOUS
  <2>1. TableOK /\ now \in Nat
    BY DEF Typed, ClockOK
  <2>2. CASE users' = users
    <3>1. UNCHANGED <<failures, lockEnd>>
      BY <2>2
    <3>2. CASE now' = now + 1
      BY <3>1, <3>2 DEF Policy!Next, Policy!Pass
    <3> QED
      BY <3>1, <3>2, ClockMoves
  <2>3. ASSUME NEW r \in Requests, now' = now, InFlight(r), WriteCase(r)
        PROVE  Policy!Next \/ UNCHANGED <<now, failures, lockEnd>>
    <3>1. /\ req[r].pc \in Bound => req[r].uid \in Ids
          /\ Knows(r) /\ Steady(r) /\ LockoutCase(r)
      BY <2>3, WriteLockout DEF Typed, RequestsOK, WellFormed, Informed, SerialInv
    <3>2. CASE \A u \in Ids : /\ users'[u].failedLoginAttempts = users[u].failedLoginAttempts
                              /\ users'[u].lockedUntil = users[u].lockedUntil
      BY <2>3, <3>2
    <3>3. CASE req[r].pc = "count" /\ Put(req[r].uid, CountedRow(r))
      <4>0. PICK a \in Ids : a = req[r].uid
        BY <3>1, <3>3 DEF Bound
      <4> DEFINE t == req[r].at
      <4>1. t \in Nat /\ t <= now /\ users[a] \in Row /\ req[r].snap = users[a]
        BY <2>1, <3>1, <3>3, <4>0 DEF Typed, RequestsOK, WellFormed, Request, Steady,
           Fresh, TableOK
      <4>2. users[a].lockedUntil <= t
        BY <3>1, <3>3, <4>0, <4>1 DEF Steady, Fresh
      <4>3. /\ CountedRow(r).failedLoginAttempts = users[a].failedLoginAttempts + 1
            /\ CountedRow(r).lockedUntil =
                  IF users[a].failedLoginAttempts + 1 >= MaxAttempts
                  THEN t + LockDuration ELSE 0
        BY <4>0, <4>1 DEF CountedRow, Current, Row
      <4>4. failures' = [failures EXCEPT ![a] = @ + 1]
        BY <2>1, <3>3, <4>0, <4>1, <4>3 DEF Put, TableOK
      <4>5. lockEnd' = [lockEnd EXCEPT
               ![a] = IF failures[a] + 1 >= MaxAttempts THEN t + LockDuration ELSE 0]
        BY <2>1, <3>3, <4>0, <4>1, <4>3 DEF Put, TableOK
      <4>6. t \in 0 .. now /\ Policy!JudgedAt(a, t)
        BY <2>1, <4>1, <4>2 DEF Policy!JudgedAt
      <4>7. Policy!Fail(a)
        BY <2>3, <4>4, <4>5, <4>6 DEF Policy!Fail
      <4> QED
        BY <4>7 DEF Policy!Next
    <3>4. CASE req[r].pc = "clear" /\ Put(req[r].uid, ClearedRow(r))
      <4>0. PICK a \in Ids : a = req[r].uid
        BY <3>1, <3>4 DEF Bound
      <4>1. users[a] \in Row /\ users[a].lockedUntil <= now
        BY <2>1, <3>1, <3>4, <4>0 DEF Steady, Fresh, TableOK, Knows
      <4>2. ClearedRow(r).failedLoginAttempts = 0 /\ ClearedRow(r).lockedUntil = 0
        BY <4>0, <4>1 DEF ClearedRow, Current, Row
      <4>3. /\ failures' = [failures EXCEPT ![a] = 0]
            /\ lockEnd' = [lockEnd EXCEPT ![a] = 0]
        BY <2>1, <3>4, <4>0, <4>1, <4>2 DEF Put, TableOK
      <4>4. Policy!JudgedAt(a, now)
        BY <2>1, <4>1 DEF Policy!JudgedAt
      <4>5. Policy!Succeed(a)
        BY <2>3, <4>3, <4>4 DEF Policy!Succeed
      <4> QED
        BY <4>5 DEF Policy!Next
    <3> QED
      BY <3>1, <3>2, <3>3, <3>4 DEF LockoutCase
  <2> QED
    BY <2>2, <2>3, NextWriteCase
<1>3. Spec => []SerialInv
  BY SerialAlways
<1> QED
  BY <1>1, <1>2, <1>3, TypedAlways, InformedAlways, PTL
     DEF Spec, LockoutPolicyHolds, Policy!Spec, Policy!policyVars

\* When logins do not overlap each wrong one is counted or finds the account
\* locked: an account for which only wrong passwords were given, and as many as
\* the threshold were refused, is locked, whatever statements fail in between.
\* It takes two overlapping logins to lose a count.
THEOREM ThresholdReached ==
    ASSUME MaxInFlight = 1
    PROVE  Spec => []ThresholdLocks
<1> DEFINE Inv == Tallied /\ \A q \in Requests : Unbound(q)
<1>1. Init => Inv
  <2> SUFFICES ASSUME Init PROVE Inv
    OBVIOUS
  <2>1. \A r \in Requests : req[r].pc = "idle" /\ req[r].reply = 0
    BY DEF Init, IdleRequest
  <2>2. \A u \in Ids : Refusals(u) = {}
    BY <2>1 DEF Refusals, WrongLogins
  <2>3. \A u \in Ids : users[u].failedLoginAttempts \in Nat
    BY SeedAssumption DEF Init, Row
  <2> QED
    BY <2>1, <2>2, <2>3, FS_EmptySet DEF Tallied, Unbound
<1>2. Typed /\ Informed /\ SerialInv /\ LockMatchesCounter /\ Inv /\ [Next]_vars => Inv'
  BY TalliedKept, NextKeeps
<1>3. Typed /\ Inv => ThresholdLocks
  <2> SUFFICES ASSUME Typed, Inv, NEW u \in Ids,
                      Cardinality(Refusals(u)) >= MaxAttempts,
                      \A r \in Requests : req[r].uid = u => r \in WrongLogins(u)
               PROVE  users[u].failedLoginAttempts >= MaxAttempts
    BY DEF ThresholdLocks, Refusals
  <2>1. OnlyWrong(u)
    BY DEF OnlyWrong, WrongLogins
  <2>2. /\ users[u].failedLoginAttempts \in Nat /\ MaxAttempts \in Nat
        /\ Cardinality(Refusals(u)) \in Nat
    BY RefusalsFinite, PolicyAssumption DEF Typed, TableOK, Row
  <2> DEFINE size == Cardinality(Refusals(u))
  <2>3. \/ users[u].failedLoginAttempts >= MaxAttempts
        \/ users[u].failedLoginAttempts >= size
    BY <2>1 DEF Tallied
  <2> HIDE DEF size
  <2> QED
    BY <2>2, <2>3 DEF size
<1> HIDE DEF Inv
<1>4. Spec => []SerialInv
  BY SerialAlways
<1> QED
  BY <1>1, <1>2, <1>3, <1>4, TypedAlways, InformedAlways, LockConsistent, PTL DEF Spec

\* When logins do not overlap no failure is counted while a lock is running: the
\* lock that registerFailedLogin would replace has ended by the time it is read.
THEOREM RunningLocksStay ==
    ASSUME MaxInFlight = 1
    PROVE  Spec => RunningLockKept
<1>1. ASSUME Typed, SerialInv, NEW r \in Requests, At(r, "count"),
             users[req[r].uid].lockedUntil > now
      PROVE  FALSE
  <2>1. /\ req[r].at \in Nat /\ req[r].at <= now /\ now \in Nat
        /\ req[r].uid \in Ids /\ users[req[r].uid] \in Row
    BY <1>1 DEF Typed, RequestsOK, WellFormed, Request, ClockOK, TableOK, Bound
  <2>2. users[req[r].uid].lockedUntil <= req[r].at
    BY <1>1 DEF SerialInv, Steady, Fresh
  <2> QED
    BY <1>1, <2>1, <2>2 DEF Row
<1> DEFINE Left == \A r \in Requests :
                      /\ At(r, "count") /\ req'[r].pc = "done"
                      /\ users[req[r].uid].lockedUntil > now
                      => users' = users
<1>2. Typed /\ SerialInv => [Left]_vars
  BY <1>1
<1>3. Spec => []SerialInv
  BY SerialAlways
<1> QED
  BY <1>2, <1>3, TypedAlways, PTL DEF Spec, RunningLockKept

\* When logins do not overlap the counter is that of consecutive failures: each
\* failed login adds itself to the failures the account has, and none that a
\* success has cleared comes back, whatever statements fail in between.
THEOREM FailuresAreConsecutive ==
    ASSUME MaxInFlight = 1
    PROVE  Spec => FailuresConsecutive
<1> DEFINE Adds(u) == users'[u].failedLoginAttempts > users[u].failedLoginAttempts =>
                      users'[u].failedLoginAttempts = users[u].failedLoginAttempts + 1
<1>1. ASSUME Typed, SerialInv, [Next]_vars, NEW u \in Ids
      PROVE  Adds(u)
  <2>1. TableOK /\ users[u].failedLoginAttempts \in Nat
    BY <1>1 DEF Typed, TableOK, Row
  <2>2. CASE users'[u].failedLoginAttempts = users[u].failedLoginAttempts
    BY <2>1, <2>2
  <2>3. ASSUME NEW r \in Requests, InFlight(r), WriteCase(r)
        PROVE  Adds(u)
    <3>1. LockoutCase(r) /\ Steady(r)
      BY <1>1, <2>3, WriteLockout DEF SerialInv
    <3>2. CASE At(r, "count") /\ Put(req[r].uid, CountedRow(r))
      <4>1. CASE req[r].uid = u
        BY <1>1, <3>1, <3>2, <4>1, CountAdds
      <4>2. CASE req[r].uid # u
        BY <2>1, <2>2, <3>2, <4>2 DEF Put, TableOK
      <4> QED
        BY <4>1, <4>2
    <3>3. CASE At(r, "clear") /\ Put(req[r].uid, ClearedRow(r))
      <4>1. CASE req[r].uid = u
        <5>1. ClearedRow(r).failedLoginAttempts = 0
          BY <1>1, <2>1, <4>1 DEF ClearedRow, Current, TableOK, Row
        <5>2. users'[u].failedLoginAttempts = 0
          BY <1>1, <2>1, <3>3, <4>1, <5>1 DEF Put, TableOK
        <5> QED
          BY <2>1, <5>2
      <4>2. CASE req[r].uid # u
        BY <2>1, <2>2, <3>3, <4>2 DEF Put, TableOK
      <4> QED
        BY <4>1, <4>2
    <3> QED
      BY <1>1, <2>2, <3>1, <3>2, <3>3 DEF LockoutCase
  <2> QED
    BY <1>1, <2>2, <2>3, NextWriteCase
<1>2. Typed /\ SerialInv /\ [Next]_vars => [\A u \in Ids : Adds(u)]_vars
  BY <1>1
<1>3. Spec => []SerialInv
  BY SerialAlways
<1> QED
  BY <1>2, <1>3, TypedAlways, PTL DEF Spec, FailuresConsecutive

\* A login goes on to its tokens from a row with nothing to clear, or by
\* clearing it.
LEMMA LoginAccepted ==
    ASSUME Typed, NEW r \in Requests, Step(r), Op(r) = "login",
           ~At(r, "store"), req'[r].pc = "store"
    PROVE  \/ /\ At(r, "verify") /\ req[r].uid # None
              /\ NothingToClear(req[r].snap) /\ users' = users
           \/ At(r, "clear") /\ Put(req[r].uid, ClearedRow(r))
<1> RequestsOK /\ WellFormed(req[r])
  BY DEF Typed, RequestsOK
<1>1. ~Guard(r) /\ ~UsersServiceStep(r)
  BY UsersServiceKeeps DEF Guard, WellFormed, GuardedOps, AdminOps, SelfOps
<1>2. LoginLookup(r) \/ LoginVerify(r) \/ LoginCount(r) \/ LoginClear(r)
  BY <1>1 DEF Step, AuthServiceStep, CreateLookup, RegisterInsert, RefreshLookup, RefreshVerify,
     StoreTokens, LogoutSelf, LogoutWrite, ChangePasswordSelf, ChangePasswordFind,
     ChangePasswordWrite, WellFormed
<1>3. ~LoginLookup(r) /\ ~LoginCount(r)
  BY GotoFields, RememberFields, ReplyFields DEF LoginLookup, LoginCount
<1>4. CASE LoginVerify(r)
  BY <1>4, GotoFields, GotoNowFields, ReplyFields DEF LoginVerify, PasswordMatches
<1>5. CASE LoginClear(r)
  BY <1>5 DEF LoginClear
<1> QED
  BY <1>2, <1>3, <1>4, <1>5

\* When logins do not overlap a login that is accepted leaves no failure on the
\* counter: the row that clearFailedLogins finds clean is the row in the table.
THEOREM SuccessesReset ==
    ASSUME MaxInFlight = 1
    PROVE  Spec => SuccessResets
<1>1. ASSUME Typed, Informed, SerialInv, [Next]_vars, NEW r \in Requests,
             Op(r) = "login", ~At(r, "store"), req'[r].pc = "store"
      PROVE  users'[req[r].uid].failedLoginAttempts = 0
  <2>1. /\ TableOK /\ Steady(r) /\ \A q \in Requests : Knows(q)
        /\ req[r].pc \in Bound => req[r].uid \in Ids
    BY <1>1 DEF Typed, RequestsOK, WellFormed, SerialInv, Informed
  <2>2. Step(r)
    <3>1. ASSUME NEW q \in Requests, Arrive(q)
          PROVE  FALSE
      BY <1>1, <2>1, <3>1, ArriveBegins DEF Begins, Others, IdleRequest, NoCall
    <3>2. ASSUME NEW q \in Requests, Step(q)
          PROVE  q = r
      <4>1. Stepped(q)
        BY <1>1, <2>1, <3>2, StepReports
      <4> QED
        BY <1>1, <4>1 DEF Stepped, Goes, Carries, Others
    <3>3. ASSUME NEW q \in Requests, QueryFails(q)
          PROVE  FALSE
      BY <1>1, <3>3, ReplyFields DEF QueryFails, Throw, Others, Typed
    <3>4. ASSUME NEW q \in Requests, Crash(q)
          PROVE  FALSE
      BY <1>1, <2>1, <3>4, CrashCrashes DEF Crashes
    <3> QED
      BY <1>1, <3>1, <3>2, <3>3, <3>4 DEF Next, vars, Fault, Tick, Quiet
  <2>3. CASE /\ At(r, "verify") /\ req[r].uid # None
             /\ NothingToClear(req[r].snap) /\ users' = users
    BY <2>1, <2>3 DEF Steady, Fresh, NothingToClear
  <2>4. CASE At(r, "clear") /\ Put(req[r].uid, ClearedRow(r))
    <3>1. req[r].uid \in Ids /\ users[req[r].uid] \in Row
      BY <2>1, <2>4 DEF Bound, TableOK
    <3>2. ClearedRow(r).failedLoginAttempts = 0
      BY <3>1 DEF ClearedRow, Current, Row
    <3> QED
      BY <2>1, <2>4, <3>1, <3>2 DEF Put, TableOK
  <2> QED
    BY <1>1, <2>2, <2>3, <2>4, LoginAccepted
<1> DEFINE Resets == \A r \in Requests :
                        /\ Op(r) = "login" /\ ~At(r, "store") /\ req'[r].pc = "store"
                        => users'[req[r].uid].failedLoginAttempts = 0
<1>2. Typed /\ Informed /\ SerialInv /\ [Next]_vars => [Resets]_vars
  BY <1>1
<1>3. Spec => []SerialInv
  BY SerialAlways
<1> QED
  BY <1>2, <1>3, TypedAlways, InformedAlways, PTL DEF Spec, SuccessResets
=============================================================================
