---------------------------- MODULE AuthApiProofs ----------------------------
(***************************************************************************)
(* Invariance proofs, for every set of accounts, requests and calls.       *)
(***************************************************************************)
EXTENDS AuthApiSafety, TLAPS

-----------------------------------------------------------------------------
(* The inductive invariant behind TypeOK: a handler that writes knows the  *)
(* account it works on, a guarded handler has a token, and a handler is    *)
(* only at the steps of its own kind of call.                              *)
Bound == {"count", "clear", "store", "self", "find", "check", "write", "reload"}

WellFormed(q) ==
    /\ q.pc # "idle" => q.call \in Calls
    /\ q.pc # "idle" /\ q.call.op \in GuardedOps \cup {"refresh"} => q.tok \in Token
    /\ q.pc = "guard" => q.call.op \in GuardedOps
    /\ q.pc \in Bound => q.uid \in Ids
    /\ q.pc \in {"idle", "guard"} => q.uid = None
    /\ q.pc = "insert" => q.call.op = "register"
    /\ q.pc = "write" => q.call.op \in GuardedOps
    /\ q.at <= now

RequestsOK == req \in [Requests -> Request] /\ \A r \in Requests : WellFormed(req[r])
TableOK == users \in [Ids -> Row]
AuditOK == audit \subseteq AuditRow
ClockOK == now \in Nat /\ tokens \subseteq Token /\ faults \in Nat

Typed == RequestsOK /\ TableOK /\ AuditOK /\ ClockOK

USE DEF At, Op

-----------------------------------------------------------------------------
(* One request moves on; the others do not. *)

\* ActedAsAdmin, of the record of a request.
Acted(q) == q.call.op \in AdminOps /\ q.uid # None

\* From q to p a request that acts as an administrator keeps its call and its
\* account, and one that begins to do so is sent by an administrator.
Succeeds(q, p) ==
    /\ Acted(q) => p.call = q.call /\ p.uid = q.uid
    /\ Acted(p) => /\ p.tok = q.tok
                   /\ Acted(q) \/ users[q.tok.sub].role = "admin"

Entitled == \A r \in Requests : Succeeds(req[r], req'[r])

Carried == RequestsOK' /\ Entitled

\* Replacing the record of one request by a well-formed one keeps them all so.
LEMMA OneRequest ==
    ASSUME RequestsOK, NEW r \in Requests, NEW q \in Request, WellFormed(q),
           Succeeds(req[r], q), now' = now, req' = [req EXCEPT ![r] = q]
    PROVE  Carried
<1>1. RequestsOK'
  BY DEF RequestsOK, WellFormed
<1>2. Entitled
  BY DEF Entitled, Succeeds, RequestsOK
<1> QED
  BY <1>1, <1>2 DEF Carried

LEMMA GotoOK ==
    ASSUME RequestsOK, NEW r \in Requests, InFlight(r), now' = now,
           NEW pc \in Steps \ {"guard"}, pc \in Bound => req[r].uid \in Ids,
           pc = "insert" => Op(r) = "register", pc = "write" => Op(r) \in GuardedOps,
           Goto(r, pc)
    PROVE  Carried
<1> DEFINE q == [req[r] EXCEPT !.pc = pc]
<1>1. req[r] \in Request /\ WellFormed(req[r]) /\ req[r].pc # "idle"
  BY DEF RequestsOK, InFlight, Steps
<1>2. q \in Request
  BY <1>1 DEF Request
<1>3. WellFormed(q)
  BY <1>1 DEF WellFormed, Request, Steps
<1>4. req' = [req EXCEPT ![r] = q]
  BY DEF Goto
<1>5. Succeeds(req[r], q)
  BY <1>1 DEF Succeeds, Acted, Request, WellFormed
<1> QED
  BY <1>2, <1>3, <1>4, <1>5, OneRequest

LEMMA GotoNowOK ==
    ASSUME RequestsOK, now \in Nat, NEW r \in Requests, InFlight(r), now' = now,
           NEW pc \in Steps \ {"guard", "insert", "write"}, req[r].uid \in Ids,
           GotoNow(r, pc)
    PROVE  Carried
<1> DEFINE q == [req[r] EXCEPT !.pc = pc, !.at = now]
<1>1. req[r] \in Request /\ WellFormed(req[r]) /\ req[r].pc # "idle"
  BY DEF RequestsOK, InFlight, Steps
<1>2. q \in Request
  BY <1>1 DEF Request
<1>3. WellFormed(q)
  BY <1>1 DEF WellFormed, Request, Steps
<1>4. req' = [req EXCEPT ![r] = q]
  BY DEF GotoNow
<1>5. Succeeds(req[r], q)
  BY <1>1 DEF Succeeds, Acted, Request, WellFormed
<1> QED
  BY <1>2, <1>3, <1>4, <1>5, OneRequest

LEMMA SignTokensOK ==
    ASSUME RequestsOK, now \in Nat, NEW r \in Requests, InFlight(r), now' = now,
           NEW u \in Ids, NEW row \in Row, SignTokens(r, u, row),
           u = req[r].uid \/ Op(r) \notin AdminOps
    PROVE  Carried
<1> DEFINE q == [req[r] EXCEPT !.pc = "store", !.uid = u, !.snap = row, !.at = now]
<1>1. req[r] \in Request /\ WellFormed(req[r]) /\ req[r].pc # "idle"
  BY DEF RequestsOK, InFlight, Steps
<1>2. q \in Request
  BY <1>1 DEF Request, Steps
<1>3. WellFormed(q)
  BY <1>1 DEF WellFormed, Request
<1>4. req' = [req EXCEPT ![r] = q]
  BY DEF SignTokens
<1>5. Succeeds(req[r], q)
  BY <1>1 DEF Succeeds, Acted, Request, WellFormed
<1> QED
  BY <1>2, <1>3, <1>4, <1>5, OneRequest

LEMMA RememberOK ==
    ASSUME RequestsOK, NEW r \in Requests, InFlight(r), now' = now,
           NEW pc \in Steps \ {"guard", "insert"}, NEW u \in Ids, NEW row \in Row,
           Remember(r, pc, u, row), pc = "write" => Op(r) \in GuardedOps,
           \/ u = req[r].uid
           \/ Op(r) \notin AdminOps
           \/ req[r].pc = "guard" /\ users[req[r].tok.sub].role = "admin"
    PROVE  Carried
<1> DEFINE q == [req[r] EXCEPT !.pc = pc, !.uid = u, !.snap = row]
<1>1. req[r] \in Request /\ WellFormed(req[r]) /\ req[r].pc # "idle"
  BY DEF RequestsOK, InFlight, Steps
<1>2. q \in Request
  BY <1>1 DEF Request
<1>3. WellFormed(q)
  BY <1>1 DEF WellFormed, Request, Steps
<1>4. req' = [req EXCEPT ![r] = q]
  BY DEF Remember
<1>5. Succeeds(req[r], q)
  BY <1>1 DEF Succeeds, Acted, Request, WellFormed
<1> QED
  BY <1>2, <1>3, <1>4, <1>5, OneRequest

LEMMA ReplyOK ==
    ASSUME RequestsOK, NEW r \in Requests, InFlight(r), now' = now,
           NEW status \in Nat, Reply(r, status)
    PROVE  Carried
<1> DEFINE q == [req[r] EXCEPT !.pc = "done", !.reply = status]
<1>1. req[r] \in Request /\ WellFormed(req[r]) /\ req[r].pc # "idle"
  BY DEF RequestsOK, InFlight, Steps
<1>2. q \in Request
  BY <1>1 DEF Request
<1>3. WellFormed(q)
  BY <1>1 DEF WellFormed, Request, Bound
<1>4. req' = [req EXCEPT ![r] = q]
  BY DEF Reply
<1>5. Succeeds(req[r], q)
  BY <1>1 DEF Succeeds, Acted, Request, WellFormed
<1> QED
  BY <1>2, <1>3, <1>4, <1>5, OneRequest

-----------------------------------------------------------------------------
(* The rows of the trail. *)

LEMMA AuditActionType ==
    ASSUME NEW call \in Call
    PROVE  AuditAction(call.op) \in {"register", "login", "logout", "token_refresh",
             "password_change", "user_updated", "user_deleted", "user_restored"}
BY DEF Call, AuthOps, AdminOps, AuditAction

LEMMA EventRowType ==
    ASSUME RequestsOK, NEW r \in Requests, InFlight(r),
           NEW status \in {"success", "failure"}
    PROVE  /\ AuthRow(r, status) \in AuditRow
           /\ UserRow(r, status) \in AuditRow
<1>1. req[r] \in Request /\ req[r].call \in Call
  BY CallsAssumption DEF RequestsOK, WellFormed, InFlight, Steps
<1>2. /\ req[r].uid \in Ids \cup {None}
      /\ req[r].tok.sub \in Ids \cup {None}
  BY <1>1 DEF Request, Token, NoToken
<1>3. AuditAction(req[r].call.op) \in {"register", "login", "logout", "token_refresh",
        "password_change", "user_updated", "user_deleted", "user_restored"}
  BY <1>1, AuditActionType
<1> QED
  BY <1>2, <1>3 DEF AuthRow, UserRow, EventRow, AuditRow, AuditActions

LEMMA CatchRowsType ==
    ASSUME RequestsOK, NEW r \in Requests, InFlight(r)
    PROVE  CatchRows(r) \subseteq AuditRow
<1>1. FailureRow(r) \in AuditRow
  BY EventRowType DEF FailureRow
<1>2. EventRow(r, "user_created", "failure", None, None) \in AuditRow
  BY DEF EventRow, AuditRow, AuditActions
<1> QED
  BY <1>1, <1>2 DEF CatchRows

LEMMA ThrowOK ==
    ASSUME RequestsOK, AuditOK, NEW r \in Requests, InFlight(r), now' = now,
           NEW status \in Nat, Throw(r, status)
    PROVE  Carried /\ AuditOK'
<1>1. AuditOK'
  BY CatchRowsType DEF AuditOK, Throw, Log
<1>2. Carried
  <2> DEFINE answer == IF Op(r) = "refresh" THEN 403 ELSE status
  <2>1. answer \in Nat /\ Reply(r, answer)
    BY DEF Throw
  <2> QED
    BY <2>1, ReplyOK
<1> QED
  BY <1>1, <1>2

LEMMA LogOK ==
    ASSUME RequestsOK, AuditOK, NEW r \in Requests, InFlight(r),
           NEW status \in {"success", "failure"},
           Log({AuthRow(r, status)}) \/ Log({UserRow(r, status)})
    PROVE  AuditOK'
BY EventRowType DEF AuditOK, Log

-----------------------------------------------------------------------------
(* The rows of the table. *)

LEMMA WrittenRowType ==
    ASSUME RequestsOK, TableOK, NEW r \in Requests, InFlight(r), req[r].uid \in Ids
    PROVE  /\ Current(r) \in Row
           /\ CountedRow(r) \in Row
           /\ ClearedRow(r) \in Row
           /\ \A digest \in Ids \cup {None} : SessionRow(r, digest) \in Row
           /\ RepasswordedRow(r) \in Row
           /\ ~GivesNull(r) => PatchedRow(r) \in Row
           /\ RemovedRow(r) \in Row
           /\ RestoredRow(r) \in Row
<1>1. req[r] \in Request /\ req[r].call \in Call /\ req[r].snap \in Row
  BY CallsAssumption DEF RequestsOK, WellFormed, InFlight, Steps, Request
<1>2. Current(r) \in Row
  BY DEF TableOK, Current
<1>3. CountedRow(r) \in Row
  <2> DEFINE attempts == req[r].snap.failedLoginAttempts + 1
             lock == IF attempts >= MaxAttempts THEN req[r].at + LockDuration ELSE 0
  <2>1. attempts \in Nat /\ req[r].at + LockDuration \in Nat
    BY <1>1, PolicyAssumption DEF Request, Row
  <2>2. lock \in Nat
    BY <2>1
  <2>3. CountedRow(r) = [Current(r) EXCEPT !.failedLoginAttempts = attempts,
                                           !.lockedUntil = lock]
    BY DEF CountedRow, Snap
  <2> HIDE DEF attempts, lock
  <2> QED
    BY <1>2, <2>1, <2>2, <2>3 DEF Row
<1>4. ClearedRow(r) \in Row
  BY <1>2 DEF ClearedRow, Row
<1>5. \A digest \in Ids \cup {None} : SessionRow(r, digest) \in Row
  BY <1>2 DEF SessionRow, Row
<1>6. RepasswordedRow(r) \in Row
  BY <1>1, <1>2 DEF RepasswordedRow, Row, Call
<1>7. ~GivesNull(r) => PatchedRow(r) \in Row
  <2> SUFFICES ASSUME ~GivesNull(r) PROVE PatchedRow(r) \in Row
    OBVIOUS
  <2>1. /\ req[r].call.email \in Emails \cup {None}
        /\ req[r].call.role \in Roles \cup {None}
        /\ req[r].call.isActive \in Activity \cup {None}
    BY <1>1 DEF Call, GivesNull
  <2> QED
    BY <1>2, <2>1 DEF PatchedRow, Given, Row
<1>8. RemovedRow(r) \in Row /\ RestoredRow(r) \in Row
  BY <1>2 DEF RemovedRow, RestoredRow, Row
<1> QED
  BY <1>2, <1>3, <1>4, <1>5, <1>6, <1>7, <1>8

LEMMA FreshRowType ==
    ASSUME NEW email \in Emails \cup {None}, NEW password \in Passwords \cup {None}
    PROVE  FreshRow(email, password) \in Row
BY DEF FreshRow, AbsentRow, Row, Roles, Activity

LEMMA PutOK ==
    ASSUME TableOK, NEW u \in Ids, NEW row \in Row, Put(u, row)
    PROVE  TableOK'
BY DEF TableOK, Put

-----------------------------------------------------------------------------
(* An update of u, by whomever, that may have made it an administrator.    *)
Promoted(r, u) ==
    /\ ActedAsAdmin(r) /\ Op(r) = "update" /\ req[r].uid = u
    /\ req[r].call.role = "admin"

(* What a step may do to the table: at most one row changes, and the       *)
(* changed row takes no address that a live account has, keeps its lock    *)
(* columns consistent and is an administrator's only by a promotion.       *)
KeepsAddress(u, row) == row.status = users[u].status /\ row.email = users[u].email
KeepsLock(u, row) ==
    /\ row.failedLoginAttempts = users[u].failedLoginAttempts
    /\ row.lockedUntil = users[u].lockedUntil
KeepsRole(u, row) ==
    row.role = "admin" => users[u].role = "admin" \/ \E r \in Requests : Promoted(r, u)
SoundLock(row) ==
    /\ row.lockedUntil # 0 <=> row.failedLoginAttempts >= MaxAttempts
    /\ row.lockedUntil <= now + LockDuration

Lawful(u, row) ==
    /\ KeepsAddress(u, row) \/ ~Collides(u, row)
    /\ KeepsLock(u, row) \/ SoundLock(row)
    /\ KeepsRole(u, row)

Effect ==
    \/ users' = users
    \/ \E u \in Ids : \E row \in Row : Put(u, row) /\ Lawful(u, row)

LEMMA WrittenRowLawful ==
    ASSUME RequestsOK, TableOK, now \in Nat, NEW r \in Requests, InFlight(r),
           req[r].uid \in Ids
    PROVE  LET u == req[r].uid
           IN /\ Lawful(u, CountedRow(r))
              /\ Lawful(u, ClearedRow(r))
              /\ \A digest \in Ids \cup {None} : Lawful(u, SessionRow(r, digest))
              /\ Lawful(u, RepasswordedRow(r))
              /\ ~Collides(u, PatchedRow(r)) /\ Op(r) \in {"profile", "update"}
                   => Lawful(u, PatchedRow(r))
              /\ Lawful(u, RemovedRow(r))
              /\ ~Collides(u, RestoredRow(r)) => Lawful(u, RestoredRow(r))
<1> DEFINE u == req[r].uid
<1>1. users[u] \in Row /\ req[r].at \in Nat /\ req[r].at <= now
      /\ req[r].snap.failedLoginAttempts \in Nat
  BY DEF TableOK, RequestsOK, WellFormed, Request, Row
<1>2. Lawful(u, CountedRow(r))
  <2> DEFINE attempts == req[r].snap.failedLoginAttempts + 1
             lock == IF attempts >= MaxAttempts THEN req[r].at + LockDuration ELSE 0
  <2>1. CountedRow(r) = [users[u] EXCEPT !.failedLoginAttempts = attempts,
                                         !.lockedUntil = lock]
    BY DEF CountedRow, Snap, Current
  <2>2. /\ attempts \in Nat /\ lock \in Nat
        /\ lock # 0 <=> attempts >= MaxAttempts
        /\ lock <= now + LockDuration
    BY <1>1, PolicyAssumption
  <2> HIDE DEF attempts, lock, u
  <2>3. KeepsAddress(u, CountedRow(r)) /\ KeepsRole(u, CountedRow(r))
    BY <1>1, <2>1 DEF KeepsAddress, KeepsRole, Row
  <2>4. SoundLock(CountedRow(r))
    BY <1>1, <2>1, <2>2 DEF SoundLock, Row
  <2> QED
    BY <2>3, <2>4 DEF Lawful
<1>3. Lawful(u, ClearedRow(r))
  BY <1>1, PolicyAssumption
     DEF ClearedRow, Current, Lawful, KeepsAddress, KeepsRole, SoundLock, Row
<1>4. \A digest \in Ids \cup {None} : Lawful(u, SessionRow(r, digest))
  BY <1>1 DEF SessionRow, Current, Lawful, KeepsAddress, KeepsLock, KeepsRole, Row
<1>5. Lawful(u, RepasswordedRow(r))
  BY <1>1 DEF RepasswordedRow, Current, Lawful, KeepsAddress, KeepsLock, KeepsRole, Row
<1>6. ~Collides(u, PatchedRow(r)) /\ Op(r) \in {"profile", "update"}
        => Lawful(u, PatchedRow(r))
  <2> SUFFICES ASSUME ~Collides(u, PatchedRow(r)), Op(r) \in {"profile", "update"}
               PROVE  Lawful(u, PatchedRow(r))
    OBVIOUS
  <2>1. KeepsLock(u, PatchedRow(r))
    BY <1>1 DEF PatchedRow, Current, KeepsLock, Row
  <2>2. PatchedRow(r).role = Given(req[r].call.role, users[u].role)
    BY <1>1 DEF PatchedRow, Current, Row
  <2>3. req[r].call \in Calls
    BY DEF RequestsOK, WellFormed, InFlight, Steps
  <2>4. CASE Op(r) = "profile"
    BY <2>1, <2>2, <2>3, <2>4, CallsAssumption DEF Given, KeepsRole, Lawful
  <2>5. CASE Op(r) = "update"
    <3>1. ActedAsAdmin(r)
      BY <2>5, NoneIsNoValue DEF ActedAsAdmin, AdminOps
    <3>2. req[r].call.role = "admin" => Promoted(r, u)
      BY <2>5, <3>1 DEF Promoted
    <3> QED
      BY <2>1, <2>2, <3>2 DEF Given, KeepsRole, Lawful
  <2> QED
    BY <2>4, <2>5
<1>7. Lawful(u, RemovedRow(r))
  BY <1>1 DEF RemovedRow, Current, Lawful, Collides, KeepsLock, KeepsRole, Row
<1>8. ~Collides(u, RestoredRow(r)) => Lawful(u, RestoredRow(r))
  BY <1>1 DEF RestoredRow, Current, Lawful, KeepsLock, KeepsRole, Row
<1> QED
  BY <1>2, <1>3, <1>4, <1>5, <1>6, <1>7, <1>8

LEMMA FreshRowLawful ==
    ASSUME now \in Nat, NEW u \in Ids, NEW email, NEW password,
           ~Collides(u, FreshRow(email, password))
    PROVE  Lawful(u, FreshRow(email, password))
BY PolicyAssumption DEF Lawful, SoundLock, KeepsRole, FreshRow, AbsentRow

\* An UPDATE of the handler's own account that may run is typed and lawful.
LEMMA WriteOK ==
    ASSUME RequestsOK, TableOK, now \in Nat, NEW u \in Ids,
           NEW row \in Row, Put(u, row), Lawful(u, row)
    PROVE  TableOK' /\ Effect
BY PutOK DEF Effect

LEMMA AtBound ==
    ASSUME RequestsOK, NEW r \in Requests, req[r].pc \in Bound
    PROVE  InFlight(r) /\ req[r].uid \in Ids
BY DEF RequestsOK, WellFormed, InFlight, Bound, Steps

-----------------------------------------------------------------------------
(* Every step of a handler keeps the request, the trail and the table      *)
(* typed, has a lawful effect on the table and entitles nobody wrongly.    *)
Kept == Carried /\ AuditOK' /\ TableOK' /\ Effect

LEMMA Unwritten ==
    ASSUME TableOK, users' = users
    PROVE  TableOK' /\ Effect
BY DEF TableOK, Effect

LEMMA UsersServiceKept ==
    ASSUME Typed, NEW r \in Requests, UsersServiceStep(r)
    PROVE  Kept
<1> USE DEF Kept
<1> RequestsOK /\ TableOK /\ AuditOK /\ now \in Nat /\ now' = now
  BY DEF Typed, ClockOK, UsersServiceStep
<1>0. InFlight(r) /\ req[r].uid \in Ids
  BY AtBound DEF UsersServiceStep, UpdateFind, UpdateCheck, UpdateWrite,
       UpdateReload, RemoveFind, RemoveWrite, RestoreFind, RestoreCheck,
       RestoreWrite, RestoreReload, Bound
<1>1. Current(r) \in Row
  BY <1>0, WrittenRowType
<1>2. CASE UpdateFind(r)
  <2>1. TableOK' /\ Effect
    BY <1>2, Unwritten DEF UpdateFind
  <2>2. CASE Throw(r, 404)
    BY <1>0, <2>1, <2>2, ThrowOK
  <2>3. CASE /\ Remember(r, IF req[r].call.email \in {None, Null, Current(r).email}
                            THEN "write" ELSE "check", req[r].uid, Current(r))
             /\ UNCHANGED audit
    <3> DEFINE pc == IF req[r].call.email \in {None, Null, Current(r).email}
                     THEN "write" ELSE "check"
    <3>1. pc \in Steps \ {"guard", "insert"}
      BY DEF Steps
    <3> HIDE DEF pc
    <3>2. Carried
      BY <1>0, <1>1, <1>2, <2>3, <3>1, RememberOK DEF pc, UpdateFind, GuardedOps, AdminOps, SelfOps
    <3> QED
      BY <2>1, <2>3, <3>2 DEF AuditOK
  <2> QED
    BY <1>2, <2>2, <2>3 DEF UpdateFind
<1>3. CASE UpdateCheck(r)
  <2>1. TableOK' /\ Effect
    BY <1>3, Unwritten DEF UpdateCheck
  <2>2. CASE Log({UserRow(r, "failure")}) /\ Reply(r, 409)
    <3>1. AuditOK'
      BY <1>0, <2>2, LogOK
    <3>2. Carried
      BY <1>0, <2>2, ReplyOK
    <3> QED
      BY <2>1, <3>1, <3>2
  <2>3. CASE Goto(r, "write") /\ UNCHANGED audit
    BY <1>0, <1>3, <2>1, <2>3, GotoOK DEF UpdateCheck, AuditOK, Steps, GuardedOps, AdminOps, SelfOps
  <2> QED
    BY <1>3, <2>2, <2>3 DEF UpdateCheck
<1>4. CASE UpdateWrite(r)
  <2>1. CASE Throw(r, UniqueViolation) /\ UNCHANGED users
    BY <1>0, <2>1, ThrowOK, Unwritten DEF UniqueViolation
  <2>2. CASE Throw(r, QueryFailed) /\ UNCHANGED users
    BY <1>0, <2>2, ThrowOK, Unwritten DEF QueryFailed
  <2>3. CASE /\ ~GivesNull(r)
             /\ ~Collides(req[r].uid, PatchedRow(r))
             /\ Put(req[r].uid, PatchedRow(r))
             /\ Goto(r, "reload")
             /\ UNCHANGED audit
    <3>1. TableOK' /\ Effect
      BY <1>0, <1>4, <2>3, WrittenRowType, WrittenRowLawful, WriteOK DEF UpdateWrite
    <3>2. Carried
      BY <1>0, <2>3, GotoOK DEF Steps
    <3> QED
      BY <2>3, <3>1, <3>2 DEF AuditOK
  <2> QED
    BY <1>4, <2>1, <2>2, <2>3 DEF UpdateWrite
<1>5. CASE UpdateReload(r)
  <2>1. TableOK' /\ Effect
    BY <1>5, Unwritten DEF UpdateReload
  <2>2. CASE Throw(r, 404)
    BY <1>0, <2>1, <2>2, ThrowOK
  <2>3. CASE Log({UpdatedRow(r)}) /\ Reply(r, 200)
    <3>1. req[r] \in Request /\ req[r].call \in Call
      BY <1>0, CallsAssumption DEF RequestsOK, WellFormed, InFlight, Steps
    <3>2. /\ req[r].call.role \in Roles \cup {None, Null}
          /\ req[r].snap.role \in Roles
      BY <3>1 DEF Request, Call, Row
    <3>3. UserRow(r, "success") \in AuditRow
      BY <1>0, EventRowType
    <3>4. UpdatedRow(r) \in AuditRow
      BY <3>2, <3>3 DEF UpdatedRow, AuditRow, AuditActions, Snap
    <3>5. Carried
      BY <1>0, <2>3, ReplyOK
    <3> QED
      BY <2>1, <2>3, <3>4, <3>5 DEF AuditOK, Log
  <2> QED
    BY <1>5, <2>2, <2>3 DEF UpdateReload
<1>6. CASE RemoveFind(r)
  <2>1. TableOK' /\ Effect
    BY <1>6, Unwritten DEF RemoveFind
  <2>2. CASE Throw(r, 404)
    BY <1>0, <2>1, <2>2, ThrowOK
  <2>3. CASE Goto(r, "write") /\ UNCHANGED audit
    BY <1>0, <1>6, <2>1, <2>3, GotoOK DEF RemoveFind, AuditOK, Steps, GuardedOps, AdminOps
  <2> QED
    BY <1>6, <2>2, <2>3 DEF RemoveFind
<1>7. CASE RemoveWrite(r)
  <2>1. TableOK' /\ Effect
    BY <1>0, <1>7, WrittenRowType, WrittenRowLawful, WriteOK DEF RemoveWrite
  <2> QED
    BY <1>0, <1>7, <2>1, LogOK, ReplyOK DEF RemoveWrite
<1>8. CASE RestoreFind(r)
  <2>1. TableOK' /\ Effect
    BY <1>8, Unwritten DEF RestoreFind
  <2>2. CASE Throw(r, 404) \/ Throw(r, 400)
    BY <1>0, <2>1, <2>2, ThrowOK
  <2>3. CASE Remember(r, "check", req[r].uid, Current(r)) /\ UNCHANGED audit
    BY <1>0, <1>1, <2>1, <2>3, RememberOK DEF AuditOK, Steps
  <2> QED
    BY <1>8, <2>2, <2>3 DEF RestoreFind
<1>9. CASE RestoreCheck(r)
  <2>1. TableOK' /\ Effect
    BY <1>9, Unwritten DEF RestoreCheck
  <2>2. CASE Log({UserRow(r, "failure")}) /\ Reply(r, 409)
    <3>1. AuditOK'
      BY <1>0, <2>2, LogOK
    <3>2. Carried
      BY <1>0, <2>2, ReplyOK
    <3> QED
      BY <2>1, <3>1, <3>2
  <2>3. CASE Goto(r, "write") /\ UNCHANGED audit
    BY <1>0, <1>9, <2>1, <2>3, GotoOK DEF RestoreCheck, AuditOK, Steps, GuardedOps, AdminOps
  <2> QED
    BY <1>9, <2>2, <2>3 DEF RestoreCheck
<1>10. CASE RestoreWrite(r)
  <2>1. CASE Throw(r, UniqueViolation) /\ UNCHANGED users
    BY <1>0, <2>1, ThrowOK, Unwritten DEF UniqueViolation
  <2>2. CASE /\ ~Collides(req[r].uid, RestoredRow(r))
             /\ Put(req[r].uid, RestoredRow(r))
             /\ Log({UserRow(r, "success")})
             /\ Goto(r, "reload")
    <3>1. TableOK' /\ Effect
      BY <1>0, <2>2, WrittenRowType, WrittenRowLawful, WriteOK
    <3>2. Carried /\ AuditOK'
      BY <1>0, <2>2, GotoOK, LogOK DEF Steps
    <3> QED
      BY <3>1, <3>2
  <2> QED
    BY <1>10, <2>1, <2>2 DEF RestoreWrite
<1>11. CASE RestoreReload(r)
  <2>1. TableOK' /\ Effect
    BY <1>11, Unwritten DEF RestoreReload
  <2>2. CASE Throw(r, 404)
    BY <1>0, <2>1, <2>2, ThrowOK
  <2>3. CASE Reply(r, 200) /\ UNCHANGED audit
    BY <1>0, <2>1, <2>3, ReplyOK DEF AuditOK
  <2> QED
    BY <1>11, <2>2, <2>3 DEF RestoreReload
<1> QED
  BY <1>2, <1>3, <1>4, <1>5, <1>6, <1>7, <1>8, <1>9, <1>10, <1>11
     DEF UsersServiceStep

\* The pair a handler is about to store is a pair for its account.
LEMMA SignedType ==
    ASSUME RequestsOK, NEW r \in Requests, req[r].uid \in Ids
    PROVE  Signed(r) \in Token /\ Digest(Signed(r)) \in Ids
BY DEF RequestsOK, Request, Signed, Token, Digest

LEMMA AuthServiceKept ==
    ASSUME Typed, NEW r \in Requests, AuthServiceStep(r)
    PROVE  Kept /\ tokens' \subseteq Token
<1> USE DEF Kept
<1> RequestsOK /\ TableOK /\ AuditOK /\ now \in Nat /\ now' = now /\ tokens \subseteq Token
  BY DEF Typed, ClockOK, AuthServiceStep
<1>0. InFlight(r)
  BY DEF AuthServiceStep, CreateLookup, RegisterInsert, LoginLookup, LoginVerify,
       LoginCount, LoginClear, RefreshLookup, RefreshVerify, StoreTokens, LogoutSelf, LogoutWrite,
       ChangePasswordSelf, ChangePasswordFind, ChangePasswordWrite, InFlight, Steps
<1>1. req[r] \in Request /\ WellFormed(req[r]) /\ req[r].call \in Calls
      /\ req[r].call \in Call /\ req[r].snap \in Row
  BY <1>0, CallsAssumption DEF RequestsOK, WellFormed, InFlight, Steps, Request
<1>2. CASE CreateLookup(r) /\ UNCHANGED tokens
  <2>1. TableOK' /\ Effect
    BY <1>2, Unwritten DEF CreateLookup
  <2>2. CASE Throw(r, 409)
    BY <1>0, <1>2, <2>1, <2>2, ThrowOK
  <2>3. CASE Goto(r, "insert") /\ UNCHANGED audit
    BY <1>0, <1>2, <2>1, <2>3, GotoOK DEF CreateLookup, AuditOK, Steps, Bound
  <2> QED
    BY <1>2, <2>2, <2>3 DEF CreateLookup
<1>3. CASE RegisterInsert(r)
  <2> DEFINE row == FreshRow(req[r].call.email, req[r].call.password)
  <2>1. row \in Row
    <3>1. Op(r) = "register"
      BY <1>1, <1>3 DEF RegisterInsert, WellFormed
    <3> QED
      BY <1>1, <3>1, CallsAssumption, FreshRowType
  <2>2. CASE Throw(r, UniqueViolation) /\ UNCHANGED users
    BY <1>0, <1>3, <2>2, ThrowOK, Unwritten DEF UniqueViolation, RegisterInsert
  <2>3. CASE \E u \in Ids : /\ users[u].status = "absent" /\ ~Collides(u, row)
                            /\ Created(r, u, row)
                            /\ SignTokens(r, u, row)
    <3>1. PICK u \in Ids : ~Collides(u, row) /\ Created(r, u, row) /\ SignTokens(r, u, row)
      BY <2>3
    <3>2. Lawful(u, row)
      BY <3>1, FreshRowLawful
    <3>3. EventRow(r, "user_created", "success", u, u) \in AuditRow
      BY DEF EventRow, AuditRow, AuditActions
    <3> HIDE DEF row
    <3>4. TableOK' /\ Effect
      BY <2>1, <3>1, <3>2, WriteOK DEF Created
    <3>5. Carried
      <4>1. Op(r) \notin AdminOps
        BY <1>1, <1>3 DEF RegisterInsert, WellFormed, AdminOps
      <4> QED
        BY <1>0, <2>1, <3>1, <4>1, SignTokensOK
    <3> QED
      BY <1>3, <3>1, <3>3, <3>4, <3>5 DEF AuditOK, Created, Log, RegisterInsert
  <2> QED
    BY <1>3, <2>2, <2>3 DEF RegisterInsert
<1>4. CASE LoginLookup(r)
  <2>1. TableOK' /\ Effect /\ AuditOK' /\ tokens' \subseteq Token
    BY <1>4, Unwritten DEF LoginLookup, AuditOK
  <2>2. CASE \E u \in HoldersOf(req[r].call.email) : Remember(r, "verify", u, users[u])
    <3>1. PICK u \in Ids : Remember(r, "verify", u, users[u])
      BY <2>2 DEF HoldersOf
    <3>2. Carried
      BY <1>0, <1>4, <3>1, RememberOK DEF LoginLookup, Steps, TableOK, AdminOps
    <3> QED
      BY <2>1, <3>2
  <2>3. CASE Goto(r, "verify")
    BY <1>0, <2>1, <2>3, GotoOK DEF Steps, Bound
  <2> QED
    BY <1>4, <2>2, <2>3 DEF LoginLookup
<1>5. CASE LoginVerify(r)
  <2>1. TableOK' /\ Effect /\ tokens' \subseteq Token
    BY <1>5, Unwritten DEF LoginVerify
  <2>2. req[r].uid # None => req[r].uid \in Ids
    BY <1>1 DEF Request
  <2>3. CASE req[r].uid # None /\ GotoNow(r, "count") /\ UNCHANGED audit
    BY <1>0, <2>1, <2>2, <2>3, GotoNowOK DEF AuditOK, Steps
  <2>4. CASE Log({AuthRow(r, "failure")}) /\ (Reply(r, 401) \/ Reply(r, 403))
    <3>1. AuditOK'
      BY <1>0, <2>4, LogOK
    <3>2. Carried
      BY <1>0, <2>4, ReplyOK
    <3> QED
      BY <2>1, <3>1, <3>2
  <2>5. CASE /\ PasswordMatches(r)
             /\ Log({AuthRow(r, "success")})
             /\ IF NothingToClear(Snap(r))
                THEN SignTokens(r, req[r].uid, Snap(r))
                ELSE Goto(r, "clear")
    <3>1. AuditOK'
      BY <1>0, <2>5, LogOK
    <3>2. req[r].uid \in Ids
      BY <2>2, <2>5 DEF PasswordMatches
    <3>3. CASE SignTokens(r, req[r].uid, Snap(r))
      BY <1>0, <1>1, <2>1, <3>1, <3>2, <3>3, SignTokensOK DEF Snap
    <3>4. CASE Goto(r, "clear")
      BY <1>0, <2>1, <3>1, <3>2, <3>4, GotoOK DEF Steps
    <3> QED
      BY <2>5, <3>3, <3>4
  <2> QED
    BY <1>5, <2>3, <2>4, <2>5 DEF LoginVerify
<1>6. CASE LoginCount(r)
  <2>1. req[r].uid \in Ids
    BY <1>6, AtBound DEF LoginCount, Bound
  <2>2. TableOK' /\ Effect
    BY <1>0, <1>6, <2>1, WrittenRowType, WrittenRowLawful, WriteOK DEF LoginCount
  <2>3. AuditOK'
    BY <1>0, <1>6, LogOK DEF LoginCount
  <2>4. Carried
    BY <1>0, <1>6, ReplyOK DEF LoginCount
  <2> QED
    BY <1>6, <2>2, <2>3, <2>4 DEF LoginCount
<1>7. CASE LoginClear(r)
  <2>1. req[r].uid \in Ids
    BY <1>7, AtBound DEF LoginClear, Bound
  <2>2. TableOK' /\ Effect
    BY <1>0, <1>7, <2>1, WrittenRowType, WrittenRowLawful, WriteOK DEF LoginClear
  <2>3. Carried
    BY <1>0, <1>1, <1>7, <2>1, SignTokensOK DEF LoginClear, Snap
  <2> QED
    BY <1>7, <2>2, <2>3 DEF LoginClear, AuditOK
<1>8. CASE RefreshLookup(r)
  <2>1. TableOK' /\ Effect /\ tokens' \subseteq Token
    BY <1>8, Unwritten DEF RefreshLookup
  <2>2. CASE Throw(r, 403)
    BY <1>0, <2>1, <2>2, ThrowOK
  <2>3. CASE Remember(r, "verify", req[r].tok.sub, users[req[r].tok.sub]) /\ UNCHANGED audit
    <3>1. req[r].tok.sub \in Ids
      BY <1>1, <1>8 DEF RefreshLookup, WellFormed, Token
    <3> QED
      BY <1>0, <1>8, <2>1, <2>3, <3>1, RememberOK
         DEF RefreshLookup, TableOK, AuditOK, Steps, AdminOps
  <2> QED
    BY <1>8, <2>2, <2>3 DEF RefreshLookup
<1>9. CASE StoreTokens(r)
  <2>1. req[r].uid \in Ids
    BY <1>9, AtBound DEF StoreTokens, Bound
  <2>2. Signed(r) \in Token /\ Digest(Signed(r)) \in Ids
    BY <2>1, SignedType
  <2>3. TableOK' /\ Effect
    BY <1>0, <1>9, <2>1, <2>2, WrittenRowType, WrittenRowLawful, WriteOK DEF StoreTokens
  <2>4. AuditOK'
    <3>1. CASE UNCHANGED audit
      BY <3>1 DEF AuditOK
    <3>2. CASE Log({AuthRow(r, "success")})
      BY <1>0, <3>2, LogOK
    <3> QED
      BY <1>9, <3>1, <3>2 DEF StoreTokens
  <2>5. Carried
    BY <1>0, <1>9, ReplyOK DEF StoreTokens
  <2> QED
    BY <1>9, <2>2, <2>3, <2>4, <2>5 DEF StoreTokens
<1>10. CASE LogoutSelf(r)
  <2>1. req[r].uid \in Ids
    BY <1>10, AtBound DEF LogoutSelf, Bound
  <2> DEFINE row == IF FindLive(req[r].uid) THEN Current(r) ELSE AbsentRow
  <2>2. row \in Row
    BY <2>1 DEF TableOK, Current, AbsentRow, Row, Roles, Activity
  <2>3. Remember(r, "write", req[r].uid, row)
    BY <1>10 DEF LogoutSelf
  <2> HIDE DEF row
  <2>4. Carried
    BY <1>0, <1>10, <2>1, <2>2, <2>3, RememberOK DEF LogoutSelf, Steps, GuardedOps, SelfOps
  <2> QED
    BY <1>10, <2>4, Unwritten DEF LogoutSelf, AuditOK
<1>11. CASE LogoutWrite(r)
  <2>1. req[r].uid \in Ids
    BY <1>11, AtBound DEF LogoutWrite, Bound
  <2>2. TableOK' /\ Effect
    BY <1>0, <1>11, <2>1, WrittenRowType, WrittenRowLawful, WriteOK DEF LogoutWrite
  <2>3. AuditOK'
    <3>1. CASE UNCHANGED audit
      BY <3>1 DEF AuditOK
    <3>2. CASE Log({AuthRow(r, "success")})
      BY <1>0, <3>2, LogOK
    <3> QED
      BY <1>11, <3>1, <3>2 DEF LogoutWrite
  <2>4. Carried
    BY <1>0, <1>11, ReplyOK DEF LogoutWrite
  <2> QED
    BY <1>11, <2>2, <2>3, <2>4 DEF LogoutWrite
<1>12. CASE ChangePasswordSelf(r)
  <2>1. req[r].uid \in Ids
    BY <1>12, AtBound DEF ChangePasswordSelf, Bound
  <2>2. Carried
    BY <1>0, <1>12, <2>1, GotoOK DEF ChangePasswordSelf, Steps
  <2> QED
    BY <1>12, <2>2, Unwritten DEF ChangePasswordSelf, AuditOK
<1>13. CASE ChangePasswordFind(r)
  <2>1. TableOK' /\ Effect /\ tokens' \subseteq Token
    BY <1>13, Unwritten DEF ChangePasswordFind
  <2>2. CASE Throw(r, 404) \/ Throw(r, 400)
    BY <1>0, <2>1, <2>2, ThrowOK
  <2>3. CASE Remember(r, "write", req[r].uid, Current(r)) /\ UNCHANGED audit
    <3>1. req[r].uid \in Ids
      BY <1>13, AtBound DEF ChangePasswordFind, Bound
    <3>2. Current(r) \in Row
      BY <1>0, <3>1, WrittenRowType
    <3> QED
      BY <1>0, <1>13, <2>1, <2>3, <3>1, <3>2, RememberOK
         DEF ChangePasswordFind, Steps, AuditOK, GuardedOps, SelfOps
  <2> QED
    BY <1>13, <2>2, <2>3 DEF ChangePasswordFind
<1>14. CASE ChangePasswordWrite(r)
  <2>1. req[r].uid \in Ids
    BY <1>14, AtBound DEF ChangePasswordWrite, Bound
  <2>2. TableOK' /\ Effect
    BY <1>0, <1>14, <2>1, WrittenRowType, WrittenRowLawful, WriteOK DEF ChangePasswordWrite
  <2>3. AuditOK'
    BY <1>0, <1>14, LogOK DEF ChangePasswordWrite
  <2>4. Carried
    BY <1>0, <1>14, ReplyOK DEF ChangePasswordWrite
  <2> QED
    BY <1>14, <2>2, <2>3, <2>4 DEF ChangePasswordWrite
<1>15. CASE RefreshVerify(r)
  <2>1. TableOK' /\ Effect /\ tokens' \subseteq Token
    BY <1>15, Unwritten DEF RefreshVerify
  <2>2. CASE Throw(r, 403)
    BY <1>0, <2>1, <2>2, ThrowOK
  <2>3. CASE SignTokens(r, req[r].tok.sub, Snap(r)) /\ UNCHANGED audit
    <3>1. req[r].tok.sub \in Ids
      BY <1>1, <1>15 DEF RefreshVerify, WellFormed, Token
    <3> QED
      BY <1>0, <1>1, <1>15, <2>1, <2>3, <3>1, SignTokensOK
         DEF RefreshVerify, AuditOK, Snap, AdminOps
  <2> QED
    BY <1>15, <2>2, <2>3 DEF RefreshVerify
<1> QED
  BY <1>2, <1>3, <1>4, <1>5, <1>6, <1>7, <1>8, <1>9, <1>10, <1>11, <1>12,
     <1>13, <1>14, <1>15 DEF AuthServiceStep

-----------------------------------------------------------------------------
(* The actions of AuthApi. *)

LEMMA ArriveKept ==
    ASSUME Typed, NEW r \in Requests, Arrive(r)
    PROVE  Kept
<1> USE DEF Kept
<1>1. TableOK' /\ Effect /\ AuditOK' /\ now' = now /\ RequestsOK
  BY Unwritten DEF Typed, Arrive, AuditOK
<1>2. PICK call \in Calls : \E t \in TokensFor(call) :
        req' = [req EXCEPT ![r] = [@ EXCEPT
                  !.pc = IF call.op \in GuardedOps THEN "guard" ELSE "lookup",
                  !.call = call, !.tok = t]]
  BY DEF Arrive
<1>3. PICK t \in TokensFor(call) :
        req' = [req EXCEPT ![r] = [@ EXCEPT
                  !.pc = IF call.op \in GuardedOps THEN "guard" ELSE "lookup",
                  !.call = call, !.tok = t]]
  BY <1>2
<1> DEFINE pc == IF call.op \in GuardedOps THEN "guard" ELSE "lookup"
           q == [req[r] EXCEPT !.pc = pc, !.call = call, !.tok = t]
<1>4. /\ pc \in Steps /\ pc \notin Bound /\ call \in Call
      /\ t \in Token \cup {NoToken}
      /\ call.op \in GuardedOps \cup {"refresh"} => t \in Token
  BY CallsAssumption DEF Steps, Bound, TokensFor, Typed, ClockOK
<1>5. req[r] \in Request /\ req[r].at <= now
  BY <1>1 DEF RequestsOK, WellFormed
<1>6. req' = [req EXCEPT ![r] = q]
  BY <1>3
<1> HIDE DEF pc
<1>7. q \in Request
  BY <1>4, <1>5 DEF Request
<1>8. q.pc = pc /\ q.call = call /\ q.tok = t /\ q.at = req[r].at
  BY <1>5 DEF Request
<1> HIDE DEF q
<1>9. pc \in {"guard", "lookup"} /\ (pc = "guard" => call.op \in GuardedOps)
  BY DEF pc
<1>10. req[r].uid = None /\ q.uid = None
  BY <1>1, <1>5 DEF Arrive, RequestsOK, WellFormed, Request, q
<1>11. WellFormed(q)
  BY <1>4, <1>5, <1>8, <1>9, <1>10 DEF WellFormed
<1>12. Succeeds(req[r], q)
  BY <1>10 DEF Succeeds, Acted
<1> QED
  BY <1>1, <1>6, <1>7, <1>11, <1>12, OneRequest

LEMMA GuardKept ==
    ASSUME Typed, NEW r \in Requests, Guard(r)
    PROVE  Kept /\ tokens' \subseteq Token
<1> USE DEF Kept
<1>1. /\ TableOK' /\ Effect /\ now' = now /\ RequestsOK /\ AuditOK
      /\ tokens' \subseteq Token
  BY Unwritten DEF Typed, Guard, ClockOK
<1>2. InFlight(r)
  BY DEF Guard, InFlight, Steps
<1>3. CASE Throw(r, 401) \/ Throw(r, 403)
  BY <1>1, <1>2, <1>3, ThrowOK
<1>4. CASE /\ Authorised(r)
           /\ Remember(r, IF Op(r) \in {"logout", "changePassword"}
                          THEN "self" ELSE "find", Target(r), AbsentRow)
           /\ UNCHANGED audit
  <2> DEFINE pc == IF Op(r) \in {"logout", "changePassword"} THEN "self" ELSE "find"
  <2>1. pc \in Steps \ {"guard", "insert"} /\ pc # "write"
    BY DEF Steps
  <2>2. AbsentRow \in Row
    BY DEF AbsentRow, Row, Roles, Activity
  <2>3. Target(r) \in Ids
    <3>1. /\ req[r].call \in Calls /\ WellFormed(req[r]) /\ req[r].pc = "guard"
      BY <1>1, <1>2 DEF RequestsOK, WellFormed, Guard
    <3>2. CASE req[r].call.op \in AdminOps
      BY <3>1, <3>2, CallsAssumption DEF Target
    <3>3. CASE req[r].call.op \notin AdminOps
      <4>1. req[r].call.op \in GuardedOps \cup {"refresh"} => req[r].tok.sub \in Ids
        BY <3>1 DEF WellFormed, Token
      <4>2. req[r].call.op \in GuardedOps
        BY <3>1 DEF WellFormed
      <4> QED
        BY <3>3, <4>1, <4>2 DEF Target
    <3> QED
      BY <3>2, <3>3
  <2>4. Op(r) \notin AdminOps \/ (req[r].pc = "guard" /\ users[req[r].tok.sub].role = "admin")
    BY <1>4 DEF Guard, Authorised
  <2> HIDE DEF pc
  <2> QED
    BY <1>1, <1>2, <1>4, <2>1, <2>2, <2>3, <2>4, RememberOK DEF pc, AuditOK
<1> QED
  BY <1>3, <1>4 DEF Guard

\* A statement whose answer is lost has its effect on the table or none.
LEMMA MayLandKept ==
    ASSUME Typed, NEW r \in Requests, InFlight(r), MayLand(r)
    PROVE  TableOK' /\ Effect
<1> RequestsOK /\ TableOK /\ now \in Nat
  BY DEF Typed, ClockOK
<1>1. CASE UNCHANGED users
  BY <1>1, Unwritten
<1>2. CASE /\ req[r].pc \in {"count", "clear", "store", "write"}
           /\ ~GivesNull(r)
           /\ ~Collides(req[r].uid, PendingRow(r))
           /\ Put(req[r].uid, PendingRow(r))
  <2>1. req[r].uid \in Ids
    BY <1>2, AtBound DEF Bound
  <2>2. Digest(Signed(r)) \in Ids \cup {None}
    BY <2>1, SignedType
  <2>3. \/ PendingRow(r) \in
              {CountedRow(r), ClearedRow(r), SessionRow(r, Digest(Signed(r))),
               SessionRow(r, None), RepasswordedRow(r), RemovedRow(r), RestoredRow(r)}
        \/ PendingRow(r) = PatchedRow(r) /\ Op(r) \in {"profile", "update"}
    <3>1. req[r].pc = "write" => Op(r) \in GuardedOps
      BY DEF RequestsOK, WellFormed
    <3> QED
      BY <1>2, <3>1 DEF PendingRow, GuardedOps, AdminOps, SelfOps
  <2>4. PendingRow(r) \in Row
    BY <1>2, <2>1, <2>2, <2>3, WrittenRowType
  <2>5. Lawful(req[r].uid, PendingRow(r))
    BY <1>2, <2>1, <2>2, <2>3, WrittenRowLawful
  <2> QED
    BY <1>2, <2>1, <2>4, <2>5, WriteOK
<1>3. CASE /\ req[r].pc = "insert"
           /\ \E u \in Ids :
                LET row == FreshRow(req[r].call.email, req[r].call.password)
                IN users[u].status = "absent" /\ ~Collides(u, row) /\ Put(u, row)
  <2> DEFINE row == FreshRow(req[r].call.email, req[r].call.password)
  <2>1. PICK u \in Ids : ~Collides(u, row) /\ Put(u, row)
    BY <1>3
  <2>2. row \in Row
    <3>1. req[r].call \in Calls /\ Op(r) = "register"
      BY <1>3 DEF RequestsOK, WellFormed, InFlight, Steps
    <3> QED
      BY <3>1, CallsAssumption, FreshRowType
  <2>3. Lawful(u, row)
    BY <2>1, FreshRowLawful
  <2> HIDE DEF row
  <2> QED
    BY <2>1, <2>2, <2>3, WriteOK
<1> QED
  BY <1>1, <1>2, <1>3 DEF MayLand

LEMMA FaultKept ==
    ASSUME Typed, NEW r \in Requests, Fault(r)
    PROVE  Kept /\ now' = now /\ tokens' = tokens /\ faults' \in Nat
<1> USE DEF Kept
<1>1. RequestsOK /\ AuditOK /\ faults' \in Nat
  BY DEF Typed, ClockOK, Fault
<1>2. CASE QueryFails(r)
  <2>1. TableOK' /\ Effect
    BY <1>2, MayLandKept DEF QueryFails
  <2>2. Carried /\ AuditOK'
    BY <1>1, <1>2, ThrowOK DEF QueryFails, QueryFailed
  <2> QED
    BY <1>1, <1>2, <2>1, <2>2 DEF QueryFails
<1>3. CASE Crash(r)
  <2>1. TableOK' /\ Effect
    BY <1>3, MayLandKept DEF Crash
  <2>2. Carried
    <3>1. ASSUME NEW q \in Requests
          PROVE  req'[q] \in Request /\ WellFormed(req[q])'
      <4>1. req[q] \in Request /\ WellFormed(req[q]) /\ now' = now
        BY <1>1, <1>3 DEF RequestsOK, Crash
      <4>2. CASE InFlight(q)
        <5>1. req'[q] = [req[q] EXCEPT !.pc = "lost"]
          BY <1>3, <4>2 DEF Crash
        <5>2. req'[q] \in Request
          BY <4>1, <5>1 DEF Request
        <5>3. req[q].pc # "idle"
          BY <4>2 DEF InFlight, Steps
        <5> QED
          BY <4>1, <5>1, <5>2, <5>3 DEF WellFormed, Request, Bound
      <4>3. CASE ~InFlight(q)
        BY <1>3, <4>1, <4>3 DEF Crash, WellFormed
      <4> QED
        BY <4>2, <4>3
    <3>2. req' \in [Requests -> Request]
      BY <1>3, <3>1 DEF Crash
    <3>3. Entitled
      BY <1>1, <1>3 DEF Crash, Entitled, Succeeds, Acted, RequestsOK, Request
    <3> QED
      BY <3>1, <3>2, <3>3 DEF RequestsOK, Carried
  <2> QED
    BY <1>1, <1>3, <2>1, <2>2 DEF Crash, AuditOK
<1> QED
  BY <1>2, <1>3 DEF Fault

LEMMA NextKept ==
    ASSUME Typed, [Next]_vars
    PROVE  Typed' /\ Effect /\ Entitled
<1>1. CASE \E r \in Requests : Arrive(r) /\ UNCHANGED faults
  BY <1>1, ArriveKept DEF Kept, Carried, Typed, ClockOK, Arrive
<1>2. CASE \E r \in Requests : Step(r)
  <2>1. PICK r \in Requests : Step(r)
    BY <1>2
  <2>2. CASE Guard(r) /\ UNCHANGED faults
    BY <2>2, GuardKept DEF Kept, Carried, Typed, ClockOK, Guard
  <2>3. CASE UsersServiceStep(r) /\ UNCHANGED faults
    BY <2>3, UsersServiceKept DEF Kept, Carried, Typed, ClockOK, UsersServiceStep
  <2>4. CASE AuthServiceStep(r) /\ UNCHANGED faults
    BY <2>4, AuthServiceKept DEF Kept, Carried, Typed, ClockOK, AuthServiceStep
  <2> QED
    BY <2>1, <2>2, <2>3, <2>4 DEF Step
<1>3. CASE \E r \in Requests : Fault(r)
  BY <1>3, FaultKept DEF Kept, Carried, Typed, ClockOK
<1>4. CASE Tick
  <2>1. TableOK' /\ Effect
    BY <1>4, Unwritten DEF Tick, Typed
  <2>2. ClockOK' /\ AuditOK'
    BY <1>4 DEF Tick, Typed, ClockOK, AuditOK
  <2>3. Carried
    <3>1. now \in Nat /\ now' = now + 1 /\ req' = req /\ RequestsOK
      BY <1>4 DEF Tick, Typed, ClockOK
    <3>2. \A r \in Requests : req[r].at \in Nat
      BY <3>1 DEF RequestsOK, Request
    <3> QED
      BY <3>1, <3>2 DEF Carried, Entitled, Succeeds, RequestsOK, WellFormed
  <2> QED
    BY <2>1, <2>2, <2>3 DEF Carried, Typed
<1>5. CASE UNCHANGED vars
  BY <1>5, Unwritten DEF vars, Typed, ClockOK, RequestsOK, WellFormed, TableOK, AuditOK,
     Entitled, Succeeds
<1> QED
  BY <1>1, <1>2, <1>3, <1>4, <1>5 DEF Next, Quiet

\* The clock stands still or goes on by one.
LEMMA ClockMoves ==
    ASSUME [Next]_vars
    PROVE  now' = now \/ now' = now + 1
BY DEF Next, vars, Arrive, Step, Guard, UsersServiceStep, AuthServiceStep, Fault,
       QueryFails, Crash, Tick, Quiet

-----------------------------------------------------------------------------
(* The invariants. *)

LEMMA InitTyped ==
    ASSUME Init
    PROVE  Typed
<1>1. IdleRequest \in Request
  BY DEF IdleRequest, Request, NoToken, NoCall, AbsentRow, Row, Roles, Activity
<1>2. RequestsOK
  BY <1>1 DEF Init, RequestsOK, WellFormed, IdleRequest, Bound
<1> QED
  BY <1>2, SeedAssumption DEF Init, Typed, TableOK, AuditOK, ClockOK

\* Every variable keeps its type: in particular every row stays a row of the
\* entity and every audit row is attributed to an account or to nobody.
THEOREM TypeCorrect == Spec => []TypeOK
<1>1. Init => Typed
  BY InitTyped
<1>2. Typed /\ [Next]_vars => Typed'
  BY NextKept
<1>3. Typed => TypeOK
  BY DEF Typed, TypeOK, RequestsOK, TableOK, AuditOK, ClockOK
<1> QED
  BY <1>1, <1>2, <1>3, PTL DEF Spec

LEMMA TypedAlways == Spec => []Typed
<1>1. Init => Typed
  BY InitTyped
<1>2. Typed /\ [Next]_vars => Typed'
  BY NextKept
<1> QED
  BY <1>1, <1>2, PTL DEF Spec

\* registerFailedLogin and clearFailedLogins write both lockout columns from
\* one snapshot, so no interleaving of logins separates them.
THEOREM LockConsistent == Spec => [](LockMatchesCounter /\ LockBounded)
<1> DEFINE Inv == LockMatchesCounter /\ LockBounded
<1>1. Init => Inv
  BY SeedAssumption, PolicyAssumption DEF Init, LockMatchesCounter, LockBounded, Row
<1>2. Typed /\ Inv /\ [Next]_vars => Inv'
  <2> SUFFICES ASSUME Typed, Inv, [Next]_vars
               PROVE  Inv'
    OBVIOUS
  <2>1. Effect /\ TableOK /\ TableOK' /\ now \in Nat /\ (now' = now \/ now' = now + 1)
    BY NextKept, ClockMoves DEF Typed, ClockOK
  <2>2. CASE users' = users
    BY <2>1, <2>2, PolicyAssumption DEF LockMatchesCounter, LockBounded, TableOK, Row
  <2>3. CASE \E u \in Ids : \E row \in Row : Put(u, row) /\ Lawful(u, row)
    <3>1. PICK u \in Ids : \E row \in Row : Put(u, row) /\ Lawful(u, row)
      BY <2>3
    <3>2. PICK row \in Row : Put(u, row) /\ Lawful(u, row)
      BY <3>1
    <3>3. KeepsLock(u, row) \/ SoundLock(row)
      BY <3>2 DEF Lawful
    <3>4. /\ row.lockedUntil # 0 <=> row.failedLoginAttempts >= MaxAttempts
          /\ row.lockedUntil <= now + LockDuration
      BY <3>3 DEF KeepsLock, SoundLock, LockMatchesCounter, LockBounded
    <3>5. row.lockedUntil <= now' + LockDuration
      BY <2>1, <3>4, PolicyAssumption DEF Row
    <3>6. \A v \in Ids : users'[v] = IF v = u THEN row ELSE users[v]
      BY <2>1, <3>2 DEF Put, TableOK
    <3>7. \A v \in Ids : users[v].lockedUntil <= now' + LockDuration
      BY <2>1, PolicyAssumption DEF LockBounded, TableOK, Row
    <3> QED
      BY <3>4, <3>5, <3>6, <3>7 DEF LockMatchesCounter, LockBounded
  <2> QED
    BY <2>1, <2>2, <2>3 DEF Effect
<1> HIDE DEF Inv
<1>3. Spec => []Inv
  BY <1>1, <1>2, TypedAlways, PTL DEF Spec
<1> QED
  BY <1>3 DEF Inv

\* The partial unique index closes the window between the SELECT and the write
\* of create, update and restore: no interleaving leaves two live accounts on
\* one address.
THEOREM AddressesUnique == Spec => []LiveEmailUnique
<1>1. Init => LiveEmailUnique
  BY SeedAssumption DEF Init, LiveEmailUnique, FindLive
<1>2. Typed /\ LiveEmailUnique /\ [Next]_vars => LiveEmailUnique'
  <2> SUFFICES ASSUME Typed, LiveEmailUnique, [Next]_vars
               PROVE  LiveEmailUnique'
    OBVIOUS
  <2>1. Effect /\ TableOK
    BY NextKept DEF Typed
  <2>2. CASE users' = users
    BY <2>2 DEF LiveEmailUnique, FindLive
  <2>3. CASE \E u \in Ids : \E row \in Row : Put(u, row) /\ Lawful(u, row)
    <3>1. PICK u \in Ids : \E row \in Row : Put(u, row) /\ Lawful(u, row)
      BY <2>3
    <3>2. PICK row \in Row : Put(u, row) /\ Lawful(u, row)
      BY <3>1
    <3>3. \A v \in Ids : users'[v] = IF v = u THEN row ELSE users[v]
      BY <2>1, <3>2 DEF Put, TableOK
    <3>4. row.status = "live" =>
            \A v \in Ids \ {u} : ~(FindLive(v) /\ users[v].email = row.email)
      BY <3>2 DEF Lawful, KeepsAddress, Collides, HoldersOf, LiveEmailUnique, FindLive
    <3> QED
      BY <3>3, <3>4 DEF LiveEmailUnique, FindLive
  <2> QED
    BY <2>1, <2>2, <2>3 DEF Effect
<1> QED
  BY <1>1, <1>2, TypedAlways, PTL DEF Spec

\* The users table, seen through the addresses of its live accounts, is the
\* registry of EmailRegistry: create, update, remove and restore take a free
\* address, give one up, or leave every address alone, under faults as well.
THEOREM ImplementsRegistry == Spec => EmailRegistryHolds
<1> DEFINE address == [u \in Ids |-> IF FindLive(u) THEN users[u].email ELSE None]
<1>1. Init => Registry!Init
  <2> SUFFICES ASSUME Init PROVE Registry!Init
    OBVIOUS
  <2>1. Seed \in [Ids -> Row] /\ users = Seed
    BY SeedAssumption DEF Init
  <2>2. address \in [Ids -> Emails \cup {None}]
    BY <2>1 DEF Row
  <2>3. \A a, b \in Ids : address[a] = address[b] => a = b \/ address[a] = None
    BY <2>1, SeedAssumption DEF FindLive
  <2> QED
    BY <2>2, <2>3 DEF Registry!Init
<1>2. Typed /\ [Next]_vars => [Registry!Next]_address
  <2> SUFFICES ASSUME Typed, [Next]_vars
               PROVE  Registry!Next \/ address' = address
    OBVIOUS
  <2>1. Effect /\ TableOK
    BY NextKept DEF Typed
  <2>2. CASE users' = users
    BY <2>2 DEF FindLive
  <2>3. CASE \E u \in Ids : \E row \in Row : Put(u, row) /\ Lawful(u, row)
    <3>1. PICK u \in Ids : \E row \in Row : Put(u, row) /\ Lawful(u, row)
      BY <2>3
    <3>2. PICK row \in Row : Put(u, row) /\ Lawful(u, row)
      BY <3>1
    <3> DEFINE e == IF row.status = "live" THEN row.email ELSE None
    <3>3. address' = [address EXCEPT ![u] = e]
      BY <2>1, <3>2 DEF Put, TableOK, FindLive
    <3>4. CASE e = None
      BY <3>1, <3>3, <3>4 DEF Registry!Next, Registry!GiveUp
    <3>5. CASE e = address[u]
      <4>1. address' = address
        BY <3>3, <3>5
      <4> QED
        BY <4>1
    <3>6. CASE e # None /\ e # address[u]
      <4>1. row.status = "live" /\ e = row.email /\ e \in Emails
        BY <3>6 DEF Row
      <4>2. ~Collides(u, row)
        BY <3>2, <3>6, <4>1 DEF Lawful, KeepsAddress, FindLive
      <4>3. \A b \in Ids : address[b] # e
        BY <3>6, <4>1, <4>2 DEF Collides, HoldersOf
      <4>4. Registry!Take(u, e)
        BY <3>3, <4>3 DEF Registry!Take
      <4> QED
        BY <4>1, <4>4 DEF Registry!Next
    <3> QED
      BY <3>4, <3>5, <3>6
  <2> QED
    BY <2>1, <2>2, <2>3 DEF Effect
<1> QED
  BY <1>1, <1>2, TypedAlways, PTL DEF Spec, EmailRegistryHolds, Registry!Spec

\* RolesGuard reads the role from the table and only PATCH /users/:id writes it:
\* however promotions, demotions, deletions and faults interleave, an account
\* that is an administrator, or has acted as one, was one at the start or was
\* made one by the request of another account, which the guard let act as an
\* administrator.  An update of one's own account needs the role already.
THEOREM AuthorityKept == Spec => []AuthorityTraceable
<1>1. Init => AuthorityTraceable
  BY DEF Init, IdleRequest, AuthorityTraceable, ActedAsAdmin, Appointed
<1>2. Typed /\ AuthorityTraceable /\ [Next]_vars => AuthorityTraceable'
  <2> SUFFICES ASSUME Typed, AuthorityTraceable, [Next]_vars
               PROVE  AuthorityTraceable'
    OBVIOUS
  <2>1. Effect /\ Entitled /\ TableOK
    BY NextKept DEF Typed
  <2>2. \A u \in Ids : Appointed(u) => Appointed(u)'
    BY <2>1 DEF Entitled, Succeeds, Acted, Appointed, Promotes, ActedAsAdmin
  <2>3. ASSUME NEW u \in Ids, NEW r \in Requests, Promoted(r, u)
        PROVE  Appointed(u)
    <3>1. CASE req[r].tok.sub = u
      BY <2>3, <3>1 DEF Promoted, AuthorityTraceable
    <3>2. CASE req[r].tok.sub # u
      BY <2>3, <3>2 DEF Promoted, Promotes, Appointed
    <3> QED
      BY <3>1, <3>2
  <2>4. ASSUME NEW u \in Ids, users'[u].role = "admin"
        PROVE  Appointed(u)
    <3>1. users[u].role = "admin" \/ \E r \in Requests : Promoted(r, u)
      BY <2>1, <2>4 DEF Effect, Lawful, KeepsRole, Put, TableOK
    <3> QED
      BY <2>3, <3>1 DEF AuthorityTraceable
  <2>5. ASSUME NEW u \in Ids, NEW r \in Requests, ActedAsAdmin(r)', req'[r].tok.sub = u
        PROVE  Appointed(u)
    <3>1. /\ req[r].tok.sub = u
          /\ ActedAsAdmin(r) \/ users[u].role = "admin"
      BY <2>1, <2>5 DEF Entitled, Succeeds, Acted, ActedAsAdmin
    <3> QED
      BY <3>1 DEF AuthorityTraceable
  <2> QED
    BY <2>2, <2>4, <2>5 DEF AuthorityTraceable
<1> QED
  BY <1>1, <1>2, TypedAlways, PTL DEF Spec
=============================================================================
