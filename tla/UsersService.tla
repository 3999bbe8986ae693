----------------------------- MODULE UsersService -----------------------------
(***************************************************************************)
(* UsersService: the statements on the users table.  Each handler is a     *)
(* sequence of awaited statements; what it read before an await is in      *)
(* req[r].snap, and the table may have moved on since.                     *)
(***************************************************************************)
EXTENDS RequestContext

\* The account as it is now, not as the handler last read it.
Current(r) == users[req[r].uid]
Snap(r) == req[r].snap

-----------------------------------------------------------------------------
(* Rows the UPDATEs leave.  Only the columns named in a statement change.  *)

\* MUTANT of CountedRow: below the threshold the lock column is left alone.
CountedRowKeepsLock(r) ==
    LET attempts == Snap(r).failedLoginAttempts + 1
    IN [Current(r) EXCEPT
          !.failedLoginAttempts = attempts,
          !.lockedUntil = IF attempts >= MaxAttempts
                          THEN req[r].at + LockDuration ELSE @]

\* MUTANT of CountedRow: a lock that is there already is prolonged.
CountedRowProlongs(r) ==
    LET attempts == Snap(r).failedLoginAttempts + 1
    IN [Current(r) EXCEPT
          !.failedLoginAttempts = attempts,
          !.lockedUntil = IF attempts >= MaxAttempts
                          THEN (IF @ = 0 THEN req[r].at ELSE @) + LockDuration
                          ELSE 0]

\* MUTANT of CountedRow: a failure is added to the counter read before and to
\* the one in the table.
CountedRowTwice(r) ==
    LET attempts == Snap(r).failedLoginAttempts + Current(r).failedLoginAttempts + 1
    IN [Current(r) EXCEPT
          !.failedLoginAttempts = attempts,
          !.lockedUntil = IF attempts >= MaxAttempts
                          THEN req[r].at + LockDuration ELSE 0]

\* MUTANT of CountedRow: the counter is incremented after it has been read.
CountedRowLate(r) ==
    LET attempts == Snap(r).failedLoginAttempts
    IN [Current(r) EXCEPT
          !.failedLoginAttempts = attempts,
          !.lockedUntil = IF attempts >= MaxAttempts
                          THEN req[r].at + LockDuration ELSE 0]

\* registerFailedLogin: both columns are computed from the row read at the
\* start of the login and from the time of the password comparison.
CountedRow(r) ==
    LET attempts == Snap(r).failedLoginAttempts + 1
    IN [Current(r) EXCEPT
          !.failedLoginAttempts = attempts,
          !.lockedUntil = IF attempts >= MaxAttempts
                          THEN req[r].at + LockDuration ELSE 0]

\* MUTANT of ClearedRow: the expired lock stays in its column.
ClearedRowKeepsLock(r) == [Current(r) EXCEPT !.failedLoginAttempts = 0]

\* clearFailedLogins
ClearedRow(r) ==
    [Current(r) EXCEPT !.failedLoginAttempts = 0, !.lockedUntil = 0]

\* MUTANT of NothingToClear: only a lock is worth a write.
NothingToClearUnlocked(row) == row.lockedUntil = 0

\* Skipped when the row read at the start has nothing to clear.
NothingToClear(row) == row.failedLoginAttempts = 0 /\ row.lockedUntil = 0

\* updateRefreshToken
SessionRow(r, digest) == [Current(r) EXCEPT !.refreshToken = digest]

\* changePassword
RepasswordedRow(r) == [Current(r) EXCEPT !.password = req[r].call.newPassword]

\* update: the columns the body gives.
Given(value, old) == IF value = None THEN old ELSE value
PatchedRow(r) ==
    [Current(r) EXCEPT !.email = Given(req[r].call.email, @),
                       !.role = Given(req[r].call.role, @),
                       !.isActive = Given(req[r].call.isActive, @)]

\* softDelete and restore
RemovedRow(r) == [Current(r) EXCEPT !.status = "deleted"]
RestoredRow(r) == [Current(r) EXCEPT !.status = "live"]

-----------------------------------------------------------------------------
(* create *)
CreateLookup(r) ==
    /\ At(r, "lookup") /\ Op(r) = "register"
    /\ UNCHANGED users
    /\ \/ /\ HoldersOf(req[r].call.email) # {}
          /\ Throw(r, 409)
       \/ /\ HoldersOf(req[r].call.email) = {}
          /\ Goto(r, "insert")
          /\ UNCHANGED audit

\* The INSERT under a generated id, and its audit row: a self-registration is
\* attributed to the new account.
Created(r, u, row) ==
    /\ Put(u, row)
    /\ Log({EventRow(r, "user_created", "success", u, u)})

-----------------------------------------------------------------------------
(* update, for PATCH /users/profile and PATCH /users/:id *)
UpdateFind(r) ==
    /\ At(r, "find") /\ Op(r) \in {"profile", "update"}
    /\ UNCHANGED users
    /\ \/ /\ ~FindLive(req[r].uid)
          /\ Throw(r, 404)
       \/ /\ FindLive(req[r].uid)
          /\ Remember(r, IF req[r].call.email \in {None, Null, Current(r).email}
                         THEN "write" ELSE "check",
                      req[r].uid, Current(r))
          /\ UNCHANGED audit

UpdateCheck(r) ==
    /\ At(r, "check") /\ Op(r) \in {"profile", "update"}
    /\ UNCHANGED users
    /\ \/ /\ HoldersOf(req[r].call.email) # {}
          /\ Log({UserRow(r, "failure")})
          /\ Reply(r, 409)
       \/ /\ HoldersOf(req[r].call.email) = {}
          /\ Goto(r, "write")
          /\ UNCHANGED audit

\* No column that a body can name takes a null.
UpdateWrite(r) ==
    /\ At(r, "write") /\ Op(r) \in {"profile", "update"}
    /\ \/ /\ GivesNull(r)
          /\ Throw(r, QueryFailed)
          /\ UNCHANGED users
       \/ /\ ~GivesNull(r) /\ Collides(req[r].uid, PatchedRow(r))
          /\ Throw(r, UniqueViolation)
          /\ UNCHANGED users
       \/ /\ ~GivesNull(r) /\ ~Collides(req[r].uid, PatchedRow(r))
          /\ Put(req[r].uid, PatchedRow(r))
          /\ Goto(r, "reload")
          /\ UNCHANGED audit

\* MUTANT of UpdatedRow: the old role is read after the write.
UpdatedRowLateRead(r) ==
    LET call == req[r].call
    IN IF call.role \notin {None, Null, Snap(r).role}
       THEN [UserRow(r, "success") EXCEPT
               !.action = "role_changed", !.from = Current(r).role, !.to = call.role]
       ELSE [UserRow(r, "success") EXCEPT
               !.changes = {f \in Fields : call[f] # None}]

\* A new role is judged against the role read before the write, and its row
\* names no other field.
UpdatedRow(r) ==
    LET call == req[r].call
    IN IF call.role \notin {None, Null, Snap(r).role}
       THEN [UserRow(r, "success") EXCEPT
               !.action = "role_changed", !.from = Snap(r).role, !.to = call.role]
       ELSE [UserRow(r, "success") EXCEPT
               !.changes = {f \in Fields : call[f] # None}]

UpdateReload(r) ==
    /\ At(r, "reload") /\ Op(r) \in {"profile", "update"}
    /\ UNCHANGED users
    /\ \/ /\ ~FindLive(req[r].uid)
          /\ Throw(r, 404)
       \/ /\ FindLive(req[r].uid)
          /\ Log({UpdatedRow(r)})
          /\ Reply(r, 200)

-----------------------------------------------------------------------------
(* remove *)
RemoveFind(r) ==
    /\ At(r, "find") /\ Op(r) = "remove"
    /\ UNCHANGED users
    /\ \/ /\ ~FindLive(req[r].uid)
          /\ Throw(r, 404)
       \/ /\ FindLive(req[r].uid)
          /\ Goto(r, "write")
          /\ UNCHANGED audit

RemoveWrite(r) ==
    /\ At(r, "write") /\ Op(r) = "remove"
    /\ Put(req[r].uid, RemovedRow(r))
    /\ Log({UserRow(r, "success")})
    /\ Reply(r, 200)

-----------------------------------------------------------------------------
(* restore *)
RestoreFind(r) ==
    /\ At(r, "find") /\ Op(r) = "restore"
    /\ UNCHANGED users
    /\ \/ /\ Current(r).status = "absent"
          /\ Throw(r, 404)
       \/ /\ Current(r).status = "live"
          /\ Throw(r, 400)
       \/ /\ Current(r).status = "deleted"
          /\ Remember(r, "check", req[r].uid, Current(r))
          /\ UNCHANGED audit

RestoreCheck(r) ==
    /\ At(r, "check") /\ Op(r) = "restore"
    /\ UNCHANGED users
    /\ \/ /\ HoldersOf(Snap(r).email) # {}
          /\ Log({UserRow(r, "failure")})
          /\ Reply(r, 409)
       \/ /\ HoldersOf(Snap(r).email) = {}
          /\ Goto(r, "write")
          /\ UNCHANGED audit

\* MUTANT of RestoreWrite: success is logged before the statement answers.
RestoreWriteLogsFirst(r) ==
    /\ At(r, "write") /\ Op(r) = "restore"
    /\ Log({UserRow(r, "success")})
    /\ \/ /\ Collides(req[r].uid, RestoredRow(r))
          /\ Reply(r, UniqueViolation)
          /\ UNCHANGED users
       \/ /\ ~Collides(req[r].uid, RestoredRow(r))
          /\ Put(req[r].uid, RestoredRow(r))
          /\ Goto(r, "reload")

\* No catch block: a unique violation here leaves no audit row.
RestoreWrite(r) ==
    /\ At(r, "write") /\ Op(r) = "restore"
    /\ \/ /\ Collides(req[r].uid, RestoredRow(r))
          /\ Throw(r, UniqueViolation)
          /\ UNCHANGED users
       \/ /\ ~Collides(req[r].uid, RestoredRow(r))
          /\ Put(req[r].uid, RestoredRow(r))
          /\ Log({UserRow(r, "success")})
          /\ Goto(r, "reload")

RestoreReload(r) ==
    /\ At(r, "reload") /\ Op(r) = "restore"
    /\ UNCHANGED users
    /\ \/ /\ ~FindLive(req[r].uid)
          /\ Throw(r, 404)
       \/ /\ FindLive(req[r].uid)
          /\ Reply(r, 200)
          /\ UNCHANGED audit

-----------------------------------------------------------------------------
UsersServiceStep(r) ==
    /\ \/ UpdateFind(r) \/ UpdateCheck(r) \/ UpdateWrite(r) \/ UpdateReload(r)
       \/ RemoveFind(r) \/ RemoveWrite(r)
       \/ RestoreFind(r) \/ RestoreCheck(r) \/ RestoreWrite(r)
       \/ RestoreReload(r)
    /\ UNCHANGED <<now, tokens>>
=============================================================================
