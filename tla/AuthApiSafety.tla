---------------------------- MODULE AuthApiSafety ----------------------------
(***************************************************************************)
(* The properties of the API: those that hold whatever the interleaving,   *)
(* those that hold when requests do not overlap, and those that the        *)
(* documentation states and overlapping requests break.                    *)
(***************************************************************************)
EXTENDS AuthApi

-----------------------------------------------------------------------------
(* Account lockout *)

\* A column pair written by registerFailedLogin and clearFailedLogins: a row
\* has a lock (running or expired) exactly when its counter has reached the
\* threshold, although concurrent logins overwrite each other's values.
LockMatchesCounter ==
    \A u \in Ids :
        users[u].lockedUntil # 0 <=> users[u].failedLoginAttempts >= MaxAttempts

\* No interleaving of logins locks an account for longer than one lockout
\* duration from now.
LockBounded == \A u \in Ids : users[u].lockedUntil <= now + LockDuration

\* Logins that read account u, were given a wrong password and have ended.
WrongLogins(u) ==
    {r \in Requests : /\ Op(r) = "login" /\ req[r].uid = u
                      /\ req[r].snap.password # req[r].call.password
                      /\ req[r].pc \in {"done", "lost"}}

\* However logins overwrite each other, registerFailedLogin counts no wrong
\* password twice: every failure on the counter of u was there at the start or
\* is a different wrong password given for u.  Whether a success lay between
\* them is not asked here.
CounterBacked ==
    \A u \in Ids :
        users[u].failedLoginAttempts
            <= Seed[u].failedLoginAttempts + Cardinality(WrongLogins(u))

\* SECURITY.md and user.entity.ts on lockout: the counter is that of consecutive
\* failures, since the last success.  A failed login adds itself, and no failure
\* that is not on the counter any more.
FailuresConsecutive ==
    [][\A u \in Ids :
          users'[u].failedLoginAttempts > users[u].failedLoginAttempts =>
          users'[u].failedLoginAttempts = users[u].failedLoginAttempts + 1]_vars

\* SECURITY.md on lockout: the counter is cleared on the first successful login.
\* When a login has been accepted and goes on to its tokens, the account has no
\* failure on its counter.
SuccessResets ==
    [][\A r \in Requests :
          /\ Op(r) = "login" /\ ~At(r, "store") /\ req'[r].pc = "store"
          => users'[req[r].uid].failedLoginAttempts = 0]_vars

Policy == INSTANCE LockoutPolicy WITH
    Accounts <- Ids, Threshold <- MaxAttempts, Duration <- LockDuration,
    clock <- now,
    failures <- [u \in Ids |-> users[u].failedLoginAttempts],
    lockEnd <- [u \in Ids |-> users[u].lockedUntil]

\* When logins do not overlap, the two columns and the clock implement the
\* lockout policy, whatever else the API does to the accounts.
LockoutPolicyHolds == Policy!Spec

\* SECURITY.md on lockout: an attempt made while a lock is running is not
\* counted, so registerFailedLogin leaves a running lock as it is.
RunningLockKept ==
    [][\A r \in Requests :
          /\ At(r, "count") /\ req'[r].pc = "done"
          /\ users[req[r].uid].lockedUntil > now
          => users' = users]_vars

\* SECURITY.md on lockout: the account is locked once the threshold of
\* consecutive failed logins is reached.
ThresholdLocks ==
    \A u \in Ids :
        /\ Cardinality({r \in WrongLogins(u) : req[r].reply = 401}) >= MaxAttempts
        /\ \A r \in Requests : req[r].uid = u => r \in WrongLogins(u)
        => users[u].failedLoginAttempts >= MaxAttempts

-----------------------------------------------------------------------------
(* Sessions *)

\* What a request must have had to be given tokens for account u.
Earned(r) ==
    \/ Op(r) = "register"
    \/ /\ Op(r) = "login"
       /\ req[r].snap.password = req[r].call.password
       /\ req[r].snap.isActive = "active"
       /\ req[r].snap.lockedUntil <= req[r].at
    \/ /\ Op(r) = "refresh"
       /\ req[r].tok \in tokens
       /\ req[r].tok.sub = req[r].uid
       /\ req[r].snap.status = "live" /\ req[r].snap.refreshToken # None

\* Every token pair in the hands of a client was signed by register, by a
\* login with the right password on an active account with no running lock, or
\* by a refresh with a pair of the same account while it had a session.
EveryTokenEarned ==
    \A t \in tokens \ SeedTokens :
        \E r \in Requests : req[r].reply = 200 /\ Signed(r) = t /\ Earned(r)

\* A change of password by u that has read the account and found its password
\* to be the one the caller gave.
Repassworded(r, u) ==
    Op(r) = "changePassword" /\ req[r].uid = u /\ req[r].snap.password = req[r].call.password

\* p was the password of u at the start, or was set by its holder.
Known(u, p) ==
    p = Seed[u].password \/ \E r \in Requests : Repassworded(r, u) /\ req[r].call.newPassword = p

\* changePassword compares and hashes before it writes: however changes, failed
\* statements and crashes overlap, a password is replaced only by somebody who
\* gave one that the account had, and so on back to the first one.
PasswordsKnown ==
    \A u \in Ids : Seed[u].status # "absent" =>
        /\ Known(u, users[u].password)
        /\ \A r \in Requests : Repassworded(r, u) => Known(u, req[r].call.password)

\* README.md on the token lifecycle: logout invalidates the refresh token.  A
\* session that updateRefreshToken has ended comes back only when somebody
\* registers or logs in.
LogoutEndsSession ==
    [][\A u \in Ids :
          users[u].refreshToken = None /\ users'[u].refreshToken # None =>
          \E r \in Requests : /\ At(r, "store") /\ req[r].uid = u
                              /\ Op(r) \in {"register", "login"}]_vars

\* SECURITY.md on sessions: one refresh token per user, the old one is
\* invalidated.  refreshTokens accepts no pair older than another one that
\* the account has been given.
RotationInvalidates ==
    [][\A r \in Requests :
          /\ At(r, "verify") /\ Op(r) = "refresh" /\ req'[r].pc = "store"
          => \A t \in tokens : t.sub = req[r].tok.sub => t.iat <= req[r].tok.iat
      ]_vars

-----------------------------------------------------------------------------
(* Addresses *)

\* create, update and restore check an address with a SELECT before they
\* write; two live accounts never share one all the same.
LiveEmailUnique ==
    \A u, v \in Ids :
        FindLive(u) /\ FindLive(v) /\ users[u].email = users[v].email => u = v

Registry == INSTANCE EmailRegistry WITH
    Accounts <- Ids, Addresses <- Emails, Nobody <- None,
    address <- [u \in Ids |-> IF FindLive(u) THEN users[u].email ELSE None]

\* The users table implements the registry of addresses.
EmailRegistryHolds == Registry!Spec

\* The unique violation of a lost race is reported as a conflict: without a
\* fault no request is answered with an internal error, but for a PATCH with a
\* null in it, which passes validation and is refused by the table.
NoSpuriousError ==
    \A r \in Requests : req[r].reply = 500 => faults > 0 \/ GivesNull(r)

-----------------------------------------------------------------------------
(* Administration and its trail *)

\* Request r has passed the guards as an administrator.
ActedAsAdmin(r) == Op(r) \in AdminOps /\ req[r].uid # None

\* An update by somebody else that may have made u an administrator.
Promotes(r, u) ==
    /\ ActedAsAdmin(r) /\ Op(r) = "update" /\ req[r].uid = u
    /\ req[r].call.role = "admin" /\ req[r].tok.sub # u

\* An administrator from the start, or one whom another account appointed.
Appointed(u) == Seed[u].role = "admin" \/ \E r \in Requests : Promotes(r, u)

\* RolesGuard and the whitelisting DTOs: an account is an administrator, or
\* has acted as one, only if it was one at the start or another account, itself
\* an administrator in this sense, has given it the role.  Self-registration, the
\* profile endpoint and an update of oneself never do.
AuthorityTraceable ==
    \A u \in Ids :
        \/ users[u].role = "admin"
        \/ \E r \in Requests : ActedAsAdmin(r) /\ req[r].tok.sub = u
        => Appointed(u)

\* The trail and the answers agree, although rows are handed over in the middle
\* of a handler and statements fail: a request that succeeded has a success row,
\* and one that was refused has none.  The exceptions are in the code: logout of
\* an account deleted since the guard is answered without a row; register, login
\* and restore hand a success row over before their last statement, which may
\* fail, and restore may find its account deleted again.
AuditMatchesAnswer ==
    \A r \in Requests :
        LET succeeded == \E row \in audit : row.by = r /\ row.status = "success"
        IN /\ req[r].reply = 200 /\ Op(r) # "logout" => succeeded
           /\ req[r].reply >= 400 /\ succeeded =>
                 \/ Op(r) = "restore" /\ req[r].reply = 404
                 \/ Op(r) \in {"register", "login", "restore"} /\ req[r].reply = 500 /\ faults > 0

\* The row stems from a request that did op to u as an administrator, and names
\* the account that sent it.
ByAdministrator(row, op, u) ==
    /\ Op(row.by) = op /\ req[row.by].uid = u
    /\ row.performedBy = req[row.by].tok.sub
    /\ Appointed(row.performedBy)

\* Without faults every account whose existence or deletion differs from the
\* start has the row that explains it and says who did it: its own registration,
\* or a deletion or restoration by an account that was an administrator from the
\* start or has been appointed.
StatusTrail ==
    \A u \in Ids :
        faults = 0 /\ users[u].status # Seed[u].status =>
        \E row \in audit :
            /\ row.userId = u /\ row.status = "success"
            /\ \/ /\ users[u].status = "deleted" /\ row.action = "user_deleted"
                  /\ ByAdministrator(row, "remove", u)
               \/ /\ users[u].status = "live" /\ Seed[u].status = "absent"
                  /\ row.action = "user_created"
                  /\ Op(row.by) = "register" /\ row.performedBy = u
               \/ /\ users[u].status = "live" /\ Seed[u].status = "deleted"
                  /\ row.action = "user_restored"
                  /\ ByAdministrator(row, "restore", u)

RoleRows(u) == {row \in audit : row.action = "role_changed" /\ row.userId = u}

\* SECURITY.md on the trail: it records whose role changed.  Once nothing is
\* in progress the role_changed rows of an account lead from its first role to
\* its current one: every role was entered as often as it was left, but for
\* those two.
RoleTrailAccurate ==
    (\A r \in Requests : ~InFlight(r)) =>
    \A u \in Ids : \A role \in Roles :
        LET Count(S) == Cardinality(S)
            is(b) == IF b THEN 1 ELSE 0
        IN Count({row \in RoleRows(u) : row.to = role}) + is(Seed[u].role = role)
           = Count({row \in RoleRows(u) : row.from = role}) + is(users[u].role = role)
=============================================================================
