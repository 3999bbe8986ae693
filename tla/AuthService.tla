----------------------------- MODULE AuthService -----------------------------
(***************************************************************************)
(* AuthService: registration, login with lockout, the refresh-token        *)
(* session, logout and the change of one's own password, on top of the     *)
(* statements of UsersService.                                             *)
(***************************************************************************)
EXTENDS UsersService

\* The pair generateTokens signed for the handler's account.
Signed(r) == [sub |-> req[r].uid, iat |-> req[r].at]

\* MUTANT of IsLocked: the comparison is the wrong way round.
IsLockedTurned(r) == Snap(r).lockedUntil < now

\* lockedUntil.getTime() > Date.now(), on the row read at the start.
IsLocked(r) == Snap(r).lockedUntil > now

-----------------------------------------------------------------------------
(* register: create, then sign and store the first token pair *)
RegisterInsert(r) ==
    /\ At(r, "insert")
    /\ LET row == FreshRow(req[r].call.email, req[r].call.password)
       IN \/ /\ HoldersOf(row.email) # {}
             /\ Throw(r, UniqueViolation)
             /\ UNCHANGED users
          \/ \E u \in Ids :
                /\ users[u].status = "absent" /\ ~Collides(u, row)
                /\ Created(r, u, row)
                /\ SignTokens(r, u, row)
    /\ UNCHANGED tokens

-----------------------------------------------------------------------------
(* login *)
LoginLookup(r) ==
    /\ At(r, "lookup") /\ Op(r) = "login"
    /\ \/ \E u \in HoldersOf(req[r].call.email) :
              Remember(r, "verify", u, users[u])
       \/ /\ HoldersOf(req[r].call.email) = {}
          /\ Goto(r, "verify")
    /\ UNCHANGED <<users, tokens, audit>>

\* bcrypt.compare has answered; an unknown address was compared with a dummy.
PasswordMatches(r) ==
    req[r].uid # None /\ Snap(r).password = req[r].call.password

\* Nothing is awaited between the comparison and these decisions.
LoginVerify(r) ==
    /\ At(r, "verify") /\ Op(r) = "login"
    /\ \/ /\ ~PasswordMatches(r)
          /\ req[r].uid # None /\ ~IsLocked(r)
          /\ GotoNow(r, "count")
          /\ UNCHANGED audit
       \/ /\ ~PasswordMatches(r)
          /\ req[r].uid = None \/ IsLocked(r)
          /\ Log({AuthRow(r, "failure")})
          /\ Reply(r, 401)
       \/ /\ PasswordMatches(r)
          /\ IsLocked(r) \/ Snap(r).isActive = "deactivated"
          /\ Log({AuthRow(r, "failure")})
          /\ Reply(r, 403)
       \/ /\ PasswordMatches(r)
          /\ ~IsLocked(r) /\ Snap(r).isActive = "active"
          /\ Log({AuthRow(r, "success")})
          /\ IF NothingToClear(Snap(r))
             THEN SignTokens(r, req[r].uid, Snap(r))
             ELSE Goto(r, "clear")
    /\ UNCHANGED <<users, tokens>>

LoginCount(r) ==
    /\ At(r, "count")
    /\ Put(req[r].uid, CountedRow(r))
    /\ Log({AuthRow(r, "failure")})
    /\ Reply(r, 401)
    /\ UNCHANGED tokens

LoginClear(r) ==
    /\ At(r, "clear")
    /\ Put(req[r].uid, ClearedRow(r))
    /\ SignTokens(r, req[r].uid, Snap(r))
    /\ UNCHANGED <<tokens, audit>>

-----------------------------------------------------------------------------
(* refreshTokens: verify the signature and expiry and read the stored      *)
(* hash, then compare and sign.  isActive is not read.  An ended session   *)
(* has no hash to compare with; that test is part of the comparison here.  *)
RefreshLookup(r) ==
    /\ At(r, "lookup") /\ Op(r) = "refresh"
    /\ LET u == req[r].tok.sub
           found == now < req[r].tok.iat + RefreshTtl /\ FindLive(u)
       IN \/ ~found /\ Throw(r, 403)
          \/ found /\ Remember(r, "verify", u, users[u]) /\ UNCHANGED audit
    /\ UNCHANGED <<users, tokens>>

\* MUTANT of RefreshVerify: a session that has been ended is not noticed.
RefreshVerifyUnstored(r) ==
    /\ At(r, "verify") /\ Op(r) = "refresh"
    /\ SignTokens(r, req[r].tok.sub, Snap(r))
    /\ UNCHANGED <<users, tokens, audit>>

RefreshVerify(r) ==
    /\ At(r, "verify") /\ Op(r) = "refresh"
    /\ \/ /\ Snap(r).refreshToken # Digest(req[r].tok)
          /\ Throw(r, 403)
       \/ /\ Snap(r).refreshToken = Digest(req[r].tok)
          /\ SignTokens(r, req[r].tok.sub, Snap(r))
          /\ UNCHANGED audit
    /\ UNCHANGED <<users, tokens>>

\* MUTANT of StoreTokens: of the three handlers only register has its row.
StoreTokensRefreshSilent(r) ==
    /\ At(r, "store")
    /\ Put(req[r].uid, SessionRow(r, Digest(Signed(r))))
    /\ tokens' = tokens \cup {Signed(r)}
    /\ IF Op(r) \in {"login", "refresh"} THEN UNCHANGED audit
                                        ELSE Log({AuthRow(r, "success")})
    /\ Reply(r, 200)

\* The tail shared by register, login and refreshTokens: the new hash replaces
\* the stored one and the client gets the pair.  A login was audited earlier.
StoreTokens(r) ==
    /\ At(r, "store")
    /\ Put(req[r].uid, SessionRow(r, Digest(Signed(r))))
    /\ tokens' = tokens \cup {Signed(r)}
    /\ IF Op(r) = "login" THEN UNCHANGED audit
                          ELSE Log({AuthRow(r, "success")})
    /\ Reply(r, 200)

-----------------------------------------------------------------------------
(* logout *)
LogoutSelf(r) ==
    /\ At(r, "self") /\ Op(r) = "logout"
    /\ Remember(r, "write", req[r].uid,
                IF FindLive(req[r].uid) THEN Current(r) ELSE AbsentRow)
    /\ UNCHANGED <<users, tokens, audit>>

LogoutWrite(r) ==
    /\ At(r, "write") /\ Op(r) = "logout"
    /\ Put(req[r].uid, SessionRow(r, None))
    /\ IF Snap(r) = AbsentRow THEN UNCHANGED audit
                              ELSE Log({AuthRow(r, "success")})
    /\ Reply(r, 200)
    /\ UNCHANGED tokens

-----------------------------------------------------------------------------
(* changePassword: AuthService reads the address for the audit row, then   *)
(* UsersService reads the hash, compares and writes.                       *)
ChangePasswordSelf(r) ==
    /\ At(r, "self") /\ Op(r) = "changePassword"
    /\ Goto(r, "find")
    /\ UNCHANGED <<users, tokens, audit>>

\* MUTANT of ChangePasswordFind: the comparison has lost its await, and a
\* promise is always truthy.
ChangePasswordFindUnawaited(r) ==
    /\ At(r, "find") /\ Op(r) = "changePassword"
    /\ \/ ~FindLive(req[r].uid) /\ Throw(r, 404)
       \/ /\ FindLive(req[r].uid)
          /\ Remember(r, "write", req[r].uid, Current(r))
          /\ UNCHANGED audit
    /\ UNCHANGED <<users, tokens>>

ChangePasswordFind(r) ==
    /\ At(r, "find") /\ Op(r) = "changePassword"
    /\ \/ ~FindLive(req[r].uid) /\ Throw(r, 404)
       \/ /\ FindLive(req[r].uid)
          /\ Current(r).password # req[r].call.password
          /\ Throw(r, 400)
       \/ /\ FindLive(req[r].uid)
          /\ Current(r).password = req[r].call.password
          /\ Remember(r, "write", req[r].uid, Current(r))
          /\ UNCHANGED audit
    /\ UNCHANGED <<users, tokens>>

ChangePasswordWrite(r) ==
    /\ At(r, "write") /\ Op(r) = "changePassword"
    /\ Put(req[r].uid, RepasswordedRow(r))
    /\ Log({AuthRow(r, "success")})
    /\ Reply(r, 200)
    /\ UNCHANGED tokens

-----------------------------------------------------------------------------
AuthServiceStep(r) ==
    /\ \/ CreateLookup(r) /\ UNCHANGED tokens
       \/ RegisterInsert(r)
       \/ LoginLookup(r) \/ LoginVerify(r) \/ LoginCount(r) \/ LoginClear(r)
       \/ RefreshLookup(r) \/ RefreshVerify(r) \/ StoreTokens(r)
       \/ LogoutSelf(r) \/ LogoutWrite(r)
       \/ ChangePasswordSelf(r) \/ ChangePasswordFind(r)
       \/ ChangePasswordWrite(r)
    /\ UNCHANGED now
=============================================================================
