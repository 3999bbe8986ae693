---------------------------- MODULE RequestContext ----------------------------
(***************************************************************************)
(* What every request of the API carries through its asynchronous steps:   *)
(* the HTTP call, the local variables of the handler that survive an       *)
(* await, the answer, and the rows handed to AuditService.  Node runs one  *)
(* step at a time, so a step is atomic; any other request may run between  *)
(* two steps of this one.                                                  *)
(***************************************************************************)
EXTENDS UserStore

CONSTANTS
    Requests,       \* every HTTP request of a behaviour
    Calls,          \* the calls a client may make
    Null,           \* an explicit null in the body of a PATCH
    MaxAttempts,    \* security.maxFailedLoginAttempts
    LockDuration,   \* security.lockoutDurationMs
    AccessTtl,      \* jwt.expiration
    RefreshTtl,     \* jwt.refreshExpiration
    Seed,           \* the users table at the start
    SeedTokens      \* token pairs handed out before the start

VARIABLES
    now,            \* Date.now()
    tokens,         \* token pairs that clients have received
    req,            \* req[r]: progress of request r
    audit           \* rows handed to AuditService.persist so far

-----------------------------------------------------------------------------
(* Tokens.  A pair is signed for a subject at an instant, without any      *)
(* identifier of its own: two pairs signed for one subject in one second   *)
(* are the same pair.                                                      *)
Token == [sub : Ids, iat : Nat]
NoToken == [sub |-> None, iat |-> 0]

\* What bcrypt.hash keeps of a refresh token: bcrypt reads the first 72 bytes
\* of its input, and those of a token this service signs are the JWT header
\* and the start of {"sub":"<id>..., 18 characters of the subject's id.
Digest(t) == t.sub

AuthOps == {"register", "login", "refresh", "logout", "changePassword"}
AdminOps == {"update", "remove", "restore"}
SelfOps == {"logout", "changePassword", "profile"}
GuardedOps == AdminOps \cup SelfOps

Call == [op : AuthOps \cup AdminOps \cup {"profile"},
         email : Emails \cup {None, Null},
         password : Passwords \cup {None},
         newPassword : Passwords \cup {None},
         id : Ids \cup {None},
         role : Roles \cup {None, Null},
         isActive : Activity \cup {None, Null}]

NoCall == [op |-> "none", email |-> None, password |-> None,
           newPassword |-> None, id |-> None, role |-> None,
           isActive |-> None]

Steps == {"guard", "lookup", "verify", "count", "clear", "insert", "store",
          "self", "find", "check", "write", "reload"}

Request == [pc : Steps \cup {"idle", "done", "lost"},
            call : Call \cup {NoCall},
            tok : Token \cup {NoToken},   \* bearer or refresh token sent
            uid : Ids \cup {None},        \* account the handler works on
            snap : Row,                   \* that account as it was last read
            at : Nat,                     \* Date.now() used by the next write
            reply : Nat]                  \* HTTP status, 0 before an answer

IdleRequest == [pc |-> "idle", call |-> NoCall, tok |-> NoToken, uid |-> None,
                snap |-> AbsentRow, at |-> 0, reply |-> 0]

ASSUME PolicyAssumption ==
    /\ MaxAttempts \in Nat \ {0}
    /\ LockDuration \in Nat \ {0}
    /\ AccessTtl \in Nat
    /\ RefreshTtl \in Nat

ASSUME NullIsNoValue ==
    Null \notin Ids \cup Emails \cup Passwords \cup Roles \cup Activity \cup {None}

\* What ParseUUIDPipe and the whitelisting ValidationPipe guarantee of a call
\* that reaches a handler.  @IsOptional lets a null of a PATCH through.
ASSUME CallsAssumption ==
    /\ Calls \subseteq Call
    /\ \A call \in Calls :
          /\ call.op \in AdminOps => call.id \in Ids
          /\ call.op \in {"register", "login"} =>
                call.email \in Emails /\ call.password \in Passwords
          /\ call.op = "changePassword" =>
                call.password \in Passwords /\ call.newPassword \in Passwords
          /\ call.op = "profile" => call.role = None /\ call.isActive = None
          /\ Null \in {call.email, call.role, call.isActive} =>
                call.op \in {"profile", "update"}

\* The tables a deployment may start from: registrations, logins and admin
\* actions of the past, none of them in progress.
ASSUME SeedAssumption ==
    /\ Seed \in [Ids -> Row]
    /\ \A u \in Ids : Seed[u].status = "absent" => Seed[u] = AbsentRow
    /\ SeedTokens \subseteq Token
    /\ \A u, v \in Ids :
          /\ Seed[u].status = "live" /\ Seed[v].status = "live"
          /\ Seed[u].email = Seed[v].email
          => u = v
    /\ \A u \in Ids :
          /\ Seed[u].lockedUntil # 0 <=> Seed[u].failedLoginAttempts >= MaxAttempts
          /\ Seed[u].lockedUntil <= LockDuration

-----------------------------------------------------------------------------
At(r, pc) == req[r].pc = pc
Op(r) == req[r].call.op
InFlight(r) == req[r].pc \in Steps

Goto(r, pc) == req' = [req EXCEPT ![r].pc = pc]

\* The handler keeps what it has just read of account u and moves on.
Remember(r, pc, u, row) ==
    req' = [req EXCEPT ![r] = [@ EXCEPT !.pc = pc, !.uid = u, !.snap = row]]

\* The handler moves on with the current time in hand.
GotoNow(r, pc) == req' = [req EXCEPT ![r] = [@ EXCEPT !.pc = pc, !.at = now]]

\* generateTokens signs a pair for account u now; storing it comes next.
SignTokens(r, u, row) ==
    req' = [req EXCEPT ![r] = [@ EXCEPT !.pc = "store", !.uid = u,
                                        !.snap = row, !.at = now]]

Reply(r, status) ==
    req' = [req EXCEPT ![r] = [@ EXCEPT !.pc = "done", !.reply = status]]

-----------------------------------------------------------------------------
(* AuditService.  A row keeps the request it comes from, so that           *)
(* properties can relate it to the answer; the table has no such column.   *)
Fields == {"email", "role", "isActive"}

AuditActions == {"register", "login", "logout", "token_refresh",
                 "password_change", "user_created", "user_updated",
                 "user_deleted", "user_restored", "role_changed"}

AuditRow == [by : Requests,
             action : AuditActions,
             status : {"success", "failure"},
             userId : Ids \cup {None},
             performedBy : Ids \cup {None},
             changes : SUBSET Fields,
             from : Roles \cup {None},
             to : Roles \cup {None}]

AuditAction(op) ==
    CASE op = "refresh" -> "token_refresh"
      [] op = "changePassword" -> "password_change"
      [] op \in {"profile", "update"} -> "user_updated"
      [] op = "remove" -> "user_deleted"
      [] op = "restore" -> "user_restored"
      [] OTHER -> op

EventRow(r, action, status, subject, actor) ==
    [by |-> r, action |-> action, status |-> status, userId |-> subject,
     performedBy |-> actor, changes |-> {}, from |-> None, to |-> None]

\* logAuthEvent: neither the subject's id nor the actor's is recorded.
AuthRow(r, status) == EventRow(r, AuditAction(Op(r)), status, None, None)

\* MUTANT of UserRow: the account that is acted upon is named as the actor.
UserRowOfSubject(r, status) ==
    EventRow(r, AuditAction(Op(r)), status, req[r].uid, req[r].uid)

\* logUserEvent with the authenticated caller as the actor.
UserRow(r, status) ==
    EventRow(r, AuditAction(Op(r)), status, req[r].uid, req[r].tok.sub)

Log(rows) == audit' = audit \cup rows

-----------------------------------------------------------------------------
(* Exceptions.  A handler's catch blocks add their failure rows and throw  *)
(* again; refreshTokens turns everything into a 403; the filter answers    *)
(* 409 to a unique violation and 500 to any other error.                   *)
TryBlock(op) ==
    CASE op = "register" -> {"lookup", "insert", "store"}
      [] op = "refresh" -> {"lookup", "verify", "store"}
      [] op = "changePassword" -> {"find", "write"}
      [] op \in {"profile", "update"} -> {"write", "reload"}
      [] op = "remove" -> {"write"}
      [] OTHER -> {}

FailureRow(r) ==
    IF Op(r) \in AuthOps THEN AuthRow(r, "failure") ELSE UserRow(r, "failure")

\* UsersService.create has a catch block inside the one of register.
CatchRows(r) ==
    (IF req[r].pc \in TryBlock(Op(r)) THEN {FailureRow(r)} ELSE {})
    \cup
    (IF Op(r) = "register" /\ req[r].pc \in {"lookup", "insert"}
     THEN {EventRow(r, "user_created", "failure", None, None)} ELSE {})

Throw(r, status) ==
    /\ Log(CatchRows(r))
    /\ Reply(r, IF Op(r) = "refresh" THEN 403 ELSE status)

\* The PATCH sets a column to null.
GivesNull(r) == Null \in {req[r].call.email, req[r].call.role, req[r].call.isActive}

\* MUTANT of UniqueViolation: the filter does not know SQLSTATE 23505.
UniqueViolationUnmapped == 500

UniqueViolation == 409
QueryFailed == 500
=============================================================================
