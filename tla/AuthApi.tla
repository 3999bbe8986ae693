------------------------------- MODULE AuthApi -------------------------------
(***************************************************************************)
(* The whole API: requests arrive, pass the guards, and interleave their   *)
(* steps over one users table, while the clock runs, statements fail and   *)
(* the process crashes.                                                    *)
(***************************************************************************)
EXTENDS AuthService, FiniteSets

CONSTANTS
    MaxInFlight,    \* bound: requests in progress at once
    MaxTime,        \* bound: the clock
    MaxFaults       \* bound: failed statements and crashes

VARIABLE faults     \* how many of them have happened

vars == <<users, now, tokens, req, audit, faults>>

ASSUME BoundsAssumption ==
    /\ MaxInFlight \in Nat /\ MaxTime \in Nat /\ MaxFaults \in Nat
    /\ IsFiniteSet(Requests)

Init ==
    /\ users = Seed
    /\ now = 0
    /\ tokens = SeedTokens
    /\ req = [r \in Requests |-> IdleRequest]
    /\ audit = {}
    /\ faults = 0

-----------------------------------------------------------------------------
(* A client sends a call, with any token pair that some client has.  The   *)
(* DTOs have already rejected every body outside Calls.                    *)
TokensFor(call) ==
    IF call.op \in GuardedOps \cup {"refresh"} THEN tokens ELSE {NoToken}

Arrive(r) ==
    /\ At(r, "idle")
    /\ Cardinality({q \in Requests : InFlight(q)}) < MaxInFlight
    /\ \E call \in Calls : \E t \in TokensFor(call) :
          req' = [req EXCEPT ![r] = [@ EXCEPT
                    !.pc = IF call.op \in GuardedOps THEN "guard" ELSE "lookup",
                    !.call = call, !.tok = t]]
    /\ UNCHANGED <<users, now, tokens, audit>>

(* JwtAuthGuard and RolesGuard: the token must not have expired, and its   *)
(* account must be live and active now; the role is the one in the table,  *)
(* not the one in the token.                                               *)
Authenticated(r) ==
    /\ now < req[r].tok.iat + AccessTtl
    /\ FindLive(req[r].tok.sub)
    /\ users[req[r].tok.sub].isActive = "active"

\* MUTANT of Authorised: the route has lost its @Roles decorator.
AuthorisedUnchecked(r) == TRUE

Authorised(r) == Op(r) \in AdminOps => users[req[r].tok.sub].role = "admin"

\* The account a guarded handler works on.
Target(r) == IF Op(r) \in AdminOps THEN req[r].call.id ELSE req[r].tok.sub

Guard(r) ==
    /\ At(r, "guard")
    /\ \/ ~Authenticated(r) /\ Throw(r, 401)
       \/ Authenticated(r) /\ ~Authorised(r) /\ Throw(r, 403)
       \/ /\ Authenticated(r) /\ Authorised(r)
          /\ Remember(r, IF Op(r) \in {"logout", "changePassword"}
                         THEN "self" ELSE "find", Target(r), AbsentRow)
          /\ UNCHANGED audit
    /\ UNCHANGED <<users, now, tokens>>

Step(r) == (Guard(r) \/ UsersServiceStep(r) \/ AuthServiceStep(r)) /\ UNCHANGED faults

-----------------------------------------------------------------------------
(* Faults of the database and of the process.                              *)

\* What the UPDATE that request r is waiting for leaves in the table.
PendingRow(r) ==
    CASE At(r, "count") -> CountedRow(r)
      [] At(r, "clear") -> ClearedRow(r)
      [] At(r, "store") -> SessionRow(r, Digest(Signed(r)))
      [] At(r, "write") /\ Op(r) = "logout" -> SessionRow(r, None)
      [] At(r, "write") /\ Op(r) = "changePassword" -> RepasswordedRow(r)
      [] At(r, "write") /\ Op(r) = "remove" -> RemovedRow(r)
      [] At(r, "write") /\ Op(r) = "restore" -> RestoredRow(r)
      [] OTHER -> PatchedRow(r)

\* The statement may or may not have been committed when its answer is lost;
\* one that the table refuses has not.
MayLand(r) ==
    \/ UNCHANGED users
    \/ /\ req[r].pc \in {"count", "clear", "store", "write"}
       /\ ~GivesNull(r)
       /\ ~Collides(req[r].uid, PendingRow(r))
       /\ Put(req[r].uid, PendingRow(r))
    \/ /\ At(r, "insert")
       /\ \E u \in Ids :
             LET row == FreshRow(req[r].call.email, req[r].call.password)
             IN users[u].status = "absent" /\ ~Collides(u, row) /\ Put(u, row)

\* The connection drops under a statement: TypeORM rejects the await.
QueryFails(r) ==
    /\ InFlight(r) /\ ~At(r, "verify")
    /\ MayLand(r)
    /\ Throw(r, QueryFailed)
    /\ UNCHANGED <<now, tokens>>

\* The process dies and is started again: no client of a request in progress
\* gets an answer, and nothing but the table survives.
Crash(r) ==
    /\ InFlight(r)
    /\ MayLand(r)
    /\ req' = [q \in Requests |-> IF InFlight(q) THEN [req[q] EXCEPT !.pc = "lost"]
                                                 ELSE req[q]]
    /\ UNCHANGED <<now, tokens, audit>>

Fault(r) ==
    /\ faults < MaxFaults
    /\ faults' = faults + 1
    /\ QueryFails(r) \/ Crash(r)

-----------------------------------------------------------------------------
Tick ==
    /\ now < MaxTime
    /\ now' = now + 1
    /\ UNCHANGED <<users, tokens, req, audit, faults>>

\* Every request of the bounded workload has been dealt with.
Quiet ==
    /\ \A r \in Requests : req[r].pc \in {"done", "lost"}
    /\ UNCHANGED vars

Next ==
    \/ \E r \in Requests : Arrive(r) /\ UNCHANGED faults
    \/ \E r \in Requests : Step(r)
    \/ \E r \in Requests : Fault(r)
    \/ Tick
    \/ Quiet

Spec == Init /\ [][Next]_vars

\* Every variable has its type.
TypeOK ==
    /\ users \in [Ids -> Row]
    /\ now \in Nat
    /\ tokens \subseteq Token
    /\ req \in [Requests -> Request]
    /\ audit \subseteq AuditRow
    /\ faults \in Nat
=============================================================================
