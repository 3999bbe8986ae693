---------------------------- MODULE RequestProofs ----------------------------
(***************************************************************************)
(* What each handler knows at each of its steps, for any accounts and any  *)
(* requests, and what follows from it: that tokens are earned, passwords   *)
(* replaced by their holders, failures not counted twice, and answers      *)
(* honest.                                                                 *)
(***************************************************************************)
EXTENDS AuthApiProofs, FiniteSetTheorems

USE DEF At, Op, Snap

-----------------------------------------------------------------------------
(* The fields of a request after each way of moving it on. *)

\* Nothing of request r changes but what the step says.
Others(r) == \A s \in Requests \ {r} : req'[s] = req[s]

LEMMA GotoFields ==
    ASSUME RequestsOK, NEW r \in Requests, NEW pc, Goto(r, pc)
    PROVE  /\ Others(r)
           /\ req'[r].pc = pc /\ req'[r].call = req[r].call /\ req'[r].tok = req[r].tok
           /\ req'[r].uid = req[r].uid /\ req'[r].snap = req[r].snap
           /\ req'[r].at = req[r].at /\ req'[r].reply = req[r].reply
<1>1. req \in [Requests -> Request] /\ req[r] \in Request
  BY DEF RequestsOK
<1>2. Others(r) /\ req'[r] = [req[r] EXCEPT !.pc = pc]
  BY <1>1 DEF Goto, Others
<1> QED
  BY <1>1, <1>2 DEF Request

LEMMA GotoNowFields ==
    ASSUME RequestsOK, NEW r \in Requests, NEW pc, GotoNow(r, pc)
    PROVE  /\ Others(r)
           /\ req'[r].pc = pc /\ req'[r].call = req[r].call /\ req'[r].tok = req[r].tok
           /\ req'[r].uid = req[r].uid /\ req'[r].snap = req[r].snap
           /\ req'[r].at = now /\ req'[r].reply = req[r].reply
<1>1. req \in [Requests -> Request] /\ req[r] \in Request
  BY DEF RequestsOK
<1>2. Others(r) /\ req'[r] = [req[r] EXCEPT !.pc = pc, !.at = now]
  BY <1>1 DEF GotoNow, Others
<1> QED
  BY <1>1, <1>2 DEF Request

LEMMA RememberFields ==
    ASSUME RequestsOK, NEW r \in Requests, NEW pc, NEW u, NEW row, Remember(r, pc, u, row)
    PROVE  /\ Others(r)
           /\ req'[r].pc = pc /\ req'[r].call = req[r].call /\ req'[r].tok = req[r].tok
           /\ req'[r].uid = u /\ req'[r].snap = row
           /\ req'[r].at = req[r].at /\ req'[r].reply = req[r].reply
<1>1. req \in [Requests -> Request] /\ req[r] \in Request
  BY DEF RequestsOK
<1>2. Others(r) /\ req'[r] = [req[r] EXCEPT !.pc = pc, !.uid = u, !.snap = row]
  BY <1>1 DEF Remember, Others
<1> QED
  BY <1>1, <1>2 DEF Request

LEMMA SignTokensFields ==
    ASSUME RequestsOK, NEW r \in Requests, NEW u, NEW row, SignTokens(r, u, row)
    PROVE  /\ Others(r)
           /\ req'[r].pc = "store" /\ req'[r].call = req[r].call
           /\ req'[r].tok = req[r].tok /\ req'[r].uid = u /\ req'[r].snap = row
           /\ req'[r].at = now /\ req'[r].reply = req[r].reply
<1>1. req \in [Requests -> Request] /\ req[r] \in Request
  BY DEF RequestsOK
<1>2. Others(r) /\ req'[r] = [req[r] EXCEPT !.pc = "store", !.uid = u,
                                            !.snap = row, !.at = now]
  BY <1>1 DEF SignTokens, Others
<1> QED
  BY <1>1, <1>2 DEF Request

LEMMA ReplyFields ==
    ASSUME RequestsOK, NEW r \in Requests, NEW status, Reply(r, status)
    PROVE  /\ Others(r)
           /\ req'[r].pc = "done" /\ req'[r].call = req[r].call
           /\ req'[r].tok = req[r].tok /\ req'[r].uid = req[r].uid
           /\ req'[r].snap = req[r].snap /\ req'[r].at = req[r].at
           /\ req'[r].reply = status
<1>1. req \in [Requests -> Request] /\ req[r] \in Request
  BY DEF RequestsOK
<1>2. Others(r) /\ req'[r] = [req[r] EXCEPT !.pc = "done", !.reply = status]
  BY <1>1 DEF Reply, Others
<1> QED
  BY <1>1, <1>2 DEF Request

-----------------------------------------------------------------------------
(* What a handler knows at a step, and what the step does with it. *)

\* AuditService has been handed a success row by request r.
Succeeded(r) == \E row \in audit : row.by = r /\ row.status = "success"

\* The steps that come after a success row.
Due(op, pc) ==
    \/ op = "login" /\ pc \in {"clear", "store"}
    \/ op = "register" /\ pc = "store"
    \/ op = "restore" /\ pc = "reload"

Knows(r) ==
    /\ req[r].pc = "idle" => req[r] = IdleRequest
    /\ InFlight(r) => req[r].reply = 0
    /\ req[r].pc \in Steps \cup {"idle"} => (Succeeded(r) <=> Due(Op(r), req[r].pc))
    /\ req[r].pc # "idle" /\ Op(r) = "refresh" => req[r].tok \in tokens
    /\ req[r].pc = "lookup" => req[r].uid = None
    /\ req[r].pc = "store" => Earned(r)
    /\ req[r].pc = "clear" =>
          /\ Op(r) = "login" /\ req[r].snap.password = req[r].call.password
          /\ req[r].snap.isActive = "active" /\ req[r].snap.lockedUntil <= now
    /\ req[r].pc = "verify" => Op(r) \in {"login", "refresh"}
    /\ req[r].pc = "verify" /\ Op(r) = "refresh" =>
          req[r].uid = req[r].tok.sub /\ req[r].snap.status = "live"
    /\ req[r].pc = "count" =>
          Op(r) = "login" /\ req[r].snap.password # req[r].call.password
    /\ Op(r) = "changePassword" =>
          /\ req[r].pc \in {"guard", "self", "find"} => req[r].snap.password = None
          /\ req[r].pc = "write" => req[r].snap.password = req[r].call.password

\* The trail agrees with the answer of request r, as AuditMatchesAnswer has it.
Honest(r) ==
    /\ req[r].reply = 200 /\ Op(r) # "logout" => Succeeded(r)
    /\ req[r].reply >= 400 /\ Succeeded(r) =>
          \/ Op(r) = "restore" /\ req[r].reply = 404
          \/ Op(r) \in {"register", "login", "restore"} /\ req[r].reply = 500 /\ faults > 0
    /\ req[r].reply = 500 => faults > 0 \/ GivesNull(r)

\* The call stays, a verified change of password stays verified and is verified
\* against the table, and a failure is counted from the row that the password
\* was compared with.
Carries(r) ==
    /\ Others(r)
    /\ req'[r].call = req[r].call /\ req'[r].tok = req[r].tok
    /\ req'[r].pc \in Steps \cup {"done"}
    /\ \A u \in Ids : Repassworded(r, u) => Repassworded(r, u)'
    /\ \A u \in Ids : Repassworded(r, u)' =>
          Repassworded(r, u) \/ req[r].call.password = users[u].password
    /\ req'[r].pc = "verify" =>
          req'[r].uid = None \/ req'[r].snap = users[req'[r].uid]
    /\ req'[r].pc = "count" =>
          /\ req[r].pc = "verify" /\ req[r].uid # None
          /\ req'[r].uid = req[r].uid /\ req'[r].snap = req[r].snap
    /\ req[r].pc = "count" =>
          /\ req'[r].pc = "done"
          /\ req'[r].uid = req[r].uid /\ req'[r].snap = req[r].snap

Repasswords(r) ==
    \A u \in Ids :
        /\ users'[u].status = "absent" => users[u].status = "absent"
        /\ \/ users'[u].password = users[u].password
           \/ users[u].status = "absent"
           \/ Repassworded(r, u) /\ users'[u].password = req[r].call.newPassword

Counts(r) ==
    \A u \in Ids :
        \/ users'[u].failedLoginAttempts <= users[u].failedLoginAttempts
        \/ /\ At(r, "count") /\ req[r].uid = u
           /\ users'[u].failedLoginAttempts = req[r].snap.failedLoginAttempts + 1

Writes(r) == Repasswords(r) /\ Counts(r)

Goes(r) == Carries(r) /\ Knows(r)' /\ Honest(r)'

\* Request r hands over rows of its own only.
Rows(r) == \A q \in Requests \ {r} : Succeeded(q)' <=> Succeeded(q)

\* New tokens are those that request r has earned.
Issues(r) ==
    /\ tokens \subseteq tokens'
    /\ \A t \in tokens' \ tokens : Signed(r)' = t /\ Earned(r)' /\ req'[r].reply = 200

Stepped(r) == Goes(r) /\ Writes(r) /\ Rows(r) /\ Issues(r)

-----------------------------------------------------------------------------
(* The trail. *)

LEMMA Unlogged ==
    ASSUME UNCHANGED audit
    PROVE  \A q \in Requests : Succeeded(q)' <=> Succeeded(q)
BY DEF Succeeded

LEMMA FailureLogged ==
    ASSUME NEW rows, \A row \in rows : row.status = "failure", Log(rows)
    PROVE  \A q \in Requests : Succeeded(q)' <=> Succeeded(q)
BY DEF Succeeded, Log

LEMMA SuccessLogged ==
    ASSUME NEW r \in Requests, NEW row, row.by = r, row.status = "success", Log({row})
    PROVE  Succeeded(r)' /\ Rows(r)
BY DEF Succeeded, Log, Rows

LEMMA ThrowLogged ==
    ASSUME NEW r \in Requests, NEW status, Throw(r, status)
    PROVE  \A q \in Requests : Succeeded(q)' <=> Succeeded(q)
<1>1. \A row \in CatchRows(r) : row.status = "failure"
  BY DEF CatchRows, FailureRow, AuthRow, UserRow, EventRow
<1> QED
  BY <1>1, FailureLogged DEF Throw

-----------------------------------------------------------------------------
(* The ways of moving on. *)

LEMMA ReplyGoes ==
    ASSUME Typed, NEW r \in Requests, InFlight(r), Knows(r), now' = now,
           tokens \subseteq tokens', NEW status \in Nat, Reply(r, status),
           status = 200 /\ Op(r) # "logout" => Succeeded(r)',
           status >= 400 /\ Succeeded(r)' =>
              \/ Op(r) = "restore" /\ status = 404
              \/ Op(r) \in {"register", "login", "restore"} /\ status = 500 /\ faults' > 0,
           status = 500 => faults' > 0 \/ GivesNull(r)
    PROVE  Goes(r)
<1>1. /\ Others(r)
      /\ req'[r].pc = "done" /\ req'[r].call = req[r].call
      /\ req'[r].tok = req[r].tok /\ req'[r].uid = req[r].uid
      /\ req'[r].snap = req[r].snap /\ req'[r].reply = status
  BY ReplyFields DEF Typed
<1>2. Carries(r)
  BY <1>1 DEF Carries, Repassworded, Steps
<1>3. Knows(r)'
  BY <1>1 DEF Knows, InFlight, Steps
<1>4. Honest(r)'
  BY <1>1 DEF Honest, GivesNull
<1> QED
  BY <1>2, <1>3, <1>4 DEF Goes

LEMMA ThrowGoes ==
    ASSUME Typed, NEW r \in Requests, InFlight(r), Knows(r), UNCHANGED <<now, tokens>>,
           NEW status \in Nat, status >= 400, Throw(r, status),
           Due(Op(r), req[r].pc) =>
              (status = 500 /\ faults' > 0) \/ (Op(r) = "restore" /\ status = 404),
           status = 500 => faults' > 0 \/ GivesNull(r)
    PROVE  Goes(r) /\ Rows(r) /\ Issues(r)
<1> DEFINE answer == IF Op(r) = "refresh" THEN 403 ELSE status
<1>1. Reply(r, answer) /\ answer \in Nat
  BY DEF Throw
<1>2. \A q \in Requests : Succeeded(q)' <=> Succeeded(q)
  BY ThrowLogged
<1>3. Succeeded(r) <=> Due(Op(r), req[r].pc)
  BY DEF Knows, InFlight
<1>4. Due(Op(r), req[r].pc) => Op(r) \in {"login", "register", "restore"}
  BY DEF Due
<1>5. answer >= 400 /\ Succeeded(r)' =>
         \/ Op(r) = "restore" /\ answer = 404
         \/ Op(r) \in {"register", "login", "restore"} /\ answer = 500 /\ faults' > 0
  BY <1>2, <1>3, <1>4
<1>6. answer # 200 /\ (answer = 500 => faults' > 0 \/ GivesNull(r))
  OBVIOUS
<1> HIDE DEF answer
<1> QED
  BY <1>1, <1>2, <1>5, <1>6, ReplyGoes DEF Rows, Issues

LEMMA MoveGoes ==
    ASSUME Typed, NEW r \in Requests, InFlight(r), Knows(r), UNCHANGED <<now, tokens>>,
           NEW pc \in Steps, Goto(r, pc) \/ GotoNow(r, pc),
           pc \notin {"guard", "lookup", "store"}, Op(r) = "login" => req[r].pc # "count",
           Succeeded(r)' <=> Due(Op(r), pc),
           pc = "verify" => Op(r) = "login" /\ req[r].uid = None,
           pc = "count" => /\ Op(r) = "login" /\ req[r].pc = "verify" /\ req[r].uid # None
                           /\ req[r].snap.password # req[r].call.password,
           pc = "clear" => /\ Op(r) = "login" /\ req[r].snap.password = req[r].call.password
                           /\ req[r].snap.isActive = "active"
                           /\ req[r].snap.lockedUntil <= now,
           Op(r) = "changePassword" => pc = "find" /\ req[r].pc = "self"
    PROVE  Goes(r)
<1>1. /\ Others(r)
      /\ req'[r].pc = pc /\ req'[r].call = req[r].call /\ req'[r].tok = req[r].tok
      /\ req'[r].uid = req[r].uid /\ req'[r].snap = req[r].snap
      /\ req'[r].reply = req[r].reply
  BY GotoFields, GotoNowFields DEF Typed
<1>2. req[r].pc # "idle" /\ req[r].reply = 0
  BY DEF InFlight, Steps, Knows
<1>3. Carries(r)
  BY <1>1 DEF Carries, Repassworded, Knows
<1>4. Knows(r)'
  BY <1>1, <1>2 DEF Knows, InFlight, Steps
<1>5. Honest(r)'
  BY <1>1, <1>2 DEF Honest
<1> QED
  BY <1>3, <1>4, <1>5 DEF Goes

LEMMA RememberGoes ==
    ASSUME Typed, NEW r \in Requests, InFlight(r), Knows(r), UNCHANGED <<now, tokens>>,
           ~Due(Op(r), req[r].pc), Op(r) = "login" => req[r].pc # "count",
           Succeeded(r)' <=> Succeeded(r),
           NEW pc \in Steps, NEW u, NEW row, Remember(r, pc, u, row),
           pc \notin {"guard", "lookup", "store", "clear", "count"}, ~Due(Op(r), pc),
           pc = "verify" => /\ Op(r) \in {"login", "refresh"} /\ row = users[u]
                            /\ Op(r) = "refresh" => u = req[r].tok.sub /\ row.status = "live",
           Op(r) = "changePassword" =>
              /\ req[r].snap.password # req[r].call.password
              /\ \/ pc = "self" /\ row.password = None
                 \/ /\ pc = "write" /\ row = users[u]
                    /\ row.password = req[r].call.password
    PROVE  Goes(r)
<1>1. /\ Others(r)
      /\ req'[r].pc = pc /\ req'[r].call = req[r].call /\ req'[r].tok = req[r].tok
      /\ req'[r].uid = u /\ req'[r].snap = row
      /\ req'[r].reply = req[r].reply
  BY RememberFields DEF Typed
<1>2. req[r].pc # "idle" /\ req[r].reply = 0
  BY DEF InFlight, Steps, Knows
<1>3. Succeeded(r) <=> Due(Op(r), req[r].pc)
  BY DEF Knows, InFlight
<1>4. Op(r) = "changePassword" => req[r].call.password # None
  BY CallsAssumption, NoneIsNoValue, <1>2 DEF Typed, RequestsOK, WellFormed
<1>5. Carries(r)
  BY <1>1, <1>4 DEF Carries, Repassworded, Knows
<1>6. Knows(r)'
  BY <1>1, <1>2, <1>3 DEF Knows, InFlight, Steps
<1>7. Honest(r)'
  BY <1>1, <1>2 DEF Honest
<1> QED
  BY <1>5, <1>6, <1>7 DEF Goes

LEMMA SignTokensGoes ==
    ASSUME Typed, NEW r \in Requests, InFlight(r), Knows(r), UNCHANGED <<now, tokens>>,
           NEW u, NEW row, SignTokens(r, u, row), Op(r) = "login" => req[r].pc # "count",
           Succeeded(r)' <=> Due(Op(r), "store"),
           \/ Op(r) = "register"
           \/ /\ Op(r) = "login" /\ row.password = req[r].call.password
              /\ row.isActive = "active" /\ row.lockedUntil <= now
           \/ /\ Op(r) = "refresh" /\ req[r].tok.sub = u
              /\ row.status = "live" /\ row.refreshToken # None
    PROVE  Goes(r)
<1>1. /\ Others(r)
      /\ req'[r].pc = "store" /\ req'[r].call = req[r].call /\ req'[r].tok = req[r].tok
      /\ req'[r].uid = u /\ req'[r].snap = row /\ req'[r].at = now
      /\ req'[r].reply = req[r].reply
  BY SignTokensFields DEF Typed
<1>2. req[r].pc # "idle" /\ req[r].reply = 0
  BY DEF InFlight, Steps, Knows
<1>3. Carries(r)
  BY <1>1 DEF Carries, Repassworded, Steps, Knows
<1>4. Earned(r)'
  BY <1>1, <1>2 DEF Earned, Knows
<1>5. Knows(r)'
  BY <1>1, <1>2, <1>4 DEF Knows, InFlight, Steps
<1>6. Honest(r)'
  BY <1>1, <1>2 DEF Honest
<1> QED
  BY <1>3, <1>5, <1>6 DEF Goes

-----------------------------------------------------------------------------
(* The rows of the table. *)

LEMMA NoWrite ==
    ASSUME TableOK, NEW r \in Requests, UNCHANGED users
    PROVE  Writes(r)
BY DEF TableOK, Row, Writes, Repasswords, Counts

LEMMA PutWrites ==
    ASSUME TableOK, NEW r \in Requests, NEW u \in Ids, NEW row \in Row, Put(u, row),
           row.status = "absent" => users[u].status = "absent",
           \/ row.password = users[u].password
           \/ users[u].status = "absent"
           \/ Repassworded(r, u) /\ row.password = req[r].call.newPassword,
           \/ row.failedLoginAttempts <= users[u].failedLoginAttempts
           \/ /\ At(r, "count") /\ req[r].uid = u
              /\ row.failedLoginAttempts = req[r].snap.failedLoginAttempts + 1
    PROVE  Writes(r)
<1>1. \A v \in Ids : users'[v] = IF v = u THEN row ELSE users[v]
  BY DEF Put, TableOK
<1>2. \A v \in Ids : users[v].failedLoginAttempts \in Nat
  BY DEF TableOK, Row
<1> QED
  BY <1>1, <1>2 DEF Writes, Repasswords, Counts

\* Every row that an UPDATE of request r leaves.
LEMMA UpdateWrites ==
    ASSUME Typed, NEW r \in Requests, InFlight(r), req[r].uid \in Ids, Knows(r),
           NEW digest \in Ids \cup {None},
           NEW row \in {ClearedRow(r), SessionRow(r, digest), PatchedRow(r),
                        RemovedRow(r), RestoredRow(r)},
           row \in Row, Put(req[r].uid, row)
    PROVE  Writes(r)
<1>1. Current(r) = users[req[r].uid] /\ Current(r) \in Row
  BY DEF Current, Typed, TableOK
<1>3. row.status = Current(r).status \/ row.status \in {"live", "deleted"}
  BY <1>1 DEF ClearedRow, SessionRow, PatchedRow, RemovedRow, RestoredRow, Row
<1>4. row.password = Current(r).password
  BY <1>1 DEF ClearedRow, SessionRow, PatchedRow, RemovedRow, RestoredRow, Row
<1>5. \/ row.failedLoginAttempts = Current(r).failedLoginAttempts
      \/ row.failedLoginAttempts = 0
  BY <1>1 DEF ClearedRow, SessionRow, PatchedRow, RemovedRow, RestoredRow, Row
<1>6. row.failedLoginAttempts <= Current(r).failedLoginAttempts
  BY <1>1, <1>5 DEF Row
<1> QED
  BY <1>1, <1>3, <1>4, <1>6, PutWrites DEF Typed

LEMMA CountedWrites ==
    ASSUME Typed, NEW r \in Requests, req[r].pc = "count", req[r].uid \in Ids,
           Put(req[r].uid, CountedRow(r))
    PROVE  Writes(r)
<1>1. Current(r) = users[req[r].uid] /\ Current(r) \in Row
  BY DEF Current, Typed, TableOK
<1> InFlight(r)
  BY DEF InFlight, Steps
<1>2. CountedRow(r) \in Row
  BY WrittenRowType DEF Typed
<1>3. /\ CountedRow(r).status = Current(r).status
      /\ CountedRow(r).password = Current(r).password
      /\ CountedRow(r).failedLoginAttempts = req[r].snap.failedLoginAttempts + 1
  BY <1>1 DEF CountedRow, Row
<1> QED
  BY <1>1, <1>2, <1>3, PutWrites DEF Typed

LEMMA RepasswordedWrites ==
    ASSUME Typed, NEW r \in Requests, req[r].pc = "write", req[r].call.op = "changePassword",
           Knows(r), req[r].uid \in Ids, Put(req[r].uid, RepasswordedRow(r))
    PROVE  Writes(r)
<1>1. Current(r) = users[req[r].uid] /\ Current(r) \in Row
  BY DEF Current, Typed, TableOK
<1> InFlight(r)
  BY DEF InFlight, Steps
<1>2. RepasswordedRow(r) \in Row
  BY WrittenRowType DEF Typed
<1>3. /\ RepasswordedRow(r).status = Current(r).status
      /\ RepasswordedRow(r).password = req[r].call.newPassword
      /\ RepasswordedRow(r).failedLoginAttempts = Current(r).failedLoginAttempts
  BY <1>1 DEF RepasswordedRow, Row
<1>4. Repassworded(r, req[r].uid)
  BY DEF Knows, Repassworded
<1>5. Current(r).failedLoginAttempts \in Nat
  BY <1>1 DEF Row
<1> QED
  BY <1>1, <1>2, <1>3, <1>4, <1>5, PutWrites DEF Typed

LEMMA FreshWrites ==
    ASSUME Typed, NEW r \in Requests, InFlight(r), NEW u \in Ids,
           users[u].status = "absent", req[r].pc = "insert", NEW row,
           row = FreshRow(req[r].call.email, req[r].call.password), Put(u, row)
    PROVE  Writes(r)
<1>1. req[r].call \in Calls /\ Op(r) = "register"
  BY DEF Typed, RequestsOK, WellFormed, InFlight, Steps
<1>2. row \in Row /\ row.failedLoginAttempts = 0
  BY <1>1, CallsAssumption, FreshRowType DEF FreshRow, AbsentRow
<1>3. users[u].failedLoginAttempts \in Nat
  BY DEF Typed, TableOK, Row
<1> QED
  BY <1>2, <1>3, PutWrites DEF Typed

-----------------------------------------------------------------------------
(* The steps of UsersService. *)

LEMMA NothingIssued ==
    ASSUME UNCHANGED tokens, NEW r \in Requests
    PROVE  Issues(r)
BY DEF Issues

LEMMA UsersServiceInFlight ==
    ASSUME NEW r \in Requests, UsersServiceStep(r)
    PROVE  InFlight(r)
BY DEF UsersServiceStep, UpdateFind, UpdateCheck, UpdateWrite, UpdateReload,
       RemoveFind, RemoveWrite, RestoreFind, RestoreCheck, RestoreWrite,
       RestoreReload, InFlight, Steps

LEMMA UsersServiceGoes ==
    ASSUME Typed, NEW r \in Requests, Knows(r), UsersServiceStep(r)
    PROVE  Stepped(r)
<1> USE DEF Stepped
<1> UNCHANGED <<now, tokens>> /\ RequestsOK /\ TableOK
  BY DEF UsersServiceStep, Typed
<1>0. InFlight(r) /\ req[r].uid \in Ids
  BY AtBound DEF UsersServiceStep, UpdateFind, UpdateCheck, UpdateWrite,
       UpdateReload, RemoveFind, RemoveWrite, RestoreFind, RestoreCheck,
       RestoreWrite, RestoreReload, Bound
<1>a. Issues(r)
  BY NothingIssued
<1>b. Succeeded(r) <=> Due(Op(r), req[r].pc)
  BY <1>0 DEF Knows, InFlight
<1>1. CASE UpdateFind(r)
  <2>1. Writes(r) /\ Op(r) \in {"profile", "update"} /\ ~Due(Op(r), req[r].pc)
    BY <1>1, NoWrite DEF UpdateFind, Due
  <2>2. CASE Throw(r, 404)
    BY <1>0, <2>1, <2>2, ThrowGoes
  <2>3. CASE /\ Remember(r, IF req[r].call.email \in {None, Null, Current(r).email}
                            THEN "write" ELSE "check", req[r].uid, Current(r))
             /\ UNCHANGED audit
    <3> DEFINE pc == IF req[r].call.email \in {None, Null, Current(r).email}
                     THEN "write" ELSE "check"
    <3>1. pc \in {"write", "check"}
      OBVIOUS
    <3>2. Remember(r, pc, req[r].uid, Current(r))
      BY <2>3
    <3> HIDE DEF pc
    <3>3. Rows(r) /\ (Succeeded(r)' <=> Succeeded(r)) /\ ~Due(Op(r), pc)
      BY <2>1, <2>3, Unlogged DEF Rows, Due
    <3>4. pc \in Steps /\ pc \notin {"guard", "lookup", "store", "clear", "count", "verify"}
      BY <3>1 DEF Steps
    <3>5. Goes(r)
      BY <1>0, <2>1, <3>2, <3>3, <3>4, RememberGoes
    <3> QED
      BY <1>a, <2>1, <3>3, <3>5
  <2> QED
    BY <1>1, <2>2, <2>3 DEF UpdateFind
<1>2. CASE UpdateCheck(r)
  <2>1. Writes(r) /\ Op(r) \in {"profile", "update"} /\ ~Due(Op(r), req[r].pc)
    BY <1>2, NoWrite DEF UpdateCheck, Due
  <2>2. CASE Log({UserRow(r, "failure")}) /\ Reply(r, 409)
    <3>1. \A q \in Requests : Succeeded(q)' <=> Succeeded(q)
      BY <2>2, FailureLogged DEF UserRow, EventRow
    <3>2. Goes(r)
      BY <1>0, <1>b, <2>1, <2>2, <3>1, ReplyGoes
    <3> QED
      BY <1>a, <2>1, <3>1, <3>2 DEF Rows
  <2>3. CASE Goto(r, "write") /\ UNCHANGED audit
    <3>1. \A q \in Requests : Succeeded(q)' <=> Succeeded(q)
      BY <2>3, Unlogged
    <3>2. ~Due(Op(r), "write")
      BY DEF Due
    <3>3. Goes(r)
      BY <1>0, <1>b, <2>1, <2>3, <3>1, <3>2, MoveGoes DEF Steps
    <3> QED
      BY <1>a, <2>1, <3>1, <3>3 DEF Rows
  <2> QED
    BY <1>2, <2>2, <2>3 DEF UpdateCheck
<1>3. CASE UpdateWrite(r)
  <2>1. Op(r) \in {"profile", "update"} /\ ~Due(Op(r), req[r].pc)
    BY <1>3 DEF UpdateWrite, Due
  <2>2. CASE Throw(r, UniqueViolation) /\ UNCHANGED users
    BY <1>0, <2>1, <2>2, ThrowGoes, NoWrite DEF UniqueViolation
  <2>3. CASE GivesNull(r) /\ Throw(r, QueryFailed) /\ UNCHANGED users
    BY <1>0, <2>1, <2>3, ThrowGoes, NoWrite DEF QueryFailed
  <2>4. CASE /\ ~GivesNull(r)
             /\ Put(req[r].uid, PatchedRow(r))
             /\ Goto(r, "reload") /\ UNCHANGED audit
    <3>1. \A q \in Requests : Succeeded(q)' <=> Succeeded(q)
      BY <2>4, Unlogged
    <3>2. ~Due(Op(r), "reload")
      BY <2>1 DEF Due
    <3>3. Goes(r)
      BY <1>0, <1>b, <2>1, <2>4, <3>1, <3>2, MoveGoes DEF Steps
    <3>4. Writes(r)
      BY <1>0, <2>4, WrittenRowType, UpdateWrites
    <3> QED
      BY <1>a, <3>1, <3>3, <3>4 DEF Rows
  <2> QED
    BY <1>3, <2>2, <2>3, <2>4 DEF UpdateWrite
<1>4. CASE UpdateReload(r)
  <2>1. Writes(r) /\ Op(r) \in {"profile", "update"} /\ ~Due(Op(r), req[r].pc)
    BY <1>4, NoWrite DEF UpdateReload, Due
  <2>2. CASE Throw(r, 404)
    BY <1>0, <2>1, <2>2, ThrowGoes
  <2>3. CASE Log({UpdatedRow(r)}) /\ Reply(r, 200)
    <3>1. UpdatedRow(r).by = r /\ UpdatedRow(r).status = "success"
      BY DEF UpdatedRow, UserRow, EventRow
    <3>2. Succeeded(r)' /\ Rows(r)
      BY <2>3, <3>1, SuccessLogged
    <3>3. Goes(r)
      BY <1>0, <2>3, <3>2, ReplyGoes
    <3> QED
      BY <1>a, <2>1, <3>2, <3>3
  <2> QED
    BY <1>4, <2>2, <2>3 DEF UpdateReload
<1>5. CASE RemoveFind(r)
  <2>1. Writes(r) /\ Op(r) = "remove" /\ ~Due(Op(r), req[r].pc)
    BY <1>5, NoWrite DEF RemoveFind, Due
  <2>2. CASE Throw(r, 404)
    BY <1>0, <2>1, <2>2, ThrowGoes
  <2>3. CASE Goto(r, "write") /\ UNCHANGED audit
    <3>1. \A q \in Requests : Succeeded(q)' <=> Succeeded(q)
      BY <2>3, Unlogged
    <3>2. ~Due(Op(r), "write")
      BY DEF Due
    <3>3. Goes(r)
      BY <1>0, <1>b, <2>1, <2>3, <3>1, <3>2, MoveGoes DEF Steps
    <3> QED
      BY <1>a, <2>1, <3>1, <3>3 DEF Rows
  <2> QED
    BY <1>5, <2>2, <2>3 DEF RemoveFind
<1>6. CASE RemoveWrite(r)
  <2>1. UserRow(r, "success").by = r /\ UserRow(r, "success").status = "success"
    BY DEF UserRow, EventRow
  <2>2. Succeeded(r)' /\ Rows(r)
    BY <1>6, <2>1, SuccessLogged DEF RemoveWrite
  <2>3. Goes(r)
    BY <1>0, <1>6, <2>2, ReplyGoes DEF RemoveWrite
  <2>4. Writes(r)
    BY <1>0, <1>6, WrittenRowType, UpdateWrites DEF RemoveWrite
  <2> QED
    BY <1>a, <2>2, <2>3, <2>4
<1>7. CASE RestoreFind(r)
  <2>1. Writes(r) /\ Op(r) = "restore" /\ ~Due(Op(r), req[r].pc)
    BY <1>7, NoWrite DEF RestoreFind, Due
  <2>2. CASE Throw(r, 404) \/ Throw(r, 400)
    BY <1>0, <2>1, <2>2, ThrowGoes
  <2>3. CASE Remember(r, "check", req[r].uid, Current(r)) /\ UNCHANGED audit
    <3>1. \A q \in Requests : Succeeded(q)' <=> Succeeded(q)
      BY <2>3, Unlogged
    <3>2. ~Due(Op(r), "check") /\ "check" \in Steps
      BY DEF Due, Steps
    <3>3. Goes(r)
      BY <1>0, <2>1, <2>3, <3>1, <3>2, RememberGoes
    <3> QED
      BY <1>a, <2>1, <3>1, <3>3 DEF Rows
  <2> QED
    BY <1>7, <2>2, <2>3 DEF RestoreFind
<1>8. CASE RestoreCheck(r)
  <2>1. Writes(r) /\ Op(r) = "restore" /\ ~Due(Op(r), req[r].pc)
    BY <1>8, NoWrite DEF RestoreCheck, Due
  <2>2. CASE Log({UserRow(r, "failure")}) /\ Reply(r, 409)
    <3>1. \A q \in Requests : Succeeded(q)' <=> Succeeded(q)
      BY <2>2, FailureLogged DEF UserRow, EventRow
    <3>2. Goes(r)
      BY <1>0, <1>b, <2>1, <2>2, <3>1, ReplyGoes
    <3> QED
      BY <1>a, <2>1, <3>1, <3>2 DEF Rows
  <2>3. CASE Goto(r, "write") /\ UNCHANGED audit
    <3>1. \A q \in Requests : Succeeded(q)' <=> Succeeded(q)
      BY <2>3, Unlogged
    <3>2. ~Due(Op(r), "write")
      BY DEF Due
    <3>3. Goes(r)
      BY <1>0, <1>b, <2>1, <2>3, <3>1, <3>2, MoveGoes DEF Steps
    <3> QED
      BY <1>a, <2>1, <3>1, <3>3 DEF Rows
  <2> QED
    BY <1>8, <2>2, <2>3 DEF RestoreCheck
<1>9. CASE RestoreWrite(r)
  <2>1. Op(r) = "restore" /\ ~Due(Op(r), req[r].pc)
    BY <1>9 DEF RestoreWrite, Due
  <2>2. CASE Throw(r, UniqueViolation) /\ UNCHANGED users
    BY <1>0, <2>1, <2>2, ThrowGoes, NoWrite DEF UniqueViolation
  <2>3. CASE /\ Put(req[r].uid, RestoredRow(r))
             /\ Log({UserRow(r, "success")}) /\ Goto(r, "reload")
    <3>1. UserRow(r, "success").by = r /\ UserRow(r, "success").status = "success"
      BY DEF UserRow, EventRow
    <3>2. Succeeded(r)' /\ Rows(r)
      BY <2>3, <3>1, SuccessLogged
    <3>3. Due(Op(r), "reload")
      BY <2>1 DEF Due
    <3>4. Goes(r)
      BY <1>0, <2>1, <2>3, <3>2, <3>3, MoveGoes DEF Steps
    <3>5. Writes(r)
      BY <1>0, <2>3, WrittenRowType, UpdateWrites
    <3> QED
      BY <1>a, <3>2, <3>4, <3>5
  <2> QED
    BY <1>9, <2>2, <2>3 DEF RestoreWrite
<1>10. CASE RestoreReload(r)
  <2>1. Writes(r) /\ Op(r) = "restore" /\ Due(Op(r), req[r].pc)
    BY <1>10, NoWrite DEF RestoreReload, Due
  <2>2. CASE Throw(r, 404)
    BY <1>0, <2>1, <2>2, ThrowGoes
  <2>3. CASE Reply(r, 200) /\ UNCHANGED audit
    <3>1. \A q \in Requests : Succeeded(q)' <=> Succeeded(q)
      BY <2>3, Unlogged
    <3>2. Goes(r)
      BY <1>0, <1>b, <2>1, <2>3, <3>1, ReplyGoes
    <3> QED
      BY <1>a, <2>1, <3>1, <3>2 DEF Rows
  <2> QED
    BY <1>10, <2>2, <2>3 DEF RestoreReload
<1> QED
  BY <1>0, <1>1, <1>2, <1>3, <1>4, <1>5, <1>6, <1>7, <1>8, <1>9, <1>10 DEF UsersServiceStep

-----------------------------------------------------------------------------
(* The steps of AuthService. *)

\* What AuthRow records, by outcome.
LEMMA AuthRowOutcome ==
    ASSUME NEW r \in Requests, NEW status
    PROVE  AuthRow(r, status).by = r /\ AuthRow(r, status).status = status
BY DEF AuthRow, EventRow

LEMMA AuthFailureLogged ==
    ASSUME NEW r \in Requests, Log({AuthRow(r, "failure")})
    PROVE  \A q \in Requests : Succeeded(q)' <=> Succeeded(q)
BY AuthRowOutcome, FailureLogged

LEMMA AuthSuccessLogged ==
    ASSUME NEW r \in Requests, Log({AuthRow(r, "success")})
    PROVE  Succeeded(r)' /\ Rows(r)
BY AuthRowOutcome, SuccessLogged

LEMMA RegisterGoes ==
    ASSUME Typed, NEW r \in Requests, InFlight(r), Knows(r), UNCHANGED now,
           \/ CreateLookup(r) /\ UNCHANGED tokens
           \/ RegisterInsert(r)
    PROVE  Stepped(r)
<1> USE DEF Stepped
<1> RequestsOK /\ TableOK
  BY DEF Typed
<1>0. UNCHANGED tokens /\ Op(r) = "register" /\ ~Due(Op(r), req[r].pc)
  BY DEF CreateLookup, RegisterInsert, RequestsOK, WellFormed, Due
<1>a. Issues(r) /\ (Succeeded(r) <=> Due(Op(r), req[r].pc))
  BY <1>0, NothingIssued DEF Knows, InFlight
<1>1. CASE CreateLookup(r)
  <2>1. Writes(r)
    BY <1>1, NoWrite DEF CreateLookup
  <2>2. CASE Throw(r, 409)
    BY <1>0, <2>1, <2>2, ThrowGoes
  <2>3. CASE Goto(r, "insert") /\ UNCHANGED audit
    <3>1. \A q \in Requests : Succeeded(q)' <=> Succeeded(q)
      BY <2>3, Unlogged
    <3>2. ~Due(Op(r), "insert")
      BY DEF Due
    <3>3. Goes(r)
      BY <1>0, <1>a, <2>3, <3>1, <3>2, MoveGoes DEF Steps
    <3> QED
      BY <1>a, <2>1, <3>1, <3>3 DEF Rows
  <2> QED
    BY <1>1, <2>2, <2>3 DEF CreateLookup
<1>2. CASE RegisterInsert(r)
  <2> DEFINE row == FreshRow(req[r].call.email, req[r].call.password)
  <2>1. CASE Throw(r, UniqueViolation) /\ UNCHANGED users
    BY <1>0, <2>1, ThrowGoes, NoWrite DEF UniqueViolation
  <2>2. CASE \E u \in Ids : /\ users[u].status = "absent"
                            /\ Created(r, u, row) /\ SignTokens(r, u, row)
    <3>1. PICK u \in Ids : /\ users[u].status = "absent"
                           /\ Created(r, u, row) /\ SignTokens(r, u, row)
      BY <2>2
    <3>2. Writes(r)
      BY <1>2, <3>1, FreshWrites DEF Created, RegisterInsert
    <3>3. Succeeded(r)' /\ Rows(r)
      <4> DEFINE event == EventRow(r, "user_created", "success", u, u)
      <4>1. event.by = r /\ event.status = "success" /\ Log({event})
        BY <3>1 DEF Created, EventRow
      <4> HIDE DEF event
      <4> QED
        BY <4>1, SuccessLogged
    <3>4. Due(Op(r), "store")
      BY <1>0 DEF Due
    <3> HIDE DEF row
    <3>5. Goes(r)
      BY <1>0, <3>1, <3>3, <3>4, SignTokensGoes
    <3> QED
      BY <1>a, <3>2, <3>3, <3>5
  <2> QED
    BY <1>2, <2>1, <2>2 DEF RegisterInsert
<1> QED
  BY <1>1, <1>2

LEMMA LoginGoes ==
    ASSUME Typed, NEW r \in Requests, InFlight(r), Knows(r), UNCHANGED now,
           LoginLookup(r) \/ LoginVerify(r) \/ LoginCount(r) \/ LoginClear(r)
    PROVE  Stepped(r)
<1> USE DEF Stepped
<1> RequestsOK /\ TableOK
  BY DEF Typed
<1>0. UNCHANGED tokens /\ Op(r) = "login"
  BY DEF LoginLookup, LoginVerify, LoginCount, LoginClear, Knows
<1>a. Issues(r) /\ (Succeeded(r) <=> Due(Op(r), req[r].pc))
  BY <1>0, NothingIssued DEF Knows, InFlight
<1>1. CASE LoginLookup(r)
  <2>1. /\ Writes(r) /\ req[r].pc = "lookup"
        /\ ~Due(Op(r), req[r].pc) /\ ~Due(Op(r), "verify")
    BY <1>1, NoWrite DEF LoginLookup, Due
  <2>2. \A q \in Requests : Succeeded(q)' <=> Succeeded(q)
    BY <1>1, Unlogged DEF LoginLookup
  <2>3. CASE \E u \in HoldersOf(req[r].call.email) : Remember(r, "verify", u, users[u])
    <3>1. PICK u \in HoldersOf(req[r].call.email) : Remember(r, "verify", u, users[u])
      BY <2>3
    <3>2. "verify" \in Steps
      BY DEF Steps
    <3>3. Goes(r)
      BY <1>0, <2>1, <2>2, <3>1, <3>2, RememberGoes
    <3> QED
      BY <1>a, <2>1, <2>2, <3>3 DEF Rows
  <2>4. CASE Goto(r, "verify")
    <3>1. req[r].uid = None
      BY <1>1 DEF LoginLookup, Knows
    <3>2. Goes(r)
      BY <1>0, <1>a, <2>1, <2>2, <2>4, <3>1, MoveGoes DEF Steps
    <3> QED
      BY <1>a, <2>1, <2>2, <3>2 DEF Rows
  <2> QED
    BY <1>1, <2>3, <2>4 DEF LoginLookup
<1>2. CASE LoginVerify(r)
  <2>1. Writes(r) /\ req[r].pc = "verify" /\ ~Due(Op(r), req[r].pc)
    BY <1>2, NoWrite DEF LoginVerify, Due
  <2>2. CASE ~PasswordMatches(r) /\ req[r].uid # None /\ GotoNow(r, "count") /\ UNCHANGED audit
    <3>1. \A q \in Requests : Succeeded(q)' <=> Succeeded(q)
      BY <2>2, Unlogged
    <3>2. ~Due(Op(r), "count") /\ "count" \in Steps
      BY DEF Due, Steps
    <3>3. req[r].pc = "verify" /\ req[r].snap.password # req[r].call.password
      BY <1>2, <2>2 DEF LoginVerify, PasswordMatches
    <3>4. Goes(r)
      BY <1>0, <1>a, <2>1, <2>2, <3>1, <3>2, <3>3, MoveGoes
    <3> QED
      BY <1>a, <2>1, <3>1, <3>4 DEF Rows
  <2>3. CASE Log({AuthRow(r, "failure")}) /\ (Reply(r, 401) \/ Reply(r, 403))
    <3>1. \A q \in Requests : Succeeded(q)' <=> Succeeded(q)
      BY <2>3, AuthFailureLogged
    <3>2. Goes(r)
      BY <1>0, <1>a, <2>1, <2>3, <3>1, ReplyGoes
    <3> QED
      BY <1>a, <2>1, <3>1, <3>2 DEF Rows
  <2>4. CASE /\ PasswordMatches(r) /\ ~IsLocked(r) /\ Snap(r).isActive = "active"
             /\ Log({AuthRow(r, "success")})
             /\ IF NothingToClear(Snap(r))
                THEN SignTokens(r, req[r].uid, Snap(r))
                ELSE Goto(r, "clear")
    <3>1. Succeeded(r)' /\ Rows(r)
      BY <2>4, AuthSuccessLogged
    <3>2. Due(Op(r), "store") /\ Due(Op(r), "clear") /\ "clear" \in Steps
      BY <1>0 DEF Due, Steps
    <3>3. req[r].snap.lockedUntil \in Nat /\ now \in Nat
      BY DEF Typed, ClockOK, RequestsOK, Request, Row
    <3>4. /\ req[r].snap.password = req[r].call.password
          /\ req[r].snap.isActive = "active" /\ req[r].snap.lockedUntil <= now
      BY <2>4, <3>3 DEF PasswordMatches, IsLocked
    <3>5. CASE SignTokens(r, req[r].uid, Snap(r))
      <4>1. Goes(r)
        BY <1>0, <2>1, <3>1, <3>2, <3>4, <3>5, SignTokensGoes
      <4> QED
        BY <1>a, <2>1, <3>1, <4>1
    <3>6. CASE Goto(r, "clear")
      <4>1. Goes(r)
        BY <1>0, <2>1, <3>1, <3>2, <3>4, <3>6, MoveGoes
      <4> QED
        BY <1>a, <2>1, <3>1, <4>1
    <3> QED
      BY <2>4, <3>5, <3>6
  <2> QED
    BY <1>2, <2>2, <2>3, <2>4 DEF LoginVerify
<1>3. CASE LoginCount(r)
  <2>1. req[r].pc = "count" /\ req[r].uid \in Ids /\ ~Due(Op(r), req[r].pc)
    BY <1>3, AtBound DEF LoginCount, Bound, Due
  <2>2. \A q \in Requests : Succeeded(q)' <=> Succeeded(q)
    BY <1>3, AuthFailureLogged DEF LoginCount
  <2>3. Goes(r)
    BY <1>0, <1>3, <1>a, <2>1, <2>2, ReplyGoes DEF LoginCount
  <2>4. Writes(r)
    BY <1>3, <2>1, CountedWrites DEF LoginCount
  <2> QED
    BY <1>a, <2>2, <2>3, <2>4 DEF Rows
<1>4. CASE LoginClear(r)
  <2>1. req[r].pc = "clear" /\ req[r].uid \in Ids
    BY <1>4, AtBound DEF LoginClear, Bound
  <2>2. Due(Op(r), req[r].pc) /\ Due(Op(r), "store")
    BY <1>0, <2>1 DEF Due
  <2>3. \A q \in Requests : Succeeded(q)' <=> Succeeded(q)
    BY <1>4, Unlogged DEF LoginClear
  <2>4. Goes(r)
    BY <1>0, <1>4, <1>a, <2>1, <2>2, <2>3, SignTokensGoes DEF LoginClear, Knows
  <2>5. Writes(r)
    BY <1>4, <2>1, WrittenRowType, UpdateWrites, NoneIsNoValue DEF LoginClear
  <2> QED
    BY <1>a, <2>3, <2>4, <2>5 DEF Rows
<1> QED
  BY <1>1, <1>2, <1>3, <1>4

LEMMA SessionGoes ==
    ASSUME Typed, NEW r \in Requests, InFlight(r), Knows(r), UNCHANGED now,
           \/ RefreshLookup(r) \/ RefreshVerify(r) \/ StoreTokens(r)
           \/ LogoutSelf(r) \/ LogoutWrite(r)
    PROVE  Stepped(r)
<1> USE DEF Stepped
<1> RequestsOK /\ TableOK
  BY DEF Typed
<1>a. Succeeded(r) <=> Due(Op(r), req[r].pc)
  BY DEF Knows, InFlight
<1>1. CASE RefreshLookup(r)
  <2> DEFINE u == req[r].tok.sub
  <2>1. Writes(r) /\ Op(r) = "refresh" /\ UNCHANGED tokens
    BY <1>1, NoWrite DEF RefreshLookup
  <2>2. ~Due(Op(r), req[r].pc) /\ ~Due(Op(r), "verify") /\ "verify" \in Steps
    BY <2>1 DEF Due, Steps
  <2>3. CASE Throw(r, 403)
    BY <2>1, <2>2, <2>3, ThrowGoes
  <2>4. CASE FindLive(u) /\ Remember(r, "verify", u, users[u]) /\ UNCHANGED audit
    <3>1. \A q \in Requests : Succeeded(q)' <=> Succeeded(q)
      BY <2>4, Unlogged
    <3>2. Goes(r)
      BY <2>1, <2>2, <2>4, <3>1, RememberGoes DEF FindLive
    <3> QED
      BY <2>1, <3>1, <3>2, NothingIssued DEF Rows
  <2> QED
    BY <1>1, <2>3, <2>4 DEF RefreshLookup
<1>2. CASE RefreshVerify(r)
  <2>1. Writes(r) /\ Op(r) = "refresh" /\ UNCHANGED tokens
    BY <1>2, NoWrite DEF RefreshVerify
  <2>2. ~Due(Op(r), req[r].pc) /\ ~Due(Op(r), "store")
    BY <1>2, <2>1 DEF Due, RefreshVerify
  <2>3. CASE Throw(r, 403)
    BY <2>1, <2>2, <2>3, ThrowGoes
  <2>4. CASE /\ Snap(r).refreshToken = Digest(req[r].tok)
             /\ SignTokens(r, req[r].tok.sub, Snap(r)) /\ UNCHANGED audit
    <3>1. \A q \in Requests : Succeeded(q)' <=> Succeeded(q)
      BY <2>4, Unlogged
    <3>2. req[r].tok \in Token /\ req[r].snap.status = "live"
      BY <1>2, <2>1 DEF RefreshVerify, Knows, Typed, ClockOK
    <3>3. req[r].snap.refreshToken # None
      BY <2>4, <3>2, NoneIsNoValue DEF Digest, Token
    <3>4. Goes(r)
      BY <1>a, <2>1, <2>2, <2>4, <3>1, <3>2, <3>3, SignTokensGoes
    <3> QED
      BY <2>1, <3>1, <3>4, NothingIssued DEF Rows
  <2> QED
    BY <1>2, <2>3, <2>4 DEF RefreshVerify
<1>3. CASE StoreTokens(r)
  <2>1. req[r].pc = "store" /\ req[r].uid \in Ids
    BY <1>3, AtBound DEF StoreTokens, Bound
  <2>2. Succeeded(r)' /\ Rows(r)
    <3>1. CASE Op(r) = "login"
      BY <1>3, <1>a, <2>1, <3>1, Unlogged DEF StoreTokens, Due, Rows
    <3>2. CASE Op(r) # "login"
      BY <1>3, <3>2, AuthSuccessLogged DEF StoreTokens
    <3> QED
      BY <3>1, <3>2
  <2>3. Goes(r)
    BY <1>3, <2>2, ReplyGoes DEF StoreTokens
  <2>4. Writes(r)
    <3>1. Digest(Signed(r)) \in Ids
      BY <2>1, SignedType
    <3> QED
      BY <1>3, <2>1, <3>1, WrittenRowType, UpdateWrites DEF StoreTokens
  <2>5. Issues(r)
    <3>1. /\ req'[r].reply = 200 /\ req'[r].call = req[r].call
          /\ req'[r].tok = req[r].tok /\ req'[r].uid = req[r].uid
          /\ req'[r].snap = req[r].snap /\ req'[r].at = req[r].at
      BY <1>3, ReplyFields DEF StoreTokens
    <3>2. tokens' = tokens \cup {Signed(r)} /\ Signed(r)' = Signed(r)
      BY <1>3, <3>1 DEF StoreTokens, Signed
    <3>3. Earned(r)'
      BY <2>1, <3>1, <3>2 DEF Knows, Earned
    <3> QED
      BY <3>1, <3>2, <3>3 DEF Issues
  <2> QED
    BY <2>2, <2>3, <2>4, <2>5
<1>4. CASE LogoutSelf(r)
  <2> DEFINE row == IF FindLive(req[r].uid) THEN Current(r) ELSE AbsentRow
  <2>1. Writes(r) /\ Op(r) = "logout" /\ UNCHANGED tokens /\ Remember(r, "write", req[r].uid, row)
    BY <1>4, NoWrite DEF LogoutSelf
  <2>2. ~Due(Op(r), req[r].pc) /\ ~Due(Op(r), "write") /\ "write" \in Steps
    BY <2>1 DEF Due, Steps
  <2>3. \A q \in Requests : Succeeded(q)' <=> Succeeded(q)
    BY <1>4, Unlogged DEF LogoutSelf
  <2> HIDE DEF row
  <2>4. Goes(r)
    BY <2>1, <2>2, <2>3, RememberGoes
  <2> QED
    BY <2>1, <2>3, <2>4, NothingIssued DEF Rows
<1>5. CASE LogoutWrite(r)
  <2>1. Op(r) = "logout" /\ UNCHANGED tokens /\ req[r].uid \in Ids
    BY <1>5, AtBound DEF LogoutWrite, Bound
  <2>2. Rows(r)
    BY <1>5, Unlogged, AuthSuccessLogged DEF LogoutWrite, Rows
  <2>3. Goes(r)
    BY <1>5, <2>1, ReplyGoes DEF LogoutWrite
  <2>4. Writes(r)
    BY <1>5, <2>1, WrittenRowType, UpdateWrites DEF LogoutWrite
  <2> QED
    BY <2>1, <2>2, <2>3, <2>4, NothingIssued
<1> QED
  BY <1>1, <1>2, <1>3, <1>4, <1>5

LEMMA ChangePasswordGoes ==
    ASSUME Typed, NEW r \in Requests, InFlight(r), Knows(r), UNCHANGED now,
           ChangePasswordSelf(r) \/ ChangePasswordFind(r) \/ ChangePasswordWrite(r)
    PROVE  Stepped(r)
<1> USE DEF Stepped
<1> RequestsOK /\ TableOK
  BY DEF Typed
<1>0. /\ Op(r) = "changePassword" /\ UNCHANGED tokens
      /\ req[r].pc \in {"self", "find", "write"}
  BY DEF ChangePasswordSelf, ChangePasswordFind, ChangePasswordWrite
<1>a. \A pc : ~Due(Op(r), pc)
  BY <1>0 DEF Due
<1>b. Issues(r) /\ ~Succeeded(r)
  BY <1>0, <1>a, NothingIssued DEF Knows, InFlight
<1>1. CASE ChangePasswordSelf(r)
  <2>1. Writes(r)
    BY <1>1, NoWrite DEF ChangePasswordSelf
  <2>2. \A q \in Requests : Succeeded(q)' <=> Succeeded(q)
    BY <1>1, Unlogged DEF ChangePasswordSelf
  <2>3. Goes(r)
    BY <1>0, <1>1, <1>a, <1>b, <2>2, MoveGoes DEF ChangePasswordSelf, Steps
  <2> QED
    BY <1>b, <2>1, <2>2, <2>3 DEF Rows
<1>2. CASE ChangePasswordFind(r)
  <2>1. Writes(r)
    BY <1>2, NoWrite DEF ChangePasswordFind
  <2>2. CASE Throw(r, 404) \/ Throw(r, 400)
    BY <1>0, <1>a, <2>1, <2>2, ThrowGoes
  <2>3. CASE /\ Current(r).password = req[r].call.password
             /\ Remember(r, "write", req[r].uid, Current(r)) /\ UNCHANGED audit
    <3>1. \A q \in Requests : Succeeded(q)' <=> Succeeded(q)
      BY <2>3, Unlogged
    <3>2. req[r].snap.password # req[r].call.password /\ "write" \in Steps
      <4>1. req[r].snap.password = None
        BY <1>0, <1>2 DEF ChangePasswordFind, Knows
      <4>2. req[r].call.password \in Passwords
        BY <1>0, CallsAssumption DEF RequestsOK, WellFormed
      <4> QED
        BY <4>1, <4>2, NoneIsNoValue DEF Steps
    <3>3. Goes(r)
      BY <1>0, <1>a, <2>3, <3>1, <3>2, RememberGoes DEF Current
    <3> QED
      BY <1>b, <2>1, <3>1, <3>3 DEF Rows
  <2> QED
    BY <1>2, <2>2, <2>3 DEF ChangePasswordFind
<1>3. CASE ChangePasswordWrite(r)
  <2>1. req[r].pc = "write" /\ req[r].uid \in Ids
    BY <1>3, AtBound DEF ChangePasswordWrite, Bound
  <2>2. Succeeded(r)' /\ Rows(r)
    BY <1>3, AuthSuccessLogged DEF ChangePasswordWrite
  <2>3. Goes(r)
    BY <1>0, <1>3, <2>2, ReplyGoes DEF ChangePasswordWrite
  <2>4. Writes(r)
    BY <1>0, <1>3, <2>1, RepasswordedWrites DEF ChangePasswordWrite
  <2> QED
    BY <1>b, <2>2, <2>3, <2>4
<1> QED
  BY <1>1, <1>2, <1>3

LEMMA AuthServiceGoes ==
    ASSUME Typed, NEW r \in Requests, Knows(r), AuthServiceStep(r)
    PROVE  InFlight(r) /\ Stepped(r)
<1>1. InFlight(r)
  BY DEF AuthServiceStep, CreateLookup, RegisterInsert, LoginLookup, LoginVerify,
         LoginCount, LoginClear, RefreshLookup, RefreshVerify, StoreTokens,
         LogoutSelf, LogoutWrite, ChangePasswordSelf, ChangePasswordFind,
         ChangePasswordWrite, InFlight, Steps
<1> QED
  BY <1>1, RegisterGoes, LoginGoes, SessionGoes, ChangePasswordGoes DEF AuthServiceStep

-----------------------------------------------------------------------------
(* Guards, faults and arrivals. *)

LEMMA GuardGoes ==
    ASSUME Typed, NEW r \in Requests, Knows(r), Guard(r)
    PROVE  InFlight(r) /\ Stepped(r)
<1> USE DEF Stepped
<1> UNCHANGED <<now, tokens>> /\ RequestsOK /\ TableOK
  BY DEF Guard, Typed
<1>1. /\ InFlight(r) /\ req[r].pc = "guard" /\ Op(r) \in GuardedOps
      /\ \A pc \in {"guard", "self", "find"} : ~Due(Op(r), pc) /\ pc \in Steps
  BY DEF Guard, InFlight, Steps, RequestsOK, WellFormed, GuardedOps, AdminOps, SelfOps, Due
<1>2. Writes(r)
  BY NoWrite DEF Guard
<1>3. CASE Throw(r, 401) \/ Throw(r, 403)
  BY <1>1, <1>2, <1>3, ThrowGoes
<1>4. CASE /\ Remember(r, IF Op(r) \in {"logout", "changePassword"}
                          THEN "self" ELSE "find", Target(r), AbsentRow)
           /\ UNCHANGED audit
  <2> DEFINE pc == IF Op(r) \in {"logout", "changePassword"} THEN "self" ELSE "find"
  <2>1. Remember(r, pc, Target(r), AbsentRow)
    BY <1>4
  <2>2. pc \in {"self", "find"} /\ (Op(r) = "changePassword" => pc = "self")
    OBVIOUS
  <2>3. \A q \in Requests : Succeeded(q)' <=> Succeeded(q)
    BY <1>4, Unlogged
  <2>4. Op(r) = "changePassword" => req[r].snap.password # req[r].call.password
    BY <1>1, CallsAssumption, NoneIsNoValue DEF RequestsOK, WellFormed, Knows
  <2>5. AbsentRow.password = None
    BY DEF AbsentRow
  <2> HIDE DEF pc
  <2>6. /\ ~Due(Op(r), pc) /\ pc \in Steps /\ ~Due(Op(r), req[r].pc)
        /\ pc \notin {"guard", "lookup", "store", "clear", "count", "verify"}
    BY <1>1, <2>2
  <2>7. Goes(r)
    BY <1>1, <2>1, <2>2, <2>3, <2>4, <2>5, <2>6, RememberGoes
  <2> QED
    BY <1>1, <1>2, <2>3, <2>7, NothingIssued DEF Rows
<1> QED
  BY <1>1, <1>3, <1>4 DEF Guard

LEMMA MayLandWrites ==
    ASSUME Typed, NEW r \in Requests, InFlight(r), Knows(r), MayLand(r)
    PROVE  Writes(r)
<1>1. CASE UNCHANGED users
  BY <1>1, NoWrite DEF Typed
<1>2. CASE /\ req[r].pc \in {"count", "clear", "store", "write"}
           /\ ~GivesNull(r)
           /\ Put(req[r].uid, PendingRow(r))
  <2>1. req[r].uid \in Ids
    BY <1>2, AtBound DEF Typed, Bound
  <2>2. Digest(Signed(r)) \in Ids \cup {None}
    BY <2>1 DEF Digest, Signed
  <2>3. CASE req[r].pc = "count"
    BY <1>2, <2>1, <2>3, CountedWrites DEF PendingRow
  <2>4. CASE req[r].pc = "write" /\ req[r].call.op = "changePassword"
    BY <1>2, <2>1, <2>4, RepasswordedWrites DEF PendingRow
  <2>5. CASE /\ req[r].pc \in {"clear", "store", "write"}
             /\ ~(req[r].pc = "write" /\ req[r].call.op = "changePassword")
    <3>1. PendingRow(r) \in {ClearedRow(r), SessionRow(r, Digest(Signed(r))),
                             SessionRow(r, None), PatchedRow(r), RemovedRow(r), RestoredRow(r)}
      BY <2>5 DEF PendingRow
    <3> QED
      <4>1. PendingRow(r) \in Row
        BY <1>2, <2>1, <2>2, <3>1, WrittenRowType DEF Typed
      <4> QED
        BY <1>2, <2>1, <2>2, <3>1, <4>1, UpdateWrites
  <2> QED
    BY <1>2, <2>3, <2>4, <2>5
<1>3. CASE /\ req[r].pc = "insert"
           /\ \E u \in Ids :
                LET row == FreshRow(req[r].call.email, req[r].call.password)
                IN users[u].status = "absent" /\ Put(u, row)
  BY <1>3, FreshWrites
<1> QED
  BY <1>1, <1>2, <1>3 DEF MayLand

LEMMA QueryFailsGoes ==
    ASSUME Typed, NEW r \in Requests, Knows(r), QueryFails(r), faults' = faults + 1
    PROVE  InFlight(r) /\ Stepped(r)
<1>1. InFlight(r) /\ Writes(r) /\ UNCHANGED <<now, tokens>> /\ Throw(r, QueryFailed)
  BY MayLandWrites DEF QueryFails
<1>2. faults' > 0
  BY DEF Typed, ClockOK
<1>3. Goes(r) /\ Rows(r) /\ Issues(r)
  <2>1. QueryFailed = 500 /\ QueryFailed \in Nat /\ QueryFailed >= 400
    BY DEF QueryFailed
  <2>2. UNCHANGED <<now, tokens>> /\ InFlight(r) /\ Throw(r, QueryFailed)
    BY <1>1
  <2>3. Due(Op(r), req[r].pc) =>
           (QueryFailed = 500 /\ faults' > 0) \/ (Op(r) = "restore" /\ QueryFailed = 404)
    BY <1>2, <2>1
  <2>4. QueryFailed = 500 => faults' > 0
    BY <1>2
  <2> QED
    BY <2>1, <2>2, <2>3, <2>4, ThrowGoes
<1> QED
  BY <1>1, <1>3 DEF Stepped

\* Request r begins.
Begins(r) ==
    /\ Others(r) /\ UNCHANGED <<users, now, tokens, audit>>
    /\ req[r] = IdleRequest
    /\ req'[r].pc \in {"guard", "lookup"}
    /\ req'[r].uid = None /\ req'[r].snap = AbsentRow /\ req'[r].reply = 0
    /\ Knows(r)'

LEMMA ArriveBegins ==
    ASSUME Typed, NEW r \in Requests, Knows(r), Arrive(r)
    PROVE  Begins(r)
<1>1. req \in [Requests -> Request] /\ req[r] = IdleRequest /\ IdleRequest \in Request
  BY DEF Typed, RequestsOK, Arrive, Knows
<1>2. PICK call \in Calls : \E t \in TokensFor(call) :
         req' = [req EXCEPT ![r] = [@ EXCEPT
                   !.pc = IF call.op \in GuardedOps THEN "guard" ELSE "lookup",
                   !.call = call, !.tok = t]]
  BY DEF Arrive
<1>3. PICK t \in TokensFor(call) :
         req' = [req EXCEPT ![r] = [@ EXCEPT
                   !.pc = IF call.op \in GuardedOps THEN "guard" ELSE "lookup",
                   !.call = call, !.tok = t]]
  BY <1>2
<1> DEFINE pc == IF call.op \in GuardedOps THEN "guard" ELSE "lookup"
<1>4. Others(r) /\ req'[r] = [IdleRequest EXCEPT !.pc = pc, !.call = call, !.tok = t]
  BY <1>1, <1>3 DEF Others
<1>5. /\ req'[r].pc = pc /\ req'[r].call = call /\ req'[r].tok = t
      /\ req'[r].uid = None /\ req'[r].snap = AbsentRow /\ req'[r].reply = 0
  BY <1>4 DEF IdleRequest
<1>6. UNCHANGED <<users, now, tokens, audit>> /\ pc \in {"guard", "lookup"}
  BY DEF Arrive
<1>7. call.op = "refresh" => t \in tokens
  BY DEF TokensFor
<1>8. ~Succeeded(r) /\ ~Due(call.op, pc)
  <2>1. Succeeded(r) <=> Due(Op(r), req[r].pc)
    BY <1>1 DEF Knows, IdleRequest
  <2> QED
    BY <1>1, <2>1 DEF Due, IdleRequest, NoCall
<1>9. \A q \in Requests : Succeeded(q)' <=> Succeeded(q)
  BY <1>6, Unlogged
<1>10. AbsentRow.password = None
  BY DEF AbsentRow
<1> HIDE DEF pc
<1>11. Knows(r)'
  BY <1>5, <1>6, <1>7, <1>8, <1>9, <1>10 DEF Knows, InFlight, Steps
<1> QED
  BY <1>1, <1>4, <1>5, <1>6, <1>11 DEF Begins

\* Every request in progress is lost; one statement may have landed.
Crashes ==
    /\ UNCHANGED <<now, tokens, audit>>
    /\ \E r \in Requests : Writes(r) /\ InFlight(r)
    /\ \A q \in Requests :
          \/ ~InFlight(q) /\ req'[q] = req[q]
          \/ /\ InFlight(q)
             /\ req'[q].pc = "lost" /\ req'[q].call = req[q].call
             /\ req'[q].tok = req[q].tok /\ req'[q].uid = req[q].uid
             /\ req'[q].snap = req[q].snap /\ req'[q].at = req[q].at
             /\ req'[q].reply = req[q].reply

LEMMA CrashCrashes ==
    ASSUME Typed, NEW r \in Requests, Knows(r), Crash(r)
    PROVE  Crashes
<1>1. ASSUME NEW q \in Requests, InFlight(q)
      PROVE  /\ req'[q].pc = "lost" /\ req'[q].call = req[q].call
             /\ req'[q].tok = req[q].tok /\ req'[q].uid = req[q].uid
             /\ req'[q].snap = req[q].snap /\ req'[q].at = req[q].at
             /\ req'[q].reply = req[q].reply
  <2>1. req[q] \in Request /\ req'[q] = [req[q] EXCEPT !.pc = "lost"]
    BY <1>1 DEF Crash, Typed, RequestsOK
  <2> QED
    BY <2>1 DEF Request
<1>2. ASSUME NEW q \in Requests, ~InFlight(q)
      PROVE  req'[q] = req[q]
  BY <1>2 DEF Crash
<1>3. InFlight(r) /\ Writes(r)
  BY MayLandWrites DEF Crash
<1> QED
  BY <1>1, <1>2, <1>3 DEF Crash, Crashes

Rests ==
    /\ UNCHANGED <<users, tokens, req, audit, faults>>
    /\ now <= now'

\* All that a step of the API can be.
LEMMA NextCases ==
    ASSUME Typed, \A r \in Requests : Knows(r), [Next]_vars
    PROVE  /\ now \in Nat /\ now <= now' /\ faults \in Nat /\ faults <= faults'
           /\ \/ \E r \in Requests : /\ InFlight(r) /\ Stepped(r)
                                     /\ Step(r) \/ req'[r].pc = "done"
              \/ \E r \in Requests : Arrive(r) /\ Begins(r)
              \/ Crashes
              \/ Rests
<1>0. now \in Nat /\ faults \in Nat
  BY DEF Typed, ClockOK
<1>1. CASE \E r \in Requests : Arrive(r) /\ UNCHANGED faults
  <2>1. PICK r \in Requests : Arrive(r) /\ UNCHANGED faults
    BY <1>1
  <2>2. Begins(r)
    BY <2>1, ArriveBegins
  <2>3. now' = now /\ faults' = faults
    BY <2>1 DEF Arrive
  <2> QED
    BY <1>0, <2>1, <2>2, <2>3
<1>2. CASE \E r \in Requests : Step(r)
  <2>1. PICK r \in Requests : Step(r)
    BY <1>2
  <2>2. InFlight(r) /\ Stepped(r)
    BY <2>1, GuardGoes, UsersServiceInFlight, UsersServiceGoes, AuthServiceGoes DEF Step
  <2>3. now' = now /\ faults' = faults
    BY <2>1 DEF Step, Guard, UsersServiceStep, AuthServiceStep
  <2> QED
    BY <1>0, <2>1, <2>2, <2>3
<1>3. CASE \E r \in Requests : Fault(r)
  <2>1. PICK r \in Requests : Fault(r)
    BY <1>3
  <2>2. CASE QueryFails(r)
    <3>1. req'[r].pc = "done"
      BY <2>2, ReplyFields DEF QueryFails, Throw, Typed
    <3> QED
      BY <1>0, <2>1, <2>2, <3>1, QueryFailsGoes DEF Fault, QueryFails
  <2>3. CASE Crash(r)
    BY <1>0, <2>1, <2>3, CrashCrashes DEF Fault, Crash
  <2> QED
    BY <2>1, <2>2, <2>3 DEF Fault
<1>4. CASE Tick \/ UNCHANGED vars
  BY <1>0, <1>4 DEF Tick, vars, Rests
<1> QED
  BY <1>1, <1>2, <1>3, <1>4 DEF Next, Quiet

-----------------------------------------------------------------------------
(* The rows handed over stay so. *)

LEMMA UsersServiceHands ==
    ASSUME NEW r \in Requests, UsersServiceStep(r)
    PROVE  audit \subseteq audit'
BY DEF UsersServiceStep, UpdateFind, UpdateCheck, UpdateWrite, UpdateReload,
       RemoveFind, RemoveWrite, RestoreFind, RestoreCheck, RestoreWrite,
       RestoreReload, Throw, Log

LEMMA AuthServiceHands ==
    ASSUME NEW r \in Requests, AuthServiceStep(r)
    PROVE  audit \subseteq audit'
BY DEF AuthServiceStep, CreateLookup, RegisterInsert, Created, LoginLookup, LoginVerify,
       LoginCount, LoginClear, RefreshLookup, RefreshVerify, StoreTokens,
       LogoutSelf, LogoutWrite, ChangePasswordSelf, ChangePasswordFind,
       ChangePasswordWrite, Throw, Log

LEMMA RowsHanded ==
    ASSUME [Next]_vars
    PROVE  audit \subseteq audit'
<1>1. ASSUME NEW r \in Requests, Step(r)
      PROVE  audit \subseteq audit'
  BY <1>1, UsersServiceHands, AuthServiceHands DEF Step, Guard, Throw, Log
<1>2. ASSUME NEW r \in Requests, Fault(r)
      PROVE  audit \subseteq audit'
  BY <1>2 DEF Fault, QueryFails, Crash, Throw, Log
<1> QED
  BY <1>1, <1>2 DEF Next, vars, Arrive, Tick, Quiet

-----------------------------------------------------------------------------
(* Which rows a step hands over. *)

\* The row of a login that is refused.
LoginFailure(r) == EventRow(r, "login", "failure", None, None)

RefusesLogin(r) == Op(r) = "login" /\ req'[r].reply \in {401, 403}

\* Rows of request r: neither a refused login nor a change of role, or one of
\* the two on its own.
ReportCase(r) ==
    \E rows :
        /\ Log(rows) /\ IsFiniteSet(rows)
        /\ \A row \in rows : row.by = r
        /\ \/ /\ ~RefusesLogin(r)
              /\ \A row \in rows : /\ row.action # "role_changed"
                                   /\ row.action = "login" => row.status = "success"
           \/ RefusesLogin(r) /\ rows = {LoginFailure(r)}
           \/ UpdateReload(r) /\ FindLive(req[r].uid) /\ rows = {UpdatedRow(r)}

LEMMA ActionNames ==
    ASSUME NEW op
    PROVE  /\ AuditAction(op) = "login" <=> op = "login"
           /\ AuditAction(op) = "role_changed" => op = "role_changed"
BY DEF AuditAction

LEMMA OpNames ==
    ASSUME Typed, NEW r \in Requests
    PROVE  Op(r) # "role_changed"
<1>1. req[r].call \in Call \cup {NoCall}
  BY DEF Typed, RequestsOK, Request
<1> QED
  BY <1>1 DEF Call, NoCall, AuthOps, AdminOps

LEMMA SilentReports ==
    ASSUME NEW r \in Requests, UNCHANGED audit, ~RefusesLogin(r)
    PROVE  ReportCase(r)
<1>1. Log({}) /\ IsFiniteSet({})
  BY FS_EmptySet DEF Log
<1> QED
  BY <1>1 DEF ReportCase

LEMMA RowReports ==
    ASSUME NEW r \in Requests, NEW row, Log({row}), row.by = r, ~RefusesLogin(r),
           row.action # "role_changed", row.action = "login" => row.status = "success"
    PROVE  ReportCase(r)
<1>1. IsFiniteSet({row})
  BY FS_Singleton
<1> QED
  BY <1>1 DEF ReportCase

LEMMA ThrowReports ==
    ASSUME Typed, NEW r \in Requests, NEW status, Throw(r, status),
           Op(r) = "login" => status \notin {401, 403}
    PROVE  ReportCase(r)
<1>1. IsFiniteSet(CatchRows(r))
  <2> DEFINE inner == IF req[r].pc \in TryBlock(Op(r)) THEN {FailureRow(r)} ELSE {}
             outer == IF Op(r) = "register" /\ req[r].pc \in {"lookup", "insert"}
                      THEN {EventRow(r, "user_created", "failure", None, None)} ELSE {}
  <2>1. IsFiniteSet(inner) /\ IsFiniteSet(outer)
    <3>1. IsFiniteSet({})
      BY FS_EmptySet
    <3>2. \A row : IsFiniteSet({row})
      BY FS_Singleton
    <3> QED
      BY <3>1, <3>2
  <2>2. CatchRows(r) = inner \cup outer
    BY DEF CatchRows
  <2> HIDE DEF inner, outer
  <2>3. IsFiniteSet(inner \cup outer)
    BY <2>1, FS_Union
  <2> QED
    BY <2>2, <2>3
<1>2. ASSUME NEW row \in CatchRows(r)
      PROVE  row.by = r /\ row.action \notin {"login", "role_changed"}
  <2>1. CASE row = EventRow(r, "user_created", "failure", None, None)
    BY <2>1 DEF EventRow
  <2>2. CASE req[r].pc \in TryBlock(Op(r)) /\ row = FailureRow(r)
    <3>1. row.by = r /\ row.action = AuditAction(Op(r))
      BY <2>2 DEF FailureRow, AuthRow, UserRow, EventRow
    <3>2. Op(r) # "login"
      BY <2>2 DEF TryBlock
    <3> QED
      BY <3>1, <3>2, ActionNames, OpNames
  <2> QED
    BY <1>2, <2>1, <2>2 DEF CatchRows
<1>3. ~RefusesLogin(r)
  BY ReplyFields DEF Throw, RefusesLogin, Typed
<1> QED
  BY <1>1, <1>2, <1>3 DEF Throw, ReportCase

LEMMA UsersServiceReports ==
    ASSUME Typed, NEW r \in Requests, UsersServiceStep(r)
    PROVE  ReportCase(r)
<1>1. /\ Op(r) # "login"
      /\ \/ UNCHANGED audit
         \/ \E status : Throw(r, status)
         \/ \E outcome : Log({UserRow(r, outcome)})
         \/ UpdateReload(r) /\ FindLive(req[r].uid) /\ Log({UpdatedRow(r)})
  BY DEF UsersServiceStep, UpdateFind, UpdateCheck, UpdateWrite, UpdateReload,
         RemoveFind, RemoveWrite, RestoreFind, RestoreCheck, RestoreWrite, RestoreReload
<1>2. ~RefusesLogin(r)
  BY <1>1 DEF RefusesLogin
<1>3. ASSUME NEW outcome, Log({UserRow(r, outcome)})
      PROVE  ReportCase(r)
  <2>1. UserRow(r, outcome).by = r /\ UserRow(r, outcome).action = AuditAction(Op(r))
    BY DEF UserRow, EventRow
  <2>2. UserRow(r, outcome).action \notin {"login", "role_changed"}
    BY <1>1, <2>1, ActionNames, OpNames
  <2> QED
    BY <1>2, <1>3, <2>1, <2>2, RowReports
<1>4. CASE UpdateReload(r) /\ FindLive(req[r].uid) /\ Log({UpdatedRow(r)})
  <2>1. UpdatedRow(r).by = r
    BY DEF UpdatedRow, UserRow, EventRow
  <2>2. IsFiniteSet({UpdatedRow(r)})
    BY FS_Singleton
  <2> QED
    BY <1>4, <2>1, <2>2 DEF ReportCase
<1> QED
  BY <1>1, <1>2, <1>3, <1>4, SilentReports, ThrowReports

LEMMA LoginVerifyReports ==
    ASSUME Typed, NEW r \in Requests, req[r].reply = 0, LoginVerify(r)
    PROVE  ReportCase(r)
<1>1. Op(r) = "login"
  BY DEF LoginVerify
<1>2. CASE GotoNow(r, "count") /\ UNCHANGED audit
  BY <1>2, GotoNowFields, SilentReports DEF RefusesLogin, Typed
<1>3. CASE Log({AuthRow(r, "failure")}) /\ (Reply(r, 401) \/ Reply(r, 403))
  <2>1. RefusesLogin(r)
    BY <1>1, <1>3, ReplyFields DEF RefusesLogin, Typed
  <2>2. AuthRow(r, "failure") = LoginFailure(r) /\ LoginFailure(r).by = r
    BY <1>1, ActionNames DEF AuthRow, LoginFailure, EventRow, AuditAction
  <2>3. IsFiniteSet({LoginFailure(r)})
    BY FS_Singleton
  <2> QED
    BY <1>3, <2>1, <2>2, <2>3 DEF ReportCase
<1>4. CASE /\ Log({AuthRow(r, "success")})
           /\ SignTokens(r, req[r].uid, Snap(r)) \/ Goto(r, "clear")
  <2>1. ~RefusesLogin(r)
    BY <1>4, SignTokensFields, GotoFields DEF RefusesLogin, Typed
  <2>2. AuthRow(r, "success").by = r /\ AuthRow(r, "success").status = "success"
        /\ AuthRow(r, "success").action = AuditAction(Op(r))
    BY DEF AuthRow, EventRow
  <2> QED
    BY <1>4, <2>1, <2>2, ActionNames, OpNames, RowReports
<1> QED
  BY <1>2, <1>3, <1>4 DEF LoginVerify

LEMMA LoginCountReports ==
    ASSUME Typed, NEW r \in Requests, Knows(r), LoginCount(r)
    PROVE  ReportCase(r)
<1>1. Op(r) = "login" /\ Log({AuthRow(r, "failure")}) /\ Reply(r, 401)
  BY DEF LoginCount, Knows
<1>2. RefusesLogin(r)
  BY <1>1, ReplyFields DEF RefusesLogin, Typed
<1>3. AuthRow(r, "failure") = LoginFailure(r) /\ LoginFailure(r).by = r
  BY <1>1 DEF AuthRow, LoginFailure, EventRow, AuditAction
<1>4. IsFiniteSet({LoginFailure(r)})
  BY FS_Singleton
<1> QED
  BY <1>1, <1>2, <1>3, <1>4 DEF ReportCase

LEMMA AuthServiceReports ==
    ASSUME Typed, NEW r \in Requests, Knows(r), InFlight(r), AuthServiceStep(r)
    PROVE  ReportCase(r)
<1>0. req[r].reply = 0 /\ RequestsOK /\ WellFormed(req[r])
  BY DEF Knows, Typed, RequestsOK
<1>1. CASE LoginVerify(r) \/ LoginCount(r)
  BY <1>0, <1>1, LoginVerifyReports, LoginCountReports
<1>2. CASE LoginLookup(r) \/ LoginClear(r)
  <2>1. UNCHANGED audit
    BY <1>2 DEF LoginLookup, LoginClear
  <2>2. req'[r].reply = 0
    BY <1>0, <1>2, GotoFields, RememberFields, SignTokensFields DEF LoginLookup, LoginClear
  <2> QED
    BY <2>1, <2>2, SilentReports DEF RefusesLogin
<1>3. CASE StoreTokens(r)
  <2>1. ~RefusesLogin(r)
    BY <1>0, <1>3, ReplyFields DEF StoreTokens, RefusesLogin
  <2>2. AuthRow(r, "success").by = r /\ AuthRow(r, "success").status = "success"
        /\ AuthRow(r, "success").action = AuditAction(Op(r))
    BY DEF AuthRow, EventRow
  <2> QED
    BY <1>3, <2>1, <2>2, ActionNames, OpNames, SilentReports, RowReports DEF StoreTokens
<1>4. CASE \/ CreateLookup(r) \/ RegisterInsert(r) \/ RefreshLookup(r) \/ RefreshVerify(r)
           \/ LogoutSelf(r) \/ LogoutWrite(r) \/ ChangePasswordSelf(r)
           \/ ChangePasswordFind(r) \/ ChangePasswordWrite(r)
  <2>1. Op(r) # "login"
    BY <1>0, <1>4 DEF CreateLookup, RegisterInsert, RefreshLookup, RefreshVerify,
       LogoutSelf, LogoutWrite, ChangePasswordSelf, ChangePasswordFind,
       ChangePasswordWrite, WellFormed
  <2>2. \/ UNCHANGED audit
        \/ \E status : Throw(r, status)
        \/ Log({AuthRow(r, "success")})
        \/ \E u : Log({EventRow(r, "user_created", "success", u, u)})
    BY <1>4 DEF CreateLookup, RegisterInsert, Created, RefreshLookup, RefreshVerify,
       LogoutSelf, LogoutWrite, ChangePasswordSelf, ChangePasswordFind, ChangePasswordWrite
  <2>3. ~RefusesLogin(r)
    BY <2>1 DEF RefusesLogin
  <2>4. AuthRow(r, "success").by = r /\ AuthRow(r, "success").action = AuditAction(Op(r))
    BY DEF AuthRow, EventRow
  <2>5. \A u : LET row == EventRow(r, "user_created", "success", u, u)
               IN row.by = r /\ row.action = "user_created"
    BY DEF EventRow
  <2> QED
    BY <2>1, <2>2, <2>3, <2>4, <2>5, ActionNames, OpNames, SilentReports, RowReports,
       ThrowReports
<1> QED
  BY <1>1, <1>2, <1>3, <1>4 DEF AuthServiceStep

LEMMA StepReports ==
    ASSUME Typed, NEW r \in Requests, Knows(r), Step(r)
    PROVE  InFlight(r) /\ Stepped(r) /\ ReportCase(r)
<1>1. InFlight(r) /\ Stepped(r)
  BY GuardGoes, UsersServiceInFlight, UsersServiceGoes, AuthServiceGoes DEF Step
<1>2. CASE Guard(r)
  <2>1. Op(r) # "login"
    BY <1>2 DEF Guard, Typed, RequestsOK, WellFormed, GuardedOps, AdminOps, SelfOps
  <2>2. ~RefusesLogin(r)
    BY <2>1 DEF RefusesLogin
  <2>3. UNCHANGED audit \/ \E status : Throw(r, status)
    BY <1>2 DEF Guard
  <2> QED
    BY <1>1, <2>1, <2>2, <2>3, SilentReports, ThrowReports
<1> QED
  BY <1>1, <1>2, UsersServiceReports, AuthServiceReports DEF Step

\* A step hands over rows of one request, and no other answer is given in it.
LEMMA ReportCases ==
    ASSUME Typed, \A r \in Requests : Knows(r), [Next]_vars
    PROVE  \/ \E r \in Requests : InFlight(r) /\ Stepped(r) /\ ReportCase(r)
           \/ /\ UNCHANGED audit
              /\ \A q \in Requests : /\ req'[q].reply = req[q].reply
                                     /\ req[q].pc = "idle" \/ req'[q].call = req[q].call
<1>1. ASSUME NEW r \in Requests, Step(r)
      PROVE  InFlight(r) /\ Stepped(r) /\ ReportCase(r)
  BY <1>1, StepReports
<1>2. ASSUME NEW r \in Requests, QueryFails(r), faults' = faults + 1
      PROVE  InFlight(r) /\ Stepped(r) /\ ReportCase(r)
  BY <1>2, QueryFailsGoes, ThrowReports DEF QueryFails, QueryFailed
<1>3. ASSUME NEW r \in Requests, Arrive(r)
      PROVE  /\ UNCHANGED audit
             /\ \A q \in Requests : /\ req'[q].reply = req[q].reply
                                    /\ req[q].pc = "idle" \/ req'[q].call = req[q].call
  BY <1>3, ArriveBegins DEF Begins, Others, IdleRequest
<1>4. ASSUME NEW r \in Requests, Crash(r)
      PROVE  /\ UNCHANGED audit
             /\ \A q \in Requests : /\ req'[q].reply = req[q].reply
                                    /\ req[q].pc = "idle" \/ req'[q].call = req[q].call
  BY <1>4, CrashCrashes DEF Crashes
<1> QED
  BY <1>1, <1>2, <1>3, <1>4 DEF Next, Fault, Tick, Quiet, vars

\* No step hands over more than finitely many rows.
LEMMA TrailGrowsFinitely ==
    ASSUME Typed, \A r \in Requests : Knows(r), [Next]_vars, IsFiniteSet(audit)
    PROVE  IsFiniteSet(audit')
<1>1. ASSUME NEW r \in Requests, ReportCase(r)
      PROVE  IsFiniteSet(audit')
  BY <1>1, FS_Union DEF ReportCase, Log
<1> QED
  BY <1>1, ReportCases

-----------------------------------------------------------------------------
(* What the handlers know, the honesty of the answers, and the theorems.   *)

Informed == \A r \in Requests : Knows(r) /\ Honest(r)

\* What request q knows survives whatever leaves q alone.
LEMMA OthersInformed ==
    ASSUME Typed, NEW q \in Requests, Knows(q), Honest(q), req'[q] = req[q],
           now \in Nat, now' \in Nat, now <= now', tokens \subseteq tokens',
           faults \in Nat, faults' \in Nat, faults <= faults',
           Succeeded(q)' <=> Succeeded(q)
    PROVE  Knows(q)' /\ Honest(q)'
<1>1. Earned(q) => Earned(q)'
  BY DEF Earned
<1>2. req[q].snap.lockedUntil <= now => req[q].snap.lockedUntil <= now'
  BY DEF Typed, RequestsOK, Request, Row
<1>3. Knows(q)'
  BY <1>1, <1>2 DEF Knows, InFlight
<1>4. Honest(q)'
  BY DEF Honest, GivesNull
<1> QED
  BY <1>3, <1>4

LEMMA InformedKept ==
    ASSUME Typed, Informed, [Next]_vars
    PROVE  Informed'
<1>1. \A r \in Requests : Knows(r) /\ Honest(r)
  BY DEF Informed
<1>2. /\ now \in Nat /\ now' \in Nat /\ now <= now'
      /\ faults \in Nat /\ faults' \in Nat /\ faults <= faults'
  BY <1>1, NextCases, NextKept DEF Typed, ClockOK
<1>3. CASE \E r \in Requests : Stepped(r)
  <2>1. PICK r \in Requests : Stepped(r)
    BY <1>3
  <2>2. Knows(r)' /\ Honest(r)' /\ tokens \subseteq tokens'
    BY <2>1 DEF Stepped, Goes, Issues
  <2>3. ASSUME NEW q \in Requests \ {r}
        PROVE  Knows(q)' /\ Honest(q)'
    BY <1>1, <1>2, <2>1, <2>2, OthersInformed DEF Stepped, Goes, Carries, Others, Rows
  <2> QED
    BY <2>2, <2>3 DEF Informed
<1>4. CASE \E r \in Requests : Begins(r)
  <2>1. PICK r \in Requests : Begins(r)
    BY <1>4
  <2>2. Honest(r)'
    BY <2>1 DEF Begins, Honest
  <2>3. \A q \in Requests : Succeeded(q)' <=> Succeeded(q)
    BY <2>1, Unlogged DEF Begins
  <2>4. ASSUME NEW q \in Requests \ {r}
        PROVE  Knows(q)' /\ Honest(q)'
    BY <1>1, <1>2, <2>1, <2>3, OthersInformed DEF Begins, Others
  <2> QED
    BY <2>1, <2>2, <2>4 DEF Begins, Informed
<1>5. CASE Crashes
  <2>1. \A q \in Requests : Succeeded(q)' <=> Succeeded(q)
    BY <1>5, Unlogged DEF Crashes
  <2>2. ASSUME NEW q \in Requests
        PROVE  Knows(q)' /\ Honest(q)'
    <3>1. CASE req'[q] = req[q]
      BY <1>1, <1>2, <1>5, <2>1, <3>1, OthersInformed DEF Crashes
    <3>2. CASE /\ InFlight(q)
               /\ req'[q].pc = "lost" /\ req'[q].call = req[q].call
               /\ req'[q].tok = req[q].tok /\ req'[q].reply = req[q].reply
      <4>1. req[q].pc # "idle" /\ req[q].reply = 0
        BY <1>1, <3>2 DEF Knows, InFlight, Steps
      <4>2. Knows(q)'
        BY <1>1, <1>5, <3>2, <4>1 DEF Crashes, Knows, InFlight, Steps
      <4>3. Honest(q)'
        BY <3>2, <4>1 DEF Honest
      <4> QED
        BY <4>2, <4>3
    <3> QED
      BY <1>5, <3>1, <3>2 DEF Crashes
  <2> QED
    BY <2>2 DEF Informed
<1>6. CASE Rests
  BY <1>1, <1>2, <1>6, Unlogged, OthersInformed DEF Rests, Informed
<1> QED
  BY <1>1, <1>3, <1>4, <1>5, <1>6, NextCases

LEMMA InitInformed ==
    ASSUME Init, NEW r \in Requests
    PROVE  Knows(r) /\ Honest(r)
<1>1. req[r] = IdleRequest /\ ~Succeeded(r)
  BY DEF Init, Succeeded
<1> QED
  BY <1>1 DEF Knows, Honest, IdleRequest, NoCall, AbsentRow, InFlight, Steps, Due

LEMMA InformedAlways == Spec => []Informed
<1>1. Init => Informed
  BY InitInformed DEF Informed
<1>2. Typed /\ Informed /\ [Next]_vars => Informed'
  BY InformedKept
<1> QED
  BY <1>1, <1>2, TypedAlways, PTL DEF Spec

\* A lost race over an address is a conflict, and the table refuses nothing else
\* but a null: without a failed statement only a PATCH with a null in it is
\* answered with an internal error.
THEOREM NoSpuriousErrorKept == Spec => []NoSpuriousError
<1>1. Informed => NoSpuriousError
  BY DEF Informed, Honest, NoSpuriousError
<1> QED
  BY <1>1, InformedAlways, PTL

\* The trail and the answers agree, but for the exceptions in the code, for
\* every interleaving of handlers, failed statements and crashes.
THEOREM TrailHonest == Spec => []AuditMatchesAnswer
<1>1. Informed => AuditMatchesAnswer
  BY DEF Informed, Honest, Succeeded, AuditMatchesAnswer
<1> QED
  BY <1>1, InformedAlways, PTL

\* generateTokens is reached only by a registration, by a login that passed every
\* check, or by a refresh of a session: no interleaving hands a client a pair
\* that its request has not earned.
THEOREM TokensEarned == Spec => []EveryTokenEarned
<1>1. Init => EveryTokenEarned
  BY DEF Init, EveryTokenEarned
<1>2. Typed /\ Informed /\ EveryTokenEarned /\ [Next]_vars => EveryTokenEarned'
  <2> SUFFICES ASSUME Typed, Informed, EveryTokenEarned, [Next]_vars
               PROVE  EveryTokenEarned'
    OBVIOUS
  <2>1. \A r \in Requests : InFlight(r) => req[r].reply = 0
    BY DEF Informed, Knows
  <2>2. /\ tokens \subseteq tokens'
        /\ \A t \in tokens' \ tokens :
              \E r \in Requests : req'[r].reply = 200 /\ Signed(r)' = t /\ Earned(r)'
        /\ \A r \in Requests : req[r].reply = 200 => req'[r] = req[r]
    <3>1. CASE \E r \in Requests : InFlight(r) /\ Stepped(r)
      BY <2>1, <3>1 DEF Stepped, Issues, Goes, Carries, Others
    <3>2. CASE \E r \in Requests : Begins(r)
      <4>1. IdleRequest.reply = 0
        BY DEF IdleRequest
      <4> QED
        BY <3>2, <4>1 DEF Begins, Others
    <3>3. CASE Crashes
      BY <2>1, <3>3 DEF Crashes
    <3>4. CASE Rests
      BY <3>4 DEF Rests
    <3> QED
      BY <3>1, <3>2, <3>3, <3>4, NextCases DEF Informed
  <2>3. ASSUME NEW r \in Requests, req[r].reply = 200, Earned(r)
        PROVE  req'[r].reply = 200 /\ Signed(r)' = Signed(r) /\ Earned(r)'
    BY <2>2, <2>3 DEF Signed, Earned
  <2>4. ASSUME NEW t \in tokens' \ SeedTokens
        PROVE  \E r \in Requests : req'[r].reply = 200 /\ Signed(r)' = t /\ Earned(r)'
    <3>1. CASE t \in tokens
      BY <2>3, <2>4, <3>1 DEF EveryTokenEarned
    <3>2. CASE t \notin tokens
      BY <2>2, <3>2
    <3> QED
      BY <3>1, <3>2
  <2> QED
    BY <2>4 DEF EveryTokenEarned
<1> QED
  BY <1>1, <1>2, TypedAlways, InformedAlways, PTL DEF Spec

-----------------------------------------------------------------------------
(* Passwords. *)

\* A seeded account never becomes absent again.
Present == \A u \in Ids : Seed[u].status # "absent" => users[u].status # "absent"

\* What a step does to passwords and to verified changes of them.
Rekeys ==
    /\ \A q \in Requests, u \in Ids :
          /\ Repassworded(q, u) =>
                /\ Repassworded(q, u)'
                /\ req'[q].call.newPassword = req[q].call.newPassword
          /\ Repassworded(q, u)' =>
                \/ Repassworded(q, u) /\ req'[q].call.password = req[q].call.password
                \/ req'[q].call.password = users[u].password
    /\ \A u \in Ids :
          /\ users'[u].status = "absent" => users[u].status = "absent"
          /\ \/ users'[u].password = users[u].password
             \/ users[u].status = "absent"
             \/ \E q \in Requests :
                   Repassworded(q, u) /\ users'[u].password = req[q].call.newPassword

LEMMA StepRekeys ==
    ASSUME Typed, Informed, [Next]_vars
    PROVE  Rekeys
<1>1. CASE \E r \in Requests : Stepped(r)
  <2>1. PICK r \in Requests : Stepped(r)
    BY <1>1
  <2>2. /\ \A u \in Ids : Repassworded(r, u) => Repassworded(r, u)'
        /\ \A u \in Ids : Repassworded(r, u)' =>
              Repassworded(r, u) \/ req[r].call.password = users[u].password
        /\ req'[r].call = req[r].call
        /\ \A q \in Requests \ {r} : req'[q] = req[q]
        /\ Repasswords(r)
    BY <2>1 DEF Stepped, Goes, Carries, Others, Writes
  <2>3. \A q \in Requests \ {r}, u \in Ids : Repassworded(q, u)' <=> Repassworded(q, u)
    BY <2>2 DEF Repassworded
  <2> QED
    BY <2>2, <2>3 DEF Rekeys, Repasswords
<1>2. CASE \E r \in Requests : Begins(r)
  <2>1. PICK r \in Requests : Begins(r)
    BY <1>2
  <2>2. \A u \in Ids : ~Repassworded(r, u) /\ ~Repassworded(r, u)'
    BY <2>1, NoneIsNoValue DEF Begins, Repassworded, IdleRequest, NoCall
  <2>3. \A q \in Requests \ {r} : req'[q] = req[q]
    BY <2>1 DEF Begins, Others
  <2>4. \A q \in Requests \ {r}, u \in Ids : Repassworded(q, u)' <=> Repassworded(q, u)
    BY <2>3 DEF Repassworded
  <2>5. users' = users
    BY <2>1 DEF Begins
  <2> QED
    BY <2>2, <2>3, <2>4, <2>5 DEF Rekeys
<1>3. CASE Crashes
  <2>1. /\ \E r \in Requests : Repasswords(r)
        /\ \A q \in Requests : /\ req'[q].call = req[q].call /\ req'[q].uid = req[q].uid
                               /\ req'[q].snap = req[q].snap
    BY <1>3 DEF Crashes, Writes
  <2>2. \A q \in Requests, u \in Ids : Repassworded(q, u)' <=> Repassworded(q, u)
    BY <2>1 DEF Repassworded
  <2> QED
    BY <2>1, <2>2 DEF Rekeys, Repasswords
<1>4. CASE Rests
  BY <1>4 DEF Rests, Rekeys, Repassworded
<1> QED
  BY <1>1, <1>2, <1>3, <1>4, NextCases DEF Informed

\* changePassword writes only what a caller who knew the password asked for: each
\* password goes back, change by change, to the first one, for every overlap of
\* changes, failed statements and crashes.
THEOREM PasswordsKept == Spec => []PasswordsKnown
<1> DEFINE Inv == Present /\ PasswordsKnown
<1>1. Init => Inv
  <2> SUFFICES ASSUME Init PROVE Inv
    OBVIOUS
  <2>1. \A r \in Requests, u \in Ids : ~Repassworded(r, u)
    BY DEF Init, Repassworded, IdleRequest, NoCall
  <2> QED
    BY <2>1 DEF Init, Present, PasswordsKnown, Known
<1>2. Typed /\ Informed /\ Inv /\ [Next]_vars => Inv'
  <2> SUFFICES ASSUME Typed, Informed, Inv, [Next]_vars
               PROVE  Inv'
    OBVIOUS
  <2>1. Rekeys
    BY StepRekeys
  <2>2. \A u \in Ids : \A p : Known(u, p) => Known(u, p)'
    BY <2>1 DEF Rekeys, Known
  <2>3. Present'
    BY <2>1 DEF Rekeys, Present
  <2>4. ASSUME NEW u \in Ids, Seed[u].status # "absent"
        PROVE  /\ Known(u, users[u].password)'
               /\ \A r \in Requests : Repassworded(r, u)' => Known(u, req[r].call.password)'
    <3>1. /\ users[u].status # "absent" /\ Known(u, users[u].password)
          /\ \A r \in Requests : Repassworded(r, u) => Known(u, req[r].call.password)
      BY <2>4 DEF Present, PasswordsKnown
    <3>2. Known(u, users[u].password)'
      <4>1. CASE users'[u].password = users[u].password
        BY <2>2, <3>1, <4>1 DEF Known
      <4>2. CASE \E q \in Requests :
                    Repassworded(q, u) /\ users'[u].password = req[q].call.newPassword
        BY <2>1, <4>2 DEF Rekeys, Known
      <4> QED
        BY <2>1, <3>1, <4>1, <4>2 DEF Rekeys
    <3>3. ASSUME NEW r \in Requests, Repassworded(r, u)'
          PROVE  Known(u, req[r].call.password)'
      <4>1. CASE Repassworded(r, u) /\ req'[r].call.password = req[r].call.password
        BY <2>2, <3>1, <4>1 DEF Known
      <4>2. CASE req'[r].call.password = users[u].password
        BY <2>2, <3>1, <4>2 DEF Known
      <4> QED
        BY <2>1, <3>3, <4>1, <4>2 DEF Rekeys
    <3> QED
      BY <3>2, <3>3
  <2> QED
    BY <2>3, <2>4 DEF PasswordsKnown
<1> HIDE DEF Inv
<1>3. Spec => []Inv
  BY <1>1, <1>2, TypedAlways, InformedAlways, PTL DEF Spec
<1>4. Inv => PasswordsKnown
  BY DEF Inv
<1> QED
  BY <1>3, <1>4, PTL

-----------------------------------------------------------------------------
(* Failed logins. *)

Failures(u) == Seed[u].failedLoginAttempts + Cardinality(WrongLogins(u))

LEMMA WrongLoginsFinite ==
    ASSUME NEW u
    PROVE  /\ WrongLogins(u) \subseteq Requests
           /\ IsFiniteSet(WrongLogins(u)) /\ Cardinality(WrongLogins(u)) \in Nat
<1>1. WrongLogins(u) \subseteq Requests
  BY DEF WrongLogins
<1>2. IsFiniteSet(WrongLogins(u))
  BY <1>1, BoundsAssumption, FS_Subset
<1> QED
  BY <1>1, <1>2, FS_CardinalityType

LEMMA WrongLoginsFiniteNext ==
    ASSUME NEW u
    PROVE  IsFiniteSet(WrongLogins(u)') /\ Cardinality(WrongLogins(u)') \in Nat
<1>1. WrongLogins(u)' \subseteq Requests
  BY DEF WrongLogins
<1>2. IsFiniteSet(WrongLogins(u)')
  BY <1>1, BoundsAssumption, FS_Subset
<1> QED
  BY <1>2, FS_CardinalityType

\* Every counter, and every counter a login has read and may still write from, is
\* backed by wrong passwords that were given.
Backed ==
    /\ \A u \in Ids : users[u].failedLoginAttempts <= Failures(u)
    /\ \A r \in Requests : \A u \in Ids :
          req[r].pc \in {"verify", "count"} /\ req[r].uid = u =>
              req[r].snap.failedLoginAttempts <= Failures(u)

\* What a step does to the counters, the snapshots and the failures of account u.
Tallies(u) ==
    /\ WrongLogins(u) \subseteq WrongLogins(u)'
    /\ \/ users'[u].failedLoginAttempts <= users[u].failedLoginAttempts
       \/ \E q \in Requests :
             /\ req[q].pc = "count" /\ req[q].uid = u
             /\ users'[u].failedLoginAttempts = req[q].snap.failedLoginAttempts + 1
             /\ q \notin WrongLogins(u) /\ q \in WrongLogins(u)'
    /\ \A q \in Requests : req'[q].pc \in {"verify", "count"} /\ req'[q].uid = u =>
          \/ req'[q].snap = users[u]
          \/ /\ req[q].pc \in {"verify", "count"}
             /\ req[q].uid = u /\ req'[q].snap = req[q].snap

LEMMA StepTallies ==
    ASSUME Typed, Informed, [Next]_vars, NEW u \in Ids
    PROVE  Tallies(u)
<1>0. /\ \A q \in Requests : InFlight(q) => req[q].pc \notin {"done", "lost"}
      /\ \A q \in Requests : req[q].pc = "count" =>
            Op(q) = "login" /\ req[q].snap.password # req[q].call.password
  BY DEF InFlight, Steps, Informed, Knows
<1>1. CASE \E r \in Requests : InFlight(r) /\ Stepped(r)
  <2>1. PICK r \in Requests : InFlight(r) /\ Stepped(r)
    BY <1>1
  <2>2. Carries(r) /\ Counts(r)
    BY <2>1 DEF Stepped, Goes, Writes
  <2>3. \A q \in Requests \ {r} : req'[q] = req[q]
    BY <2>2 DEF Carries, Others
  <2>4. WrongLogins(u) \subseteq WrongLogins(u)'
    BY <1>0, <2>1, <2>3 DEF WrongLogins
  <2>5. \/ users'[u].failedLoginAttempts <= users[u].failedLoginAttempts
        \/ /\ req[r].pc = "count" /\ req[r].uid = u
           /\ users'[u].failedLoginAttempts = req[r].snap.failedLoginAttempts + 1
    BY <2>2 DEF Counts
  <2>6. ASSUME req[r].pc = "count", req[r].uid = u
        PROVE  r \notin WrongLogins(u) /\ r \in WrongLogins(u)'
    <3>1. r \notin WrongLogins(u)
      BY <2>6 DEF WrongLogins
    <3>2. /\ req'[r].pc = "done" /\ req'[r].call = req[r].call
          /\ req'[r].uid = u /\ req'[r].snap = req[r].snap
      BY <2>2, <2>6 DEF Carries
    <3> QED
      BY <1>0, <2>6, <3>1, <3>2 DEF WrongLogins
  <2>7. req'[r].pc \in {"verify", "count"} /\ req'[r].uid = u =>
          \/ req'[r].snap = users[u]
          \/ req[r].pc = "verify" /\ req[r].uid = u /\ req'[r].snap = req[r].snap
    BY <2>2, NoneIsNoValue DEF Carries
  <2> QED
    BY <2>3, <2>4, <2>5, <2>6, <2>7 DEF Tallies
<1>2. CASE \E r \in Requests : Begins(r)
  <2>1. PICK r \in Requests : Begins(r)
    BY <1>2
  <2>2. /\ \A q \in Requests \ {r} : req'[q] = req[q]
        /\ users' = users /\ req[r].pc = "idle" /\ req'[r].pc \in {"guard", "lookup"}
    BY <2>1 DEF Begins, Others, IdleRequest
  <2>3. WrongLogins(u) \subseteq WrongLogins(u)'
    BY <2>2 DEF WrongLogins
  <2> QED
    BY <2>2, <2>3 DEF Tallies, Typed, TableOK, Row
<1>3. CASE Crashes
  <2>1. PICK r \in Requests : InFlight(r) /\ Counts(r)
    BY <1>3 DEF Crashes, Writes
  <2>2. /\ \A q \in Requests : /\ req'[q].call = req[q].call /\ req'[q].uid = req[q].uid
                               /\ req'[q].snap = req[q].snap
                               /\ req'[q].pc = IF InFlight(q) THEN "lost" ELSE req[q].pc
    BY <1>3 DEF Crashes
  <2>3. WrongLogins(u) \subseteq WrongLogins(u)'
    BY <1>0, <2>2 DEF WrongLogins
  <2>4. ASSUME req[r].pc = "count", req[r].uid = u
        PROVE  r \notin WrongLogins(u) /\ r \in WrongLogins(u)'
    BY <1>0, <2>1, <2>2, <2>4 DEF WrongLogins
  <2>5. \A q \in Requests : req'[q].pc \notin {"verify", "count"}
    BY <2>2 DEF InFlight, Steps
  <2> QED
    BY <2>1, <2>3, <2>4, <2>5 DEF Tallies, Counts
<1>4. CASE Rests
  <2>1. users' = users /\ req' = req
    BY <1>4 DEF Rests
  <2>2. WrongLogins(u)' = WrongLogins(u)
    BY <2>1 DEF WrongLogins
  <2> QED
    BY <2>1, <2>2 DEF Tallies, Typed, TableOK, Row
<1> QED
  BY <1>1, <1>2, <1>3, <1>4, NextCases DEF Informed

\* registerFailedLogin writes the counter it read plus one: however many logins
\* overlap, fail or are cut off, no wrong password is counted twice and none that
\* nobody gave is counted.  The failures need not be consecutive: a count taken
\* before a success can be written after it.
THEOREM CounterBackedKept == Spec => []CounterBacked
<1>1. Init => Backed
  <2> SUFFICES ASSUME Init PROVE Backed
    OBVIOUS
  <2>1. \A u \in Ids : Cardinality(WrongLogins(u)) \in Nat
    BY WrongLoginsFinite
  <2>2. \A u \in Ids : users[u] = Seed[u] /\ Seed[u].failedLoginAttempts \in Nat
    BY SeedAssumption DEF Init, Row
  <2>3. \A r \in Requests : req[r].pc = "idle"
    BY DEF Init, IdleRequest
  <2> QED
    BY <2>1, <2>2, <2>3 DEF Backed, Failures
<1>2. Typed /\ Informed /\ Backed /\ [Next]_vars => Backed'
  <2> SUFFICES ASSUME Typed, Informed, Backed, [Next]_vars, NEW u \in Ids
               PROVE  /\ users'[u].failedLoginAttempts <= Failures(u)'
                      /\ \A r \in Requests :
                            req'[r].pc \in {"verify", "count"} /\ req'[r].uid = u =>
                                req'[r].snap.failedLoginAttempts <= Failures(u)'
    BY DEF Backed
  <2> DEFINE now0 == Cardinality(WrongLogins(u))
             now1 == Cardinality(WrongLogins(u)')
  <2>1. Tallies(u)
    BY StepTallies
  <2>2. /\ now0 \in Nat /\ now1 \in Nat
        /\ IsFiniteSet(WrongLogins(u)) /\ IsFiniteSet(WrongLogins(u)')
    BY WrongLoginsFinite, WrongLoginsFiniteNext
  <2>3. now0 <= now1
    BY <2>1, <2>2, FS_Subset DEF Tallies
  <2>4. ASSUME NEW q \in Requests, q \notin WrongLogins(u), q \in WrongLogins(u)'
        PROVE  now0 + 1 <= now1
    <3>1. /\ IsFiniteSet(WrongLogins(u) \cup {q})
          /\ Cardinality(WrongLogins(u) \cup {q}) = now0 + 1
      BY <2>2, <2>4, FS_AddElement
    <3>2. WrongLogins(u) \cup {q} \subseteq WrongLogins(u)'
      BY <2>1, <2>4 DEF Tallies
    <3> QED
      BY <2>2, <3>1, <3>2, FS_Subset
  <2>5. Failures(u) = Seed[u].failedLoginAttempts + now0
    BY DEF Failures
  <2>6. Failures(u)' = Seed[u].failedLoginAttempts + now1
    BY DEF Failures
  <2> HIDE DEF now0, now1
  <2>7. /\ Seed[u].failedLoginAttempts \in Nat /\ users[u].failedLoginAttempts \in Nat
        /\ users'[u].failedLoginAttempts \in Nat
        /\ \A q \in Requests : /\ req[q].snap.failedLoginAttempts \in Nat
                               /\ req'[q].snap.failedLoginAttempts \in Nat
    <3>1. Typed'
      BY NextKept
    <3>2. users[u] \in Row /\ users'[u] \in Row /\ Seed[u] \in Row
      BY <3>1, SeedAssumption DEF Typed, TableOK
    <3>3. \A q \in Requests : req[q].snap \in Row /\ req'[q].snap \in Row
      BY <3>1 DEF Typed, RequestsOK, Request
    <3> QED
      BY <3>2, <3>3 DEF Row
  <2>8. Failures(u) <= Failures(u)' /\ Failures(u) \in Nat /\ Failures(u)' \in Nat
    BY <2>2, <2>3, <2>5, <2>6, <2>7
  <2>9. users[u].failedLoginAttempts <= Failures(u)
    BY DEF Backed
  <2>10. users'[u].failedLoginAttempts <= Failures(u)'
    <3>1. CASE users'[u].failedLoginAttempts <= users[u].failedLoginAttempts
      BY <2>7, <2>8, <2>9, <3>1
    <3>2. CASE \E q \in Requests :
                  /\ req[q].pc = "count" /\ req[q].uid = u
                  /\ users'[u].failedLoginAttempts = req[q].snap.failedLoginAttempts + 1
                  /\ q \notin WrongLogins(u) /\ q \in WrongLogins(u)'
      <4>1. PICK q \in Requests :
                  /\ req[q].pc = "count" /\ req[q].uid = u
                  /\ users'[u].failedLoginAttempts = req[q].snap.failedLoginAttempts + 1
                  /\ q \notin WrongLogins(u) /\ q \in WrongLogins(u)'
        BY <3>2
      <4>2. req[q].snap.failedLoginAttempts <= Failures(u)
        BY <4>1 DEF Backed
      <4>3. Failures(u) + 1 <= Failures(u)'
        BY <2>2, <2>4, <2>5, <2>6, <2>7, <4>1
      <4> QED
        BY <2>7, <2>8, <4>1, <4>2, <4>3
    <3> QED
      BY <2>1, <3>1, <3>2 DEF Tallies
  <2>11. ASSUME NEW r \in Requests, req'[r].pc \in {"verify", "count"}, req'[r].uid = u
         PROVE  req'[r].snap.failedLoginAttempts <= Failures(u)'
    <3>1. CASE req'[r].snap = users[u]
      BY <2>7, <2>8, <2>9, <3>1
    <3>2. CASE /\ req[r].pc \in {"verify", "count"}
               /\ req[r].uid = u /\ req'[r].snap = req[r].snap
      <4>1. req[r].snap.failedLoginAttempts <= Failures(u)
        BY <3>2 DEF Backed
      <4> QED
        BY <2>7, <2>8, <3>2, <4>1
    <3> QED
      BY <2>1, <2>11, <3>1, <3>2 DEF Tallies
  <2> QED
    BY <2>10, <2>11
<1>3. Backed => CounterBacked
  BY DEF Backed, CounterBacked, Failures
<1> QED
  BY <1>1, <1>2, <1>3, TypedAlways, InformedAlways, PTL DEF Spec
=============================================================================
