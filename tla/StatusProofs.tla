---------------------------- MODULE StatusProofs ----------------------------
(***************************************************************************)
(* The trail explains the existence and the deletion of every account.     *)
(***************************************************************************)
EXTENDS RequestProofs

USE DEF At, Op, Snap

-----------------------------------------------------------------------------
(* What a step may do to the statuses, and the row that goes with it. *)

KeepsStatuses == \A u \in Ids : users'[u].status = users[u].status

\* Request r makes account u what status says and hands over row.
Turns(r, u, status, row) ==
    /\ \A v \in Ids : users'[v].status = IF v = u THEN status ELSE users[v].status
    /\ audit' = audit \cup {row}
    /\ row.by = r /\ row.status = "success" /\ row.userId = u
    /\ req'[r].call = req[r].call /\ req'[r].tok = req[r].tok

Registers(r, u) ==
    \E row : /\ Turns(r, u, "live", row)
             /\ row.action = "user_created" /\ row.performedBy = u
             /\ Op(r) = "register" /\ users[u].status = "absent"

Administers(r, u) ==
    /\ req[r].uid = u /\ req'[r].uid = u /\ req[r].pc = "write"
    /\ \/ /\ Op(r) = "remove"
          /\ \E row : /\ Turns(r, u, "deleted", row) /\ row.action = "user_deleted"
                      /\ row.performedBy = req[r].tok.sub
       \/ /\ Op(r) = "restore"
          /\ \E row : /\ Turns(r, u, "live", row) /\ row.action = "user_restored"
                      /\ row.performedBy = req[r].tok.sub

StatusStep ==
    \/ KeepsStatuses
    \/ \E r \in Requests, u \in Ids : Registers(r, u) \/ Administers(r, u)

LEMMA PutStatus ==
    ASSUME TableOK, NEW u \in Ids, NEW row, Put(u, row)
    PROVE  \A v \in Ids : users'[v].status = IF v = u THEN row.status ELSE users[v].status
BY DEF TableOK, Put

\* The UPDATEs other than those of remove and restore.
LEMMA UpdateKeepsStatuses ==
    ASSUME Typed, NEW r \in Requests, req[r].uid \in Ids, NEW digest,
           NEW row \in {CountedRow(r), ClearedRow(r), SessionRow(r, digest),
                        RepasswordedRow(r), PatchedRow(r)},
           Put(req[r].uid, row)
    PROVE  KeepsStatuses
<1>1. Current(r) \in Row /\ Current(r) = users[req[r].uid]
  BY DEF Current, Typed, TableOK
<1>2. row.status = Current(r).status
  BY <1>1 DEF CountedRow, ClearedRow, SessionRow, RepasswordedRow, PatchedRow, Row
<1> QED
  BY <1>1, <1>2, PutStatus DEF KeepsStatuses, Typed

LEMMA UsersServiceStatuses ==
    ASSUME Typed, NEW r \in Requests, UsersServiceStep(r)
    PROVE  StatusStep
<1> RequestsOK /\ TableOK
  BY DEF Typed
<1>0. req[r].uid \in Ids
  BY AtBound DEF UsersServiceStep, UpdateFind, UpdateCheck, UpdateWrite,
       UpdateReload, RemoveFind, RemoveWrite, RestoreFind, RestoreCheck,
       RestoreWrite, RestoreReload, Bound
<1>1. CASE UNCHANGED users
  BY <1>1 DEF StatusStep, KeepsStatuses
<1>2. CASE Put(req[r].uid, PatchedRow(r))
  BY <1>0, <1>2, UpdateKeepsStatuses DEF StatusStep
<1>3. ASSUME /\ Log({UserRow(r, "success")})
             /\ \/ RemoveWrite(r)
                \/ RestoreWrite(r) /\ Put(req[r].uid, RestoredRow(r)) /\ Goto(r, "reload")
      PROVE  StatusStep
  <2> DEFINE row == UserRow(r, "success")
             u == req[r].uid
  <2>1. /\ row.by = r /\ row.status = "success" /\ row.userId = u
        /\ row.action = AuditAction(Op(r)) /\ row.performedBy = req[r].tok.sub
        /\ audit' = audit \cup {row}
    BY <1>3 DEF UserRow, EventRow, Log
  <2>2. AuditAction("remove") = "user_deleted" /\ AuditAction("restore") = "user_restored"
    BY DEF AuditAction
  <2>3. Current(r) \in Row
    BY <1>0 DEF Current, TableOK
  <2> HIDE DEF row
  <2>4. CASE RemoveWrite(r)
    <3>1. /\ Op(r) = "remove" /\ req[r].pc = "write" /\ Put(u, RemovedRow(r)) /\ Reply(r, 200)
      BY <2>4 DEF RemoveWrite
    <3>2. RemovedRow(r).status = "deleted"
      BY <2>3 DEF RemovedRow, Row
    <3>3. Turns(r, u, "deleted", row) /\ req'[r].uid = u
      BY <1>0, <2>1, <3>1, <3>2, PutStatus, ReplyFields DEF Turns
    <3> QED
      BY <1>0, <2>1, <2>2, <3>1, <3>3 DEF Administers, StatusStep
  <2>5. CASE RestoreWrite(r) /\ Put(u, RestoredRow(r)) /\ Goto(r, "reload")
    <3>1. Op(r) = "restore" /\ req[r].pc = "write"
      BY <2>5 DEF RestoreWrite
    <3>2. RestoredRow(r).status = "live"
      BY <2>3 DEF RestoredRow, Row
    <3>3. Turns(r, u, "live", row) /\ req'[r].uid = u
      BY <1>0, <2>1, <2>5, <3>2, PutStatus, GotoFields DEF Turns
    <3> QED
      BY <1>0, <2>1, <2>2, <3>1, <3>3 DEF Administers, StatusStep
  <2> QED
    BY <1>3, <2>4, <2>5
<1> QED
  BY <1>1, <1>2, <1>3 DEF UsersServiceStep, UpdateFind, UpdateCheck, UpdateWrite,
     UpdateReload, RemoveFind, RemoveWrite, RestoreFind, RestoreCheck, RestoreWrite,
     RestoreReload

LEMMA AuthServiceStatuses ==
    ASSUME Typed, NEW r \in Requests, AuthServiceStep(r)
    PROVE  StatusStep
<1> RequestsOK /\ TableOK
  BY DEF Typed
<1>1. CASE UNCHANGED users
  BY <1>1 DEF StatusStep, KeepsStatuses
<1>2. CASE LoginCount(r) \/ LoginClear(r) \/ StoreTokens(r) \/ LogoutWrite(r)
           \/ ChangePasswordWrite(r)
  <2>1. req[r].uid \in Ids
    BY <1>2, AtBound DEF LoginCount, LoginClear, StoreTokens, LogoutWrite,
         ChangePasswordWrite, Bound
  <2>2. \/ Put(req[r].uid, CountedRow(r)) \/ Put(req[r].uid, ClearedRow(r))
        \/ Put(req[r].uid, SessionRow(r, Digest(Signed(r))))
        \/ Put(req[r].uid, SessionRow(r, None)) \/ Put(req[r].uid, RepasswordedRow(r))
    BY <1>2 DEF LoginCount, LoginClear, StoreTokens, LogoutWrite, ChangePasswordWrite
  <2> QED
    BY <2>1, <2>2, UpdateKeepsStatuses DEF StatusStep
<1>3. ASSUME NEW u \in Ids, RegisterInsert(r), users[u].status = "absent",
             LET row == FreshRow(req[r].call.email, req[r].call.password)
             IN Created(r, u, row) /\ SignTokens(r, u, row)
      PROVE  StatusStep
  <2> DEFINE row == FreshRow(req[r].call.email, req[r].call.password)
             event == EventRow(r, "user_created", "success", u, u)
  <2>1. Put(u, row) /\ audit' = audit \cup {event} /\ SignTokens(r, u, row)
    BY <1>3 DEF Created, Log
  <2>2. row.status = "live"
    BY DEF FreshRow, AbsentRow
  <2>3. /\ event.by = r /\ event.status = "success" /\ event.userId = u
        /\ event.action = "user_created" /\ event.performedBy = u
    BY DEF EventRow
  <2>4. Op(r) = "register"
    BY <1>3 DEF RegisterInsert, RequestsOK, WellFormed
  <2> HIDE DEF row, event
  <2>5. Turns(r, u, "live", event)
    BY <2>1, <2>2, <2>3, PutStatus, SignTokensFields DEF Turns
  <2> QED
    BY <1>3, <2>3, <2>4, <2>5 DEF Registers, StatusStep
<1>4. CASE RegisterInsert(r)
  BY <1>1, <1>3, <1>4 DEF RegisterInsert
<1> QED
  BY <1>1, <1>2, <1>4 DEF AuthServiceStep, CreateLookup, LoginLookup,
     LoginVerify, RefreshLookup, RefreshVerify, LogoutSelf, ChangePasswordSelf,
     ChangePasswordFind

\* Without a fault.
LEMMA NextStatuses ==
    ASSUME Typed, [Next]_vars, faults' = 0
    PROVE  faults = 0 /\ StatusStep
<1>1. ASSUME NEW r \in Requests, Step(r)
      PROVE  faults = 0 /\ StatusStep
  <2>1. CASE Guard(r)
    BY <1>1, <2>1 DEF Step, Guard, StatusStep, KeepsStatuses
  <2> QED
    BY <1>1, <2>1, UsersServiceStatuses, AuthServiceStatuses DEF Step
<1>2. ~\E r \in Requests : Fault(r)
  BY DEF Fault, Typed, ClockOK
<1> QED
  BY <1>1, <1>2 DEF Next, vars, Arrive, Tick, Quiet, StatusStep, KeepsStatuses

-----------------------------------------------------------------------------
(* An account that is about to be deleted or restored exists. *)

Targets(r) ==
    Op(r) \in {"remove", "restore"} /\ req[r].pc \in {"check", "write"} =>
        users[req[r].uid].status # "absent"

TargetsOK == Present /\ \A r \in Requests : Targets(r)

LEMMA StepTargets ==
    ASSUME Typed, NEW r \in Requests, Knows(r), Step(r), Op(r) \in {"remove", "restore"},
           req'[r].pc \in {"check", "write"}
    PROVE  /\ req[r].pc \in {"check", "write"} \/ users[req[r].uid].status # "absent"
           /\ req'[r].uid = req[r].uid
<1>0. RequestsOK
  BY DEF Typed
<1>1. CASE Guard(r)
  <2>1. req'[r].pc = "done" \/ req'[r].pc = "find"
    BY <1>0, <1>1, ReplyFields, RememberFields DEF Guard, Throw
  <2> QED
    BY <2>1
<1>2. CASE AuthServiceStep(r)
  BY <1>0, <1>2 DEF AuthServiceStep, CreateLookup, RegisterInsert, LoginLookup, LoginVerify,
     LoginCount, LoginClear, RefreshLookup, RefreshVerify, StoreTokens, LogoutSelf,
     LogoutWrite, ChangePasswordSelf, ChangePasswordFind, ChangePasswordWrite,
     Knows, Earned, RequestsOK, WellFormed
<1>3. CASE UsersServiceStep(r)
  <2>1. \/ RemoveFind(r) \/ RemoveWrite(r) \/ RestoreFind(r)
        \/ RestoreCheck(r) \/ RestoreWrite(r) \/ RestoreReload(r)
    BY <1>3 DEF UsersServiceStep, UpdateFind, UpdateCheck, UpdateWrite, UpdateReload
  <2>2. CASE \E status : Throw(r, status) \/ Reply(r, status)
    BY <1>0, <2>2, ReplyFields DEF Throw
  <2>3. CASE FindLive(req[r].uid) /\ Goto(r, "write")
    BY <1>0, <2>3, GotoFields DEF FindLive
  <2>4. CASE Current(r).status = "deleted" /\ Remember(r, "check", req[r].uid, Current(r))
    BY <1>0, <2>4, RememberFields DEF Current
  <2>5. CASE req[r].pc = "check" /\ Goto(r, "write")
    BY <1>0, <2>5, GotoFields
  <2>6. CASE Goto(r, "reload")
    BY <1>0, <2>6, GotoFields
  <2> QED
    BY <2>1, <2>2, <2>3, <2>4, <2>5, <2>6
       DEF RemoveFind, RemoveWrite, RestoreFind, RestoreCheck, RestoreWrite, RestoreReload
<1> QED
  BY <1>1, <1>2, <1>3 DEF Step

\* Faults and arrivals bring nobody to such a step.
LEMMA OtherTargets ==
    ASSUME Typed, Informed, [Next]_vars, NEW r \in Requests, req'[r] # req[r], ~Step(r)
    PROVE  req'[r].pc \notin {"check", "write"}
<1>0. RequestsOK /\ \A q \in Requests : Knows(q)
  BY DEF Typed, Informed
<1>1. ASSUME NEW q \in Requests, Arrive(q)
      PROVE  req'[r].pc \notin {"check", "write"}
  BY <1>0, <1>1, ArriveBegins DEF Begins, Others
<1>2. ASSUME NEW q \in Requests, Step(q)
      PROVE  q = r
  <2>1. Stepped(q)
    BY <1>0, <1>2, GuardGoes, UsersServiceGoes, AuthServiceGoes DEF Step
  <2> QED
    BY <2>1 DEF Stepped, Goes, Carries, Others
<1>3. ASSUME NEW q \in Requests, QueryFails(q)
      PROVE  req'[r].pc \notin {"check", "write"}
  BY <1>0, <1>3, ReplyFields DEF QueryFails, Throw, Others
<1>4. ASSUME NEW q \in Requests, Crash(q)
      PROVE  req'[r].pc \notin {"check", "write"}
  BY <1>0, <1>4, CrashCrashes DEF Crashes
<1> QED
  BY <1>1, <1>2, <1>3, <1>4 DEF Next, vars, Fault, Tick, Quiet

LEMMA TargetsKept ==
    ASSUME Typed, Informed, TargetsOK, [Next]_vars
    PROVE  TargetsOK'
<1>1. \A u \in Ids : users'[u].status = "absent" => users[u].status = "absent"
  BY StepRekeys DEF Rekeys
<1>2. Present'
  BY <1>1 DEF Present, TargetsOK
<1>3. ASSUME NEW r \in Requests, Op(r)' \in {"remove", "restore"},
             req'[r].pc \in {"check", "write"}
      PROVE  users'[req'[r].uid].status # "absent"
  <2>1. req'[r].uid \in Ids
    BY <1>3, NextKept DEF Typed, RequestsOK, WellFormed, Bound
  <2>2. Targets(r) /\ Knows(r)
    BY DEF TargetsOK, Informed
  <2>3. CASE req'[r] = req[r]
    BY <1>1, <1>3, <2>1, <2>2, <2>3 DEF Targets
  <2>4. CASE Step(r)
    <3>1. Stepped(r)
      BY <2>2, <2>4, GuardGoes, UsersServiceGoes, AuthServiceGoes DEF Step
    <3>2. req'[r].call = req[r].call
      BY <3>1 DEF Stepped, Goes, Carries
    <3>3. /\ req[r].pc \in {"check", "write"} \/ users[req[r].uid].status # "absent"
          /\ req'[r].uid = req[r].uid
      BY <1>3, <2>2, <2>4, <3>2, StepTargets
    <3> QED
      BY <1>1, <1>3, <2>1, <2>2, <3>2, <3>3 DEF Targets
  <2> QED
    BY <1>3, <2>3, <2>4, OtherTargets
<1> QED
  BY <1>2, <1>3 DEF TargetsOK, Targets

-----------------------------------------------------------------------------
(* The rows that explain. *)

\* The row stems from a request that did op to u, and names who sent it.
SentBy(row, op, u) ==
    /\ Op(row.by) = op /\ req[row.by].uid = u
    /\ row.performedBy = req[row.by].tok.sub

\* A success row about account u and what it must say for its action.
Explains(row, u, action) ==
    /\ row.userId = u /\ row.status = "success" /\ row.action = action
    /\ action = "user_created" => row.performedBy = u /\ Op(row.by) = "register"
    /\ action = "user_deleted" => SentBy(row, "remove", u)
    /\ action = "user_restored" => SentBy(row, "restore", u)

Told(u, action) == \E row \in audit : Explains(row, u, action)

Explained ==
    faults = 0 =>
    \A u \in Ids :
        /\ users[u].status = "deleted" /\ Seed[u].status # "deleted" => Told(u, "user_deleted")
        /\ users[u].status # "absent" /\ Seed[u].status = "absent" => Told(u, "user_created")
        /\ users[u].status = "live" /\ Seed[u].status = "deleted" => Told(u, "user_restored")

LEMMA ToldStays ==
    ASSUME Typed, Informed, [Next]_vars, NEW u \in Ids, NEW action, Told(u, action)
    PROVE  Told(u, action)'
<1>1. PICK row \in audit : Explains(row, u, action)
  BY DEF Told
<1>2. row \in audit' /\ row.by \in Requests
  BY RowsHanded DEF Typed, AuditOK, AuditRow
<1>3. Op(row.by) = "register" => Op(row.by)' = "register"
  <2>1. CASE \E r \in Requests : Stepped(r)
    BY <1>2, <2>1 DEF Stepped, Goes, Carries, Others
  <2>2. CASE \E r \in Requests : Begins(r)
    BY <1>2, <2>2 DEF Begins, Others, IdleRequest, NoCall
  <2>3. CASE Crashes
    BY <1>2, <2>3 DEF Crashes
  <2>4. CASE Rests
    BY <2>4 DEF Rests
  <2> QED
    BY <2>1, <2>2, <2>3, <2>4, NextCases DEF Informed
<1>4. \A op \in {"remove", "restore"} : SentBy(row, op, u) => SentBy(row, op, u)'
  BY <1>2, NextKept, NoneIsNoValue DEF Entitled, Succeeds, Acted, AdminOps, SentBy
<1> QED
  BY <1>1, <1>2, <1>3, <1>4 DEF Told, Explains

LEMMA ExplainedKept ==
    ASSUME Typed, Informed, TargetsOK, Explained, [Next]_vars
    PROVE  Explained'
<1> SUFFICES ASSUME faults' = 0, NEW u \in Ids
             PROVE  /\ users'[u].status = "deleted" /\ Seed[u].status # "deleted" =>
                          Told(u, "user_deleted")'
                    /\ users'[u].status # "absent" /\ Seed[u].status = "absent" =>
                          Told(u, "user_created")'
                    /\ users'[u].status = "live" /\ Seed[u].status = "deleted" =>
                          Told(u, "user_restored")'
  BY DEF Explained
<1>1. faults = 0 /\ StatusStep
  BY NextStatuses
<1>2. /\ users[u].status = "deleted" /\ Seed[u].status # "deleted" => Told(u, "user_deleted")'
      /\ users[u].status # "absent" /\ Seed[u].status = "absent" => Told(u, "user_created")'
      /\ users[u].status = "live" /\ Seed[u].status = "deleted" => Told(u, "user_restored")'
  BY <1>1, ToldStays DEF Explained
<1>3. CASE KeepsStatuses
  BY <1>2, <1>3 DEF KeepsStatuses
<1>4. ASSUME NEW r \in Requests, NEW v \in Ids, Registers(r, v)
      PROVE  \/ users'[u].status = users[u].status
             \/ users'[u].status = "live" /\ Seed[u].status = "absent" /\ Told(u, "user_created")'
  <2>1. PICK row : /\ Turns(r, v, "live", row)
                   /\ row.action = "user_created" /\ row.performedBy = v
                   /\ Op(r) = "register" /\ users[v].status = "absent"
    BY <1>4 DEF Registers
  <2>2. Seed[v].status = "absent"
    BY <2>1 DEF TargetsOK, Present
  <2>3. row \in audit' /\ Explains(row, v, "user_created")'
    BY <2>1 DEF Turns, Explains
  <2>4. Told(v, "user_created")'
    BY <2>3 DEF Told
  <2> QED
    BY <2>1, <2>2, <2>4 DEF Turns
<1>5. ASSUME NEW r \in Requests, NEW v \in Ids, Administers(r, v)
      PROVE  \/ users'[u].status = users[u].status
             \/ /\ users[u].status # "absent"
                /\ \/ users'[u].status = "deleted" /\ Told(u, "user_deleted")'
                   \/ users'[u].status = "live" /\ Told(u, "user_restored")'
  <2>1. users[v].status # "absent"
    BY <1>5 DEF Administers, TargetsOK, Targets
  <2>3. CASE /\ Op(r) = "remove"
             /\ \E row : /\ Turns(r, v, "deleted", row) /\ row.action = "user_deleted"
                         /\ row.performedBy = req[r].tok.sub
    <3>1. PICK row : /\ Turns(r, v, "deleted", row) /\ row.action = "user_deleted"
                     /\ row.performedBy = req[r].tok.sub
      BY <2>3
    <3>2. SentBy(row, "remove", v)'
      BY <1>5, <2>3, <3>1 DEF Administers, Turns, SentBy
    <3>3. row \in audit' /\ Explains(row, v, "user_deleted")'
      BY <3>1, <3>2 DEF Turns, Explains
    <3> QED
      BY <2>1, <3>1, <3>3 DEF Turns, Told
  <2>4. CASE /\ Op(r) = "restore"
             /\ \E row : /\ Turns(r, v, "live", row) /\ row.action = "user_restored"
                         /\ row.performedBy = req[r].tok.sub
    <3>1. PICK row : /\ Turns(r, v, "live", row) /\ row.action = "user_restored"
                     /\ row.performedBy = req[r].tok.sub
      BY <2>4
    <3>2. SentBy(row, "restore", v)'
      BY <1>5, <2>4, <3>1 DEF Administers, Turns, SentBy
    <3>3. row \in audit' /\ Explains(row, v, "user_restored")'
      BY <3>1, <3>2 DEF Turns, Explains
    <3> QED
      BY <2>1, <3>1, <3>3 DEF Turns, Told
  <2> QED
    BY <1>5, <2>3, <2>4 DEF Administers
<1>6. CASE users'[u].status = users[u].status
  BY <1>2, <1>6
<1>7. CASE users'[u].status = "live" /\ Seed[u].status = "absent" /\ Told(u, "user_created")'
  BY <1>7
<1>8. CASE /\ users[u].status # "absent"
           /\ \/ users'[u].status = "deleted" /\ Told(u, "user_deleted")'
              \/ users'[u].status = "live" /\ Told(u, "user_restored")'
  BY <1>2, <1>8
<1> QED
  BY <1>1, <1>3, <1>4, <1>5, <1>6, <1>7, <1>8 DEF StatusStep

\* The account that such a row names has acted as an administrator.
LEMMA SenderAppointed ==
    ASSUME Typed, Informed, AuthorityTraceable, NEW row \in audit, NEW u \in Ids,
           NEW op \in {"remove", "restore"}, SentBy(row, op, u)
    PROVE  ByAdministrator(row, op, u)
<1>1. row.by \in Requests
  BY DEF Typed, AuditOK, AuditRow
<1>2. Op(row.by) \in AdminOps /\ req[row.by].pc # "idle"
  BY <1>1 DEF SentBy, AdminOps, Informed, Knows, IdleRequest, NoCall
<1>3. req[row.by].tok.sub \in Ids
  BY <1>1, <1>2 DEF Typed, RequestsOK, WellFormed, GuardedOps, Token
<1>4. ActedAsAdmin(row.by)
  BY <1>2, NoneIsNoValue DEF SentBy, ActedAsAdmin
<1>5. Appointed(req[row.by].tok.sub)
  BY <1>1, <1>3, <1>4 DEF AuthorityTraceable
<1> QED
  BY <1>5 DEF SentBy, ByAdministrator

\* While no statement has failed, every account that exists, or is deleted, and
\* was not so at the start has the row that explains it: the handlers of create,
\* remove and restore hand it over in the step of their statement, and no
\* interleaving makes a change without one.  The row of a deletion or restoration
\* names the account whose request it was, which RolesGuard let act because it
\* was an administrator from the start or another account had appointed it.
THEOREM StatusesExplained == Spec => []StatusTrail
<1>1. Init => TargetsOK /\ Explained
  BY DEF Init, TargetsOK, Present, Targets, Explained, IdleRequest
<1>2. Typed /\ Informed /\ TargetsOK /\ Explained /\ [Next]_vars => TargetsOK' /\ Explained'
  BY TargetsKept, ExplainedKept
<1>3. Typed /\ Informed /\ AuthorityTraceable /\ TargetsOK /\ Explained => StatusTrail
  <2> SUFFICES ASSUME Typed, Informed, AuthorityTraceable, TargetsOK, Explained,
                      NEW u \in Ids, faults = 0, users[u].status # Seed[u].status
               PROVE  \E row \in audit :
                         /\ row.userId = u /\ row.status = "success"
                         /\ \/ /\ users[u].status = "deleted" /\ row.action = "user_deleted"
                               /\ ByAdministrator(row, "remove", u)
                            \/ /\ users[u].status = "live" /\ Seed[u].status = "absent"
                               /\ row.action = "user_created"
                               /\ Op(row.by) = "register" /\ row.performedBy = u
                            \/ /\ users[u].status = "live" /\ Seed[u].status = "deleted"
                               /\ row.action = "user_restored"
                               /\ ByAdministrator(row, "restore", u)
    BY DEF StatusTrail
  <2>1. /\ users[u].status \in {"absent", "live", "deleted"}
        /\ Seed[u].status \in {"absent", "live", "deleted"}
        /\ users[u].status = "absent" => Seed[u].status = "absent"
    BY SeedAssumption DEF Typed, TableOK, Row, TargetsOK, Present
  <2>2. CASE users[u].status = "deleted"
    <3>1. PICK row \in audit : Explains(row, u, "user_deleted")
      BY <2>1, <2>2 DEF Explained, Told
    <3>2. ByAdministrator(row, "remove", u)
      BY <3>1, SenderAppointed DEF Explains
    <3> QED
      BY <2>2, <3>1, <3>2 DEF Explains
  <2>3. CASE users[u].status = "live" /\ Seed[u].status = "absent"
    <3>1. PICK row \in audit : Explains(row, u, "user_created")
      BY <2>1, <2>3 DEF Explained, Told
    <3> QED
      BY <2>3, <3>1 DEF Explains
  <2>4. CASE users[u].status = "live" /\ Seed[u].status = "deleted"
    <3>1. PICK row \in audit : Explains(row, u, "user_restored")
      BY <2>1, <2>4 DEF Explained, Told
    <3>2. ByAdministrator(row, "restore", u)
      BY <3>1, SenderAppointed DEF Explains
    <3> QED
      BY <2>4, <3>1, <3>2 DEF Explains
  <2> QED
    BY <2>1, <2>2, <2>3, <2>4
<1> QED
  BY <1>1, <1>2, <1>3, TypedAlways, InformedAlways, AuthorityKept, PTL DEF Spec
=============================================================================
