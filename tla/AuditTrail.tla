----------------------------- MODULE AuditTrail -----------------------------
(***************************************************************************)
(* The audit_logs table behind AuditService, next to the whole API.  The   *)
(* rows the handlers hand to persist are saved on their own time, nobody   *)
(* waits for them and a failure is swallowed; administrators page through  *)
(* the table and read the summary of failed logins while rows land in it.  *)
(***************************************************************************)
EXTENDS AuthApi

CONSTANTS
    PageSize,   \* limit of GET /audit/logs
    Filters,    \* where clauses an auditor may ask for
    Auditor,    \* the token pair the auditor's client holds
    Hours       \* window of GET /audit/failed-logins

VARIABLES
    pending,    \* rows whose save() has not settled, with the time of the call
    entries,    \* audit_logs
    walk        \* a client reading page after page of the trail

trailVars == <<vars, pending, entries, walk>>

\* The timestamp is the column default: now() in the database when the
\* transaction of the INSERT begins.
Entry == [row : AuditRow, timestamp : Nat]
Save == [row : AuditRow, since : Nat]

\* QueryAuditLogsDto without userEmail; None is a parameter that is not given.
Filter == [action : AuditActions \cup {None},
           status : {"success", "failure"} \cup {None},
           userId : Ids \cup {None},
           performedBy : Ids \cup {None},
           from : Nat \cup {None},
           to : Nat \cup {None}]

ASSUME TrailAssumption ==
    /\ PageSize \in 1 .. 200
    /\ Hours \in 1 .. 168
    /\ Filters \subseteq Filter
    /\ Auditor \in Token

-----------------------------------------------------------------------------
(* Reading *)

\* findLogs: the where clause.  Both bounds are inclusive.
Matches(entry, f) ==
    /\ f.action \in {None, entry.row.action}
    /\ f.status \in {None, entry.row.status}
    /\ f.userId \in {None, entry.row.userId}
    /\ f.performedBy \in {None, entry.row.performedBy}
    /\ f.from # None => entry.timestamp >= f.from
    /\ f.to # None => entry.timestamp <= f.to

Found(f) == {entry \in entries : Matches(entry, f)}

Newer(S, entry) == {e \in S : e.timestamp > entry.timestamp}
Tied(S, entry) == {e \in S : e.timestamp = entry.timestamp}

\* ORDER BY timestamp DESC says nothing of entries with one timestamp: they
\* share a range of positions, in an order that may differ from query to query.
Positions(S, entry) ==
    Cardinality(Newer(S, entry)) + 1
        .. Cardinality(Newer(S, entry)) + Cardinality(Tied(S, entry))

\* MUTANT of Window: the offset does not allow for the pages' numbering from 1.
WindowLate(page) == page * PageSize + 1 .. (page + 1) * PageSize

\* OFFSET (page - 1) * limit LIMIT limit
Window(page) == (page - 1) * PageSize + 1 .. page * PageSize

\* What a query for this page of S may answer.
PagesOf(S, page) ==
    {P \in SUBSET S :
        \A entry \in S : Cardinality(Tied(P, entry))
                            = Cardinality(Positions(S, entry) \cap Window(page))}

\* RolesGuard in front of AuditController: the client's account is live, active
\* and an administrator now, and its access token has not expired.
MayRead ==
    /\ now < Auditor.iat + AccessTtl
    /\ FindLive(Auditor.sub)
    /\ users[Auditor.sub].isActive = "active"
    /\ users[Auditor.sub].role = "admin"

\* MUTANT of FailedLogins: failures of other actions are counted as well.
FailedLoginsAnyAction(address) ==
    {entry \in entries :
        /\ entry.row.status = "failure"
        /\ entry.timestamp + Hours > now
        /\ req[entry.row.by].call.email = address}

\* getFailedLoginAttempts: the entries counted for an address.
FailedLogins(address) ==
    {entry \in entries :
        /\ entry.row.action = "login" /\ entry.row.status = "failure"
        /\ entry.timestamp + Hours > now
        /\ req[entry.row.by].call.email = address}

-----------------------------------------------------------------------------
(* Writing *)

\* save() has begun for the rows handed to persist in this step.
SavesBegin ==
    pending' = pending \cup {[row |-> row, since |-> now] : row \in audit' \ audit}

\* MUTANT of Inserted: the timestamp column has lost its default.
InsertedUnstamped(p, t) == [row |-> p.row, timestamp |-> None]

\* The row an INSERT makes: the transaction began at t.
Inserted(p, t) == [row |-> p.row, timestamp |-> t]

\* The INSERT is committed.  Its transaction began somewhere between the call
\* of save() and now.
Insert(p) ==
    /\ pending' = pending \ {p}
    /\ \E t \in p.since .. now : entries' = entries \cup {Inserted(p, t)}
    /\ UNCHANGED <<vars, walk>>

\* MUTANT of InsertFails: a save that was rejected is tried again.
InsertFailsRetried(p) ==
    /\ faults < MaxFaults
    /\ faults' = faults + 1
    /\ UNCHANGED pending
    /\ \/ UNCHANGED entries
       \/ \E t \in p.since .. now : entries' = entries \cup {Inserted(p, t)}
    /\ UNCHANGED <<users, now, tokens, req, audit, walk>>

\* save() rejects: logged and swallowed, never tried again, although the INSERT
\* may have been committed before its answer was lost.
InsertFails(p) ==
    /\ faults < MaxFaults
    /\ faults' = faults + 1
    /\ pending' = pending \ {p}
    /\ \/ UNCHANGED entries
       \/ \E t \in p.since .. now : entries' = entries \cup {Inserted(p, t)}
    /\ UNCHANGED <<users, now, tokens, req, audit, walk>>

\* The process dies: of the saves in progress some have been committed.
SavesDie ==
    /\ pending' = {}
    /\ \E landed \in SUBSET pending :
          entries' = entries \cup {Inserted(p, now) : p \in landed}

-----------------------------------------------------------------------------
(* A client that reads page after page of one query until it has as many   *)
(* pages as the last answer's total asks for.                              *)
NoFilter == [action |-> None, status |-> None, userId |-> None,
             performedBy |-> None, from |-> None, to |-> None]

Walk == [pc : {"idle", "reading", "read", "refused"},
         filter : Filters \cup {NoFilter},
         page : Nat,                    \* the next page
         unseen : SUBSET Entry]         \* what the query matched at the start
                                        \* and no page has shown yet

IdleWalk == [pc |-> "idle", filter |-> NoFilter, page |-> 1, unseen |-> {}]

\* findLogs for the next page.  findAndCount is a SELECT and then a COUNT, taken
\* here as one: rows are only added, so that a COUNT which runs later can only
\* ask the client for more pages.
ReadPage ==
    /\ walk.pc \in {"idle", "reading"}
    /\ \/ ~MayRead /\ walk' = [walk EXCEPT !.pc = "refused"]
       \/ /\ MayRead
          /\ \E f \in IF walk.pc = "idle" THEN Filters ELSE {walk.filter} :
             LET all == Found(f)
             IN \E P \in PagesOf(all, walk.page) :
                   walk' = [pc |-> IF walk.page * PageSize >= Cardinality(all)
                                   THEN "read" ELSE "reading",
                            filter |-> f,
                            page |-> walk.page + 1,
                            unseen |-> (IF walk.pc = "idle" THEN all ELSE walk.unseen)
                                          \ P]
    /\ UNCHANGED <<vars, pending, entries>>

-----------------------------------------------------------------------------
TrailInit ==
    /\ Init
    /\ pending = {}
    /\ entries = {}
    /\ walk = IdleWalk

\* A step of the API in which the process dies.
Dies == \E r \in Requests : req[r].pc # "lost" /\ req'[r].pc = "lost"

ApiStep ==
    /\ Next
    /\ \/ ~Dies /\ SavesBegin /\ UNCHANGED entries
       \/ Dies /\ SavesDie
    /\ UNCHANGED walk

\* It may also die when it serves no request.
IdleCrash ==
    /\ \A r \in Requests : ~InFlight(r)
    /\ faults < MaxFaults
    /\ faults' = faults + 1
    /\ SavesDie
    /\ UNCHANGED <<users, now, tokens, req, audit, walk>>

TrailNext ==
    \/ ApiStep
    \/ IdleCrash
    \/ \E p \in pending : Insert(p) \/ InsertFails(p)
    \/ ReadPage

TrailSpec == TrailInit /\ [][TrailNext]_trailVars
=============================================================================
