------------------------------ MODULE UserStore ------------------------------
(***************************************************************************)
(* The users table: one row per account, kept in PostgreSQL behind the     *)
(* TypeORM repository of the User entity.  It is the only state that the   *)
(* concurrent requests of the API share, and every statement is atomic.    *)
(***************************************************************************)
EXTENDS Naturals

CONSTANTS
    Ids,        \* account ids the database may generate
    Emails,     \* addresses, already lowercased and trimmed by the DTOs
    Passwords,  \* classes of passwords that bcrypt tells apart
    None        \* SQL NULL, undefined, a column that is not given

VARIABLE users  \* users[u] is the row with id u

Roles == {"user", "manager", "admin"}
Activity == {"active", "deactivated"}   \* isActive = true, false

\* lockedUntil = 0 is the NULL column: the clock of the model starts at 0 and
\* a lock always ends later.
\* refreshToken holds what bcrypt keeps of a stored token (see Digest).
Row == [status : {"absent", "live", "deleted"},
        email : Emails \cup {None},
        password : Passwords \cup {None},
        role : Roles,
        isActive : Activity,
        refreshToken : Ids \cup {None},
        failedLoginAttempts : Nat,
        lockedUntil : Nat]

ASSUME NoneIsNoValue ==
    None \notin Ids \cup Emails \cup Passwords \cup Roles \cup Activity

\* No row has this id yet.
AbsentRow == [status |-> "absent", email |-> None, password |-> None,
              role |-> "user", isActive |-> "active", refreshToken |-> None,
              failedLoginAttempts |-> 0, lockedUntil |-> 0]

\* MUTANT of FreshRow: the isActive column has lost its default.
FreshRowNoDefault(email, password) ==
    [AbsentRow EXCEPT !.status = "live", !.email = email, !.password = password,
                      !.isActive = None]

\* The row an INSERT of a new account makes: the columns a caller does not
\* give have their defaults.
FreshRow(email, password) ==
    [AbsentRow EXCEPT !.status = "live", !.email = email, !.password = password]

-----------------------------------------------------------------------------
\* SELECT hides soft-deleted rows unless it is told not to.
FindLive(u) == users[u].status = "live"

\* SELECT ... WHERE email = e: the live accounts on an address.
HoldersOf(e) == {u \in Ids : FindLive(u) /\ users[u].email = e}

\* MUTANT of Collides: the index does not see a row that was soft-deleted.
CollidesUnlessDeleted(u, row) ==
    row.status = "live" /\ users[u].status # "deleted" /\ HoldersOf(row.email) \ {u} # {}

\* MUTANT of Collides: only the INSERT of a new account is checked.
CollidesOnInsert(u, row) ==
    row.status = "live" /\ users[u].status = "absent" /\ HoldersOf(row.email) # {}

\* UQ_users_email_active: writing this row would leave two live accounts on
\* one address, so the database refuses the statement.
Collides(u, row) ==
    row.status = "live" /\ HoldersOf(row.email) \ {u} # {}

\* UPDATE and INSERT reach a row by its id, soft-deleted or not.
Put(u, row) == users' = [users EXCEPT ![u] = row]
=============================================================================
