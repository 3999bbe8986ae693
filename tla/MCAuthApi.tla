------------------------------ MODULE MCAuthApi ------------------------------
(***************************************************************************)
(* Small deployments and workloads for TLC.  Every configuration picks its *)
(* table, its calls and its bounds from here.                              *)
(***************************************************************************)
EXTENDS AuthApiSafety, TLC

CONSTANTS
    root, ann, bob, eve, dan,       \* accounts
    rootMail, annMail, bobMail, \* addresses
    good, fresh                 \* passwords; a wrong one is one that is not
                                \* the account's

Live(email, role) ==
    [AbsentRow EXCEPT !.status = "live", !.email = email, !.password = good,
                      !.role = role]

\* An administrator and a user, both with a session, and an unused id.
SmallSeed ==
    [u \in Ids |-> CASE u = root -> [Live(rootMail, "admin") EXCEPT !.refreshToken = root]
                     [] u = ann -> [Live(annMail, "user") EXCEPT !.refreshToken = ann]
                     [] OTHER -> AbsentRow]

\* The same with a deleted account, whose address has since been taken.
DirectorySeed ==
    [u \in Ids |-> IF u = bob THEN [Live(annMail, "user") EXCEPT !.status = "deleted"]
                              ELSE SmallSeed[u]]

Session(u) == [sub |-> u, iat |-> 0]
NoSessions == {}
AnnSession == {Session(ann)}
BothSessions == {Session(root), Session(ann)}

\* eve and dan are the ids the database may still generate.
RequestSymmetry == Permutations(Requests)
DirectorySymmetry == Permutations(Requests) \cup Permutations({eve, dan})

-----------------------------------------------------------------------------
Login(email, password) ==
    [NoCall EXCEPT !.op = "login", !.email = email, !.password = password]
Register(email) ==
    [NoCall EXCEPT !.op = "register", !.email = email, !.password = good]
Plain(op) == [NoCall EXCEPT !.op = op]
ChangePassword(old, new) ==
    [NoCall EXCEPT !.op = "changePassword", !.password = old, !.newPassword = new]
Profile(email) == [NoCall EXCEPT !.op = "profile", !.email = email]
On(op, u) == [NoCall EXCEPT !.op = op, !.id = u]
SetRole(u, role) == [On("update", u) EXCEPT !.role = role]
SetEmail(u, email) == [On("update", u) EXCEPT !.email = email]
SetActive(u, activity) == [On("update", u) EXCEPT !.isActive = activity]

\* Guesses and good logins on one account.
LockoutCalls == {Login(annMail, good), Login(annMail, fresh)}
Guesses == {Login(annMail, fresh)}

\* The life of a session and of a role.
SerialCalls ==
    {Login(annMail, good), Login(annMail, fresh),
     Plain("refresh"), Plain("logout"), ChangePassword(good, fresh),
     SetRole(ann, "manager"), SetRole(ann, "user"),
     SetActive(ann, "deactivated"), On("remove", ann), On("restore", ann)}
SessionCalls == {Login(annMail, good), Plain("refresh"), Plain("logout")}

\* Everything that takes, moves or gives up an address, and that hands out or
\* takes away authority.
DirectoryCalls ==
    {Register(annMail), Register(bobMail), Profile(bobMail),
     Profile(Null), SetEmail(bob, bobMail), On("remove", ann), On("restore", bob),
     SetRole(ann, "admin"), SetRole(root, "user")}

\* What somebody who knows a password of one account, and somebody who guesses,
\* may ask of it.
AccountCalls ==
    {Login(annMail, good), Login(annMail, fresh), Login(bobMail, good),
     Plain("refresh"), Plain("logout"),
     ChangePassword(good, fresh), ChangePassword(fresh, fresh)}

\* Two administrators moving one account between roles.
RoleCalls == {SetRole(ann, "manager"), SetRole(ann, "user")}
=============================================================================
