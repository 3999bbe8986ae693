---------------------------- MODULE ReaderProofs ----------------------------
(***************************************************************************)
(* What the readers of the audit trail may rely on, for any page size, any *)
(* filters, any calls and any number of faults: a client that reads page   *)
(* after page misses no entry, and the summary of failed logins counts no  *)
(* failure that did not happen and all of those on record.                 *)
(***************************************************************************)
EXTENDS AuditTrailProofs

USE DEF At, Op

-----------------------------------------------------------------------------
(* The table stays finite: finitely many rows are handed over, and an      *)
(* entry stands for one of them.                                           *)

LEMMA AuditFinite == TrailSpec => []IsFiniteSet(audit)
<1>1. TrailInit => IsFiniteSet(audit)
  BY FS_EmptySet DEF TrailInit, Init
<1>2. Typed /\ Informed /\ IsFiniteSet(audit) /\ [TrailNext]_trailVars => IsFiniteSet(audit)'
  BY TrailCases, TrailGrowsFinitely DEF Informed, Spends
<1> QED
  BY <1>1, <1>2, ApiSound, PTL DEF TrailSpec

LEMMA EntriesFinite ==
    ASSUME IsFiniteSet(audit), EntriesOK
    PROVE  IsFiniteSet(entries)
<1> DEFINE rowOf == [entry \in entries |-> entry.row]
<1>1. rowOf \in Injection(entries, audit)
  BY DEF EntriesOK, Injection, IsInjective
<1> HIDE DEF rowOf
<1> QED
  BY <1>1, FS_Injection

\* What the readers find in the table.
Readable == Typed /\ Informed /\ Sound /\ IsFiniteSet(audit) /\ IsFiniteSet(entries)

LEMMA ReadableAlways == TrailSpec => []Readable
<1>1. Typed /\ Informed /\ Sound /\ IsFiniteSet(audit) => Readable
  BY EntriesFinite DEF Sound, Readable
<1> QED
  BY <1>1, ApiSound, SoundAlways, AuditFinite, PTL

LEMMA EntriesStay ==
    ASSUME Readable, [TrailNext]_trailVars
    PROVE  entries \subseteq entries'
BY TrailKept DEF Readable, Evidence!Next, Evidence!Pass, Evidence!Hand, Evidence!Keep

-----------------------------------------------------------------------------
(* Reading page after page. *)

\* One page of S: an entry with a timestamp of its own that the pages so far
\* have not reached is on the page, or the pages have still not reached it.
LEMMA PageReaches ==
    ASSUME NEW S, IsFiniteSet(S), NEW page \in Nat \ {0}, NEW P \in PagesOf(S, page),
           NEW entry \in S \ P, Tied(S, entry) = {entry},
           Cardinality(Newer(S, entry)) >= (page - 1) * PageSize
    PROVE  Cardinality(Newer(S, entry)) >= page * PageSize
<1> DEFINE ahead == Cardinality(Newer(S, entry))
           first == (page - 1) * PageSize
           last == page * PageSize
<1>1. ahead \in Nat
  BY FS_Subset, FS_CardinalityType DEF Newer
<1>2. first \in Nat /\ last \in Nat
  BY TrailAssumption
<1>3. Cardinality({entry}) = 1
  BY FS_Singleton
<1>4. Positions(S, entry) = {ahead + 1}
  BY <1>1, <1>3 DEF Positions
<1>5. Window(page) = first + 1 .. last
  BY DEF Window
<1>6. Tied(P, entry) = {}
  BY DEF PagesOf, Tied
<1>7. Cardinality(Positions(S, entry) \cap Window(page)) = 0
  BY <1>6, FS_EmptySet DEF PagesOf
<1> HIDE DEF ahead, first, last
<1>8. ASSUME ahead < last
      PROVE  FALSE
  <2>1. ahead >= first
    BY DEF ahead, first
  <2>2. ahead + 1 \in first + 1 .. last
    BY <1>1, <1>2, <1>8, <2>1
  <2>3. Positions(S, entry) \cap Window(page) = {ahead + 1}
    BY <1>4, <1>5, <2>2
  <2>4. Cardinality(Positions(S, entry) \cap Window(page)) = 1
    BY <2>3, FS_Singleton, Zenon
  <2> QED
    BY <1>7, <2>4
<1> QED
  BY <1>1, <1>2, <1>8 DEF ahead, last

\* The pages do not reach past the last entry.
LEMMA NobodyBehindTheLast ==
    ASSUME NEW S, IsFiniteSet(S), NEW entry \in S, S \subseteq Entry
    PROVE  Cardinality(Newer(S, entry)) < Cardinality(S)
<1>1. Newer(S, entry) \subseteq S /\ entry \notin Newer(S, entry)
  BY DEF Newer, Entry
<1>2. Newer(S, entry) # S
  BY <1>1
<1>3. /\ Cardinality(Newer(S, entry)) <= Cardinality(S)
      /\ Cardinality(S) # Cardinality(Newer(S, entry))
  BY <1>1, <1>2, FS_Subset
<1>4. Cardinality(Newer(S, entry)) \in Nat /\ Cardinality(S) \in Nat
  BY <1>1, FS_Subset, FS_CardinalityType
<1> QED
  BY <1>3, <1>4

\* The pages read so far have not reached an entry that the client has not seen:
\* as many newer ones are in the table as the pages could show.
Unreached(entry) ==
    LET all == Found(walk.filter)
    IN Tied(all, entry) = {entry} => Cardinality(Newer(all, entry)) >= (walk.page - 1) * PageSize

WalkSound ==
    /\ walk.page \in Nat \ {0}
    /\ walk.pc = "idle" => walk.page = 1
    /\ walk.pc \in {"reading", "read"} => walk.unseen \subseteq Found(walk.filter)
    /\ walk.pc = "reading" => \A entry \in walk.unseen : Unreached(entry)
    /\ WalkMissesNothing

\* Rows that land in the meantime leave it so: they only push entries back.
LEMMA LandingKeepsWalk ==
    ASSUME Readable, Readable', WalkSound, entries \subseteq entries', UNCHANGED walk
    PROVE  WalkSound'
<1> DEFINE all == Found(walk.filter)
<1>1. Found(walk.filter)' = {entry \in entries' : Matches(entry, walk.filter)}
  BY DEF Found, Matches
<1>2. all \subseteq all'
  BY <1>1 DEF Found
<1>3. IsFiniteSet(all')
  BY <1>1, FS_Subset DEF Readable
<1>4. ASSUME NEW entry \in all, Tied(all', entry) = {entry}
      PROVE  /\ Tied(all, entry) = {entry}
             /\ Cardinality(Newer(all, entry)) <= Cardinality(Newer(all', entry))
             /\ Cardinality(Newer(all, entry)) \in Nat
             /\ Cardinality(Newer(all', entry)) \in Nat
  <2>1. Tied(all, entry) = {entry}
    BY <1>2, <1>4 DEF Tied
  <2>2. Newer(all, entry) \subseteq Newer(all', entry) /\ Newer(all', entry) \subseteq all'
    BY <1>2 DEF Newer
  <2>3. IsFiniteSet(Newer(all', entry))
    BY <1>3, <2>2, FS_Subset
  <2> QED
    BY <2>1, <2>2, <2>3, FS_Subset, FS_CardinalityType
<1> HIDE DEF all
<1>5. CASE walk.pc = "reading"
  <2>1. walk.unseen \subseteq all
    BY <1>5 DEF WalkSound, all
  <2>2. ASSUME NEW entry \in walk.unseen, Tied(all', entry) = {entry}
        PROVE  Cardinality(Newer(all', entry)) >= (walk.page - 1) * PageSize
    <3>1. Cardinality(Newer(all, entry)) >= (walk.page - 1) * PageSize
      BY <1>4, <1>5, <2>1, <2>2 DEF WalkSound, Unreached, all
    <3>2. (walk.page - 1) * PageSize \in Int
      BY TrailAssumption DEF WalkSound
    <3> QED
      BY <1>4, <2>1, <2>2, <3>1, <3>2
  <2> QED
    BY <1>2, <1>5, <2>1, <2>2 DEF WalkSound, Unreached, all, WalkMissesNothing, Tied, Newer
<1>6. CASE walk.pc = "read"
  <2>1. walk.unseen \subseteq all
    BY <1>6 DEF WalkSound, all
  <2>2. ASSUME NEW entry \in walk.unseen
        PROVE  Tied(all', entry) # {entry}
    BY <1>4, <1>6, <2>1 DEF WalkSound, WalkMissesNothing, all
  <2> QED
    BY <1>2, <1>6, <2>1, <2>2 DEF WalkSound, all, WalkMissesNothing, Tied
<1> QED
  BY <1>5, <1>6 DEF WalkSound, WalkMissesNothing

\* The next page.
LEMMA ReadPageKeepsWalk ==
    ASSUME Readable, WalkSound, ReadPage
    PROVE  WalkSound'
<1>1. walk \in Walk /\ walk.page \in Nat \ {0} /\ walk.pc \in {"idle", "reading"}
  BY DEF Readable, Sound, WalkSound, ReadPage
<1>2. CASE walk' = [walk EXCEPT !.pc = "refused"]
  <2>1. walk'.pc = "refused" /\ walk'.page = walk.page
    BY <1>1, <1>2 DEF Walk
  <2> QED
    BY <1>1, <2>1 DEF WalkSound, WalkMissesNothing
<1>3. ASSUME NEW f \in IF walk.pc = "idle" THEN Filters ELSE {walk.filter},
             NEW P \in PagesOf(Found(f), walk.page),
             walk' = [pc |-> IF walk.page * PageSize >= Cardinality(Found(f))
                             THEN "read" ELSE "reading",
                      filter |-> f,
                      page |-> walk.page + 1,
                      unseen |-> (IF walk.pc = "idle" THEN Found(f) ELSE walk.unseen) \ P]
      PROVE  WalkSound'
  <2> DEFINE all == Found(f)
             seen == IF walk.pc = "idle" THEN all ELSE walk.unseen
  <2>1. /\ walk'.pc = IF walk.page * PageSize >= Cardinality(all) THEN "read" ELSE "reading"
        /\ walk'.filter = f /\ walk'.page = walk.page + 1 /\ walk'.unseen = seen \ P
    BY <1>3
  <2>2. all \subseteq Entry /\ IsFiniteSet(all)
    BY FS_Subset DEF Found, Readable, Sound, EntriesOK
  <2>3. seen \subseteq all
    BY <1>1 DEF WalkSound
  <2>4. Found(walk.filter)' = all
    <3>1. entries' = entries
      BY DEF ReadPage
    <3> QED
      BY <2>1, <3>1 DEF Found, Matches
  <2>5. walk.page * PageSize \in Nat /\ (walk.page + 1) - 1 = walk.page
    BY <1>1, TrailAssumption
  <2>6. ASSUME NEW entry \in seen \ P, Tied(all, entry) = {entry}
        PROVE  /\ Cardinality(Newer(all, entry)) >= walk.page * PageSize
               /\ walk'.pc = "reading"
    <3>1. Cardinality(Newer(all, entry)) \in Nat /\ Cardinality(all) \in Nat
      BY <2>2, FS_Subset, FS_CardinalityType DEF Newer
    <3>2. Cardinality(Newer(all, entry)) >= (walk.page - 1) * PageSize
      <4>1. CASE walk.pc = "idle"
        <5>1. walk.page - 1 = 0
          BY <4>1 DEF WalkSound
        <5>2. (walk.page - 1) * PageSize = 0
          BY <5>1, TrailAssumption
        <5> QED
          BY <3>1, <5>2
      <4>2. CASE walk.pc = "reading"
        BY <2>6, <4>2 DEF WalkSound, Unreached
      <4> QED
        BY <1>1, <4>1, <4>2
    <3>3. Cardinality(Newer(all, entry)) >= walk.page * PageSize
      BY <1>1, <2>2, <2>3, <2>6, <3>2, PageReaches
    <3>4. Cardinality(Newer(all, entry)) < Cardinality(all)
      BY <2>2, <2>3, NobodyBehindTheLast
    <3> QED
      BY <2>1, <2>5, <3>1, <3>3, <3>4
  <2> HIDE DEF all, seen
  <2>7. ASSUME NEW entry \in walk'.unseen, Tied(all, entry) = {entry}
        PROVE  /\ Cardinality(Newer(all, entry)) >= (walk'.page - 1) * PageSize
               /\ walk'.pc = "reading"
    BY <2>1, <2>5, <2>6, <2>7
  <2>8. walk'.unseen \subseteq all
    BY <2>1, <2>3
  <2>9. walk'.page \in Nat \ {0} /\ walk'.pc \in {"read", "reading"}
    BY <1>1, <2>1
  <2> QED
    BY <2>4, <2>7, <2>8, <2>9 DEF WalkSound, Unreached, WalkMissesNothing, Tied, Newer
<1> QED
  BY <1>2, <1>3 DEF ReadPage

LEMMA WalkKept ==
    ASSUME Readable, Readable', WalkSound, [TrailNext]_trailVars
    PROVE  WalkSound'
<1>1. CASE ReadPage
  BY <1>1, ReadPageKeepsWalk
<1>2. CASE UNCHANGED walk
  BY <1>2, EntriesStay, LandingKeepsWalk
<1> QED
  BY <1>1, <1>2 DEF TrailNext, trailVars, ApiStep, IdleCrash, Insert, InsertFails

\* A client that has read all the pages the totals asked for has seen every entry
\* that its query matched at the start, however many rows landed in the meantime
\* and in whatever order, but for those that share a timestamp.
THEOREM NothingMissed == TrailSpec => []WalkMissesNothing
<1>1. TrailInit => WalkSound
  BY DEF TrailInit, IdleWalk, WalkSound, WalkMissesNothing
<1>2. Readable /\ Readable' /\ WalkSound /\ [TrailNext]_trailVars => WalkSound'
  BY WalkKept
<1>3. WalkSound => WalkMissesNothing
  BY DEF WalkSound
<1> QED
  BY <1>1, <1>2, <1>3, ReadableAlways, PTL DEF TrailSpec

-----------------------------------------------------------------------------
(* The summary of failed logins. *)

\* A login that was refused has its row, and no other login has one.
LoginTold ==
    /\ \A r \in Requests :
          LoginFailure(r) \in audit <=> Op(r) = "login" /\ req[r].reply \in {401, 403}
    /\ \A row \in audit :
          row.action = "login" /\ row.status = "failure" => row = LoginFailure(row.by)

LEMMA LoginToldKept ==
    ASSUME Typed, Informed, LoginTold, [Next]_vars
    PROVE  LoginTold'
<1> DEFINE Refused(r) == Op(r) = "login" /\ req[r].reply \in {401, 403}
<1>1. \A r \in Requests : /\ LoginFailure(r).by = r /\ LoginFailure(r).action = "login"
                          /\ LoginFailure(r).status = "failure"
  BY DEF LoginFailure, EventRow
<1>2. ASSUME NEW r \in Requests, InFlight(r), Stepped(r), ReportCase(r)
      PROVE  LoginTold'
  <2>1. PICK rows : /\ Log(rows)
                    /\ \A row \in rows : row.by = r
                    /\ \/ /\ ~RefusesLogin(r)
                          /\ \A row \in rows : row.action = "login" => row.status = "success"
                       \/ RefusesLogin(r) /\ rows = {LoginFailure(r)}
                       \/ UpdateReload(r) /\ rows = {UpdatedRow(r)}
    BY <1>2 DEF ReportCase
  <2>2. /\ \A q \in Requests \ {r} : req'[q] = req[q]
        /\ req'[r].call = req[r].call /\ req[r].reply = 0
    BY <1>2 DEF Stepped, Goes, Carries, Others, Informed, Knows
  <2>3. UpdateReload(r) => ~RefusesLogin(r) /\ UpdatedRow(r).action # "login"
    <3> SUFFICES ASSUME UpdateReload(r)
                 PROVE  ~RefusesLogin(r) /\ UpdatedRow(r).action # "login"
      OBVIOUS
    <3>1. Op(r) \in {"profile", "update"}
      BY DEF UpdateReload
    <3>2. UpdatedRow(r).action \in {"role_changed", AuditAction(Op(r))}
      BY DEF UpdatedRow, UserRow, EventRow
    <3> QED
      BY <3>1, <3>2, ActionNames DEF RefusesLogin
  <2>4. \A row \in rows : row.action = "login" /\ row.status = "failure" =>
           RefusesLogin(r) /\ row = LoginFailure(r)
    BY <2>1, <2>3
  <2>5. RefusesLogin(r) => LoginFailure(r) \in rows
    BY <2>1, <2>3
  <2>6. audit' = audit \cup rows
    BY <2>1 DEF Log
  <2>7. ASSUME NEW q \in Requests
        PROVE  LoginFailure(q) \in audit' <=> Refused(q)'
    <3>1. CASE q = r
      <4>1. ~Refused(r) /\ LoginFailure(r) \notin audit
        BY <2>2 DEF LoginTold
      <4>2. Refused(r)' <=> RefusesLogin(r)
        BY <2>2 DEF RefusesLogin
      <4> QED
        BY <1>1, <2>4, <2>5, <2>6, <3>1, <4>1, <4>2
    <3>2. CASE q # r
      <4>1. LoginFailure(q) \notin rows
        BY <1>1, <2>1, <3>2
      <4>2. Refused(q)' <=> Refused(q)
        BY <2>2, <3>2
      <4> QED
        BY <2>6, <4>1, <4>2 DEF LoginTold
    <3> QED
      BY <3>1, <3>2
  <2>8. \A row \in audit' :
           row.action = "login" /\ row.status = "failure" => row = LoginFailure(row.by)
    BY <1>1, <2>4, <2>6 DEF LoginTold
  <2> QED
    BY <2>7, <2>8 DEF LoginTold, LoginFailure, EventRow
<1>3. CASE /\ UNCHANGED audit
           /\ \A q \in Requests : /\ req'[q].reply = req[q].reply
                                  /\ req[q].pc = "idle" \/ req'[q].call = req[q].call
  <2>1. ASSUME NEW q \in Requests
        PROVE  Refused(q)' <=> Refused(q)
    <3>1. CASE req[q].pc = "idle"
      <4>1. req[q].reply = 0
        BY <3>1 DEF Informed, Knows, IdleRequest
      <4> QED
        BY <1>3, <4>1
    <3> QED
      BY <1>3, <3>1
  <2> QED
    BY <1>3, <2>1 DEF LoginTold, LoginFailure, EventRow
<1> QED
  BY <1>2, <1>3, ReportCases DEF Informed

LEMMA LoginToldAlways == TrailSpec => []LoginTold
<1>1. TrailInit => LoginTold
  BY DEF TrailInit, Init, LoginTold, IdleRequest, NoCall
<1>2. Spends /\ LoginTold => LoginTold'
  BY DEF Spends, LoginTold, LoginFailure, EventRow
<1>3. Typed /\ Informed /\ LoginTold /\ [TrailNext]_trailVars => LoginTold'
  BY <1>2, TrailCases, LoginToldKept
<1> QED
  BY <1>1, <1>3, ApiSound, PTL DEF TrailSpec

\* The summary counts, for each address, no more failures than logins for it have
\* been refused, whatever failed or crashed; and when every row is on record and
\* within the window, it counts each of them, once.
THEOREM SummaryCounts == TrailSpec => []SummaryExact
<1>1. ASSUME Readable, LoginTold
      PROVE  SummaryExact
  <2> SUFFICES ASSUME NEW address \in Emails
               PROVE  LET counted == Cardinality(FailedLogins(address))
                          refused == Cardinality(RefusedLogins(address))
                      IN /\ counted <= refused
                         /\ /\ \A row \in audit : \E entry \in entries : entry.row = row
                            /\ \A entry \in entries : entry.timestamp + Hours > now
                            => counted = refused
    BY DEF SummaryExact
  <2> DEFINE F == FailedLogins(address)
             R == RefusedLogins(address)
             loginOf == [entry \in F |-> entry.row.by]
  <2>1. IsFiniteSet(R)
    BY BoundsAssumption, FS_Subset DEF RefusedLogins
  <2>2. ASSUME NEW entry \in F
        PROVE  entry \in entries /\ entry.row.by \in R /\ entry.row = LoginFailure(entry.row.by)
    <3>1. /\ entry \in entries /\ entry.row \in audit
          /\ entry.row.action = "login" /\ entry.row.status = "failure"
          /\ req[entry.row.by].call.email = address
      BY <1>1 DEF FailedLogins, Readable, Sound, EntriesOK
    <3>2. entry.row.by \in Requests
      BY <1>1, <3>1 DEF Readable, Typed, AuditOK, AuditRow
    <3>3. entry.row = LoginFailure(entry.row.by)
      BY <1>1, <3>1 DEF LoginTold
    <3> QED
      BY <1>1, <3>1, <3>2, <3>3 DEF LoginTold, RefusedLogins
  <2>3. loginOf \in Injection(F, R)
    <3>1. ASSUME NEW e \in F, NEW f \in F, e.row.by = f.row.by
          PROVE  e = f
      <4>1. e.row = f.row
        BY <2>2, <3>1
      <4> QED
        BY <1>1, <2>2, <4>1 DEF Readable, Sound, EntriesOK
    <3> QED
      BY <2>2, <3>1 DEF Injection, IsInjective
  <2>4. ASSUME \A row \in audit : \E entry \in entries : entry.row = row,
               \A entry \in entries : entry.timestamp + Hours > now
        PROVE  loginOf \in Surjection(F, R)
    <3>1. ASSUME NEW r \in R
          PROVE  \E entry \in F : entry.row.by = r
      <4>1. LoginFailure(r) \in audit /\ req[r].call.email = address
        BY <1>1, <3>1 DEF RefusedLogins, LoginTold
      <4>2. PICK entry \in entries : entry.row = LoginFailure(r)
        BY <2>4, <4>1
      <4>3. entry.row.by = r /\ entry.row.action = "login" /\ entry.row.status = "failure"
        BY <4>2 DEF LoginFailure, EventRow
      <4> QED
        BY <2>4, <4>1, <4>3 DEF FailedLogins
    <3>2. loginOf \in [F -> R]
      BY <2>2
    <3> QED
      BY <3>1, <3>2 DEF Surjection
  <2> HIDE DEF F, R, loginOf
  <2>5. Cardinality(F) <= Cardinality(R)
    BY <2>1, <2>3, FS_Injection
  <2>6. loginOf \in Surjection(F, R) => Cardinality(F) = Cardinality(R)
    BY <2>1, <2>3, FS_Injection
  <2> QED
    BY <2>4, <2>5, <2>6 DEF F, R
<1> QED
  BY <1>1, ReadableAlways, LoginToldAlways, PTL
=============================================================================
