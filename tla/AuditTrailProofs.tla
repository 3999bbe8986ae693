-------------------------- MODULE AuditTrailProofs --------------------------
(***************************************************************************)
(* The audit trail keeps what EvidenceLog promises, for any accounts,      *)
(* requests, filters and number of faults.                                 *)
(***************************************************************************)
EXTENDS AuditTrailSafety, RequestProofs

-----------------------------------------------------------------------------
(* What a step of the API does to the clock, and what a crash does. *)

LEMMA TimePasses ==
    ASSUME [Next]_vars
    PROVE  now' = now \/ (now' = now + 1 /\ audit' = audit /\ req' = req)
BY DEF Next, vars, Arrive, Step, Guard, UsersServiceStep, AuthServiceStep, Fault,
       QueryFails, Crash, Tick, Quiet

\* Only a crash loses a request, and it hands nothing over.
LEMMA DyingIsCrashing ==
    ASSUME Typed, Informed, [Next]_vars, Dies
    PROVE  UNCHANGED <<now, audit>>
<1>1. PICK q \in Requests : req[q].pc # "lost" /\ req'[q].pc = "lost"
  BY DEF Dies
<1>2. CASE \E r \in Requests : Stepped(r)
  BY <1>1, <1>2 DEF Stepped, Goes, Carries, Others, Steps
<1>3. CASE \E r \in Requests : Begins(r)
  BY <1>1, <1>3 DEF Begins, Others
<1>4. CASE Crashes
  BY <1>4 DEF Crashes
<1>5. CASE Rests
  BY <1>1, <1>5 DEF Rests
<1> QED
  BY <1>2, <1>3, <1>4, <1>5, NextCases DEF Informed

-----------------------------------------------------------------------------
(* The API keeps its invariant next to the trail: beyond the steps of the  *)
(* API, the trail only spends faults.                                      *)

Spends ==
    /\ UNCHANGED <<users, now, tokens, req, audit>>
    /\ faults' = faults \/ faults' = faults + 1

LEMMA TrailCases ==
    ASSUME [TrailNext]_trailVars
    PROVE  [Next]_vars \/ Spends
BY DEF TrailNext, trailVars, ApiStep, IdleCrash, Insert, InsertFails, ReadPage, Spends, vars

LEMMA SpendsKept ==
    ASSUME Typed, Informed, Spends
    PROVE  Typed' /\ Informed'
<1>1. faults \in Nat /\ faults' \in Nat /\ faults <= faults' /\ now \in Nat /\ now' = now
  BY DEF Typed, ClockOK, Spends
<1>2. Typed'
  BY <1>1 DEF Spends, Typed, ClockOK, RequestsOK, WellFormed, TableOK, AuditOK
<1>3. \A q \in Requests : Succeeded(q)' <=> Succeeded(q)
  BY Unlogged DEF Spends
<1>4. ASSUME NEW q \in Requests
      PROVE  Knows(q)' /\ Honest(q)'
  BY <1>1, <1>3, OthersInformed DEF Spends, Informed
<1> QED
  BY <1>2, <1>4 DEF Informed

LEMMA ApiSound == TrailSpec => [](Typed /\ Informed)
<1>1. TrailInit => Typed /\ Informed
  <2> SUFFICES ASSUME TrailInit
               PROVE  Typed /\ Informed
    OBVIOUS
  <2>1. Typed /\ Init
    BY InitTyped DEF TrailInit
  <2>2. ASSUME NEW r \in Requests
        PROVE  Knows(r) /\ Honest(r)
    BY <2>1, InitInformed
  <2> QED
    BY <2>1, <2>2 DEF Informed
<1>2. Typed /\ Informed /\ [TrailNext]_trailVars => Typed' /\ Informed'
  BY TrailCases, SpendsKept, NextKept, InformedKept
<1> QED
  BY <1>1, <1>2, PTL DEF TrailSpec

-----------------------------------------------------------------------------
(* The saves and the table. *)

\* A save in progress stands for a row that has been handed over and that is
\* neither on record nor in another save; every entry stands for such a row, and
\* no other entry does.
SavesOK ==
    /\ pending \subseteq Save
    /\ \A p \in pending : /\ p.row \in audit /\ p.since <= now
                          /\ \A entry \in entries : entry.row # p.row
    /\ \A p, q \in pending : p.row = q.row => p = q
EntriesOK ==
    /\ entries \subseteq Entry
    /\ \A entry \in entries : entry.row \in audit
    /\ \A e, f \in entries : e.row = f.row => e = f
Sound == SavesOK /\ EntriesOK /\ walk \in Walk

\* The part of the invariant that outlives a step which lets saves go and puts
\* some of them on record.
LEMMA SavesSettle ==
    ASSUME Sound, AuditOK, now \in Nat, UNCHANGED <<now, audit>>,
           NEW landed \in SUBSET pending, pending' \subseteq pending \ landed,
           NEW at, \A p \in landed : at[p] \in Nat /\ at[p] <= now,
           entries' = entries \cup {Inserted(p, at[p]) : p \in landed}
    PROVE  SavesOK' /\ EntriesOK' /\ Evidence!Keep
<1>1. \A p \in landed : /\ Inserted(p, at[p]).row = p.row
                        /\ Inserted(p, at[p]).timestamp = at[p]
                        /\ Inserted(p, at[p]) \in Entry
  BY DEF Inserted, Sound, SavesOK, Save, Entry
<1>2. \A entry \in entries' :
         \/ entry \in entries
         \/ \E p \in landed : entry = Inserted(p, at[p])
  OBVIOUS
<1>3. SavesOK'
  BY <1>1, <1>2 DEF Sound, SavesOK
<1>4. ASSUME NEW entry \in entries' \ entries
      PROVE  /\ entry.row \in audit
             /\ \A e \in entries : e.row # entry.row
             /\ entry.timestamp <= now
  <2>1. PICK p \in landed : entry = Inserted(p, at[p])
    BY <1>2, <1>4
  <2> QED
    BY <1>1, <2>1 DEF Sound, SavesOK
<1>5. ASSUME NEW e \in entries' \ entries, NEW f \in entries' \ entries, e.row = f.row
      PROVE  e = f
  <2>1. PICK p \in landed : e = Inserted(p, at[p])
    BY <1>2, <1>5
  <2>2. PICK q \in landed : f = Inserted(q, at[q])
    BY <1>2, <1>5
  <2>3. p.row = q.row
    BY <1>1, <1>5, <2>1, <2>2
  <2>4. p = q
    BY <2>3 DEF Sound, SavesOK
  <2> QED
    BY <2>1, <2>2, <2>4
<1>6. EntriesOK'
  <2>1. \A e, f \in entries' : e.row = f.row => e = f
    BY <1>4, <1>5 DEF Sound, EntriesOK
  <2> QED
    BY <1>1, <1>2, <2>1 DEF Sound, SavesOK, EntriesOK
<1>7. Evidence!EventsOn(entries' \ entries) \subseteq audit \ Evidence!EventsOn(entries)
  BY <1>4 DEF Evidence!EventsOn
<1>8. entries \subseteq entries'
  OBVIOUS
<1> QED
  BY <1>3, <1>4, <1>5, <1>6, <1>7, <1>8 DEF Evidence!Keep

\* One save settles: on record or not.
LEMMA SaveSettles ==
    ASSUME Sound, AuditOK, now \in Nat, UNCHANGED <<now, audit>>,
           NEW p \in pending, pending' = pending \ {p},
           \/ entries' = entries
           \/ \E t \in p.since .. now : entries' = entries \cup {Inserted(p, t)}
    PROVE  SavesOK' /\ EntriesOK' /\ Evidence!Keep
<1>1. CASE entries' = entries
  <2>1. SavesOK' /\ EntriesOK'
    BY <1>1 DEF Sound, SavesOK, EntriesOK
  <2> QED
    BY <1>1, <2>1 DEF Evidence!Keep, Evidence!EventsOn
<1>2. CASE \E t \in p.since .. now : entries' = entries \cup {Inserted(p, t)}
  <2>1. PICK t \in p.since .. now : entries' = entries \cup {Inserted(p, t)}
    BY <1>2
  <2>2. p.since \in Nat
    BY DEF Sound, SavesOK, Save
  <2>3. t \in Nat /\ t <= now
    BY <2>1, <2>2
  <2> DEFINE at == [q \in {p} |-> t]
  <2>4. entries' = entries \cup {Inserted(q, at[q]) : q \in {p}}
    BY <2>1
  <2>5. \A q \in {p} : at[q] \in Nat /\ at[q] <= now
    BY <2>3
  <2>6. {p} \in SUBSET pending /\ pending' \subseteq pending \ {p}
    OBVIOUS
  <2> HIDE DEF at
  <2> QED
    BY <2>4, <2>5, <2>6, SavesSettle
<1> QED
  BY <1>1, <1>2

\* The saves die with the process: some on record, the others lost.
LEMMA SavesDieSettles ==
    ASSUME Sound, AuditOK, now \in Nat, UNCHANGED <<now, audit>>, SavesDie
    PROVE  SavesOK' /\ EntriesOK' /\ Evidence!Keep
<1>1. PICK landed \in SUBSET pending :
         entries' = entries \cup {Inserted(p, now) : p \in landed}
  BY DEF SavesDie
<1> DEFINE at == [p \in landed |-> now]
<1>2. entries' = entries \cup {Inserted(p, at[p]) : p \in landed}
  BY <1>1
<1>3. \A p \in landed : at[p] \in Nat /\ at[p] <= now
  OBVIOUS
<1>4. pending' \subseteq pending \ landed
  BY DEF SavesDie
<1> HIDE DEF at
<1> QED
  BY <1>2, <1>3, <1>4, SavesSettle

\* Rows are handed over: a save begins for each.
LEMMA SavesBeginSound ==
    ASSUME Sound, AuditOK', now \in Nat, now' \in Nat, now <= now', audit \subseteq audit',
           SavesBegin, UNCHANGED entries
    PROVE  SavesOK' /\ EntriesOK'
<1> DEFINE new == {[row |-> row, since |-> now] : row \in audit' \ audit}
<1>1. pending' = pending \cup new
  BY DEF SavesBegin
<1>2. \A p \in new : /\ p \in Save /\ p.row \in audit' \ audit /\ p.since = now
                     /\ p = [row |-> p.row, since |-> now]
  BY DEF Save, AuditOK
<1> HIDE DEF new
<1>3. pending' \subseteq Save
  BY <1>1, <1>2 DEF Sound, SavesOK
<1>4. ASSUME NEW p \in pending'
      PROVE  /\ p.row \in audit' /\ p.since <= now'
             /\ \A entry \in entries' : entry.row # p.row
  <2>1. CASE p \in pending
    <3>1. p.since \in Nat /\ p.since <= now /\ p.row \in audit
      BY <2>1 DEF Sound, SavesOK, Save
    <3> QED
      BY <2>1, <3>1 DEF Sound, SavesOK
  <2>2. CASE p \in new
    BY <1>2, <2>2 DEF Sound, EntriesOK
  <2> QED
    BY <1>1, <1>4, <2>1, <2>2
<1>5. ASSUME NEW p \in pending', NEW q \in pending', p.row = q.row
      PROVE  p = q
  <2>1. CASE p \in pending /\ q \in pending
    BY <1>5, <2>1 DEF Sound, SavesOK
  <2>2. CASE p \in new /\ q \in new
    BY <1>2, <1>5, <2>2
  <2>3. CASE \/ p \in pending /\ q \in new
             \/ p \in new /\ q \in pending
    BY <1>2, <1>5, <2>3 DEF Sound, SavesOK
  <2> QED
    BY <1>1, <2>1, <2>2, <2>3
<1>6. EntriesOK'
  BY DEF Sound, EntriesOK
<1> QED
  BY <1>3, <1>4, <1>5, <1>6 DEF SavesOK

LEMMA ReadPageWalks ==
    ASSUME Sound, ReadPage
    PROVE  (walk \in Walk)'
<1>1. walk \in Walk /\ entries \subseteq Entry
  BY DEF Sound, EntriesOK
<1>2. CASE walk' = [walk EXCEPT !.pc = "refused"]
  BY <1>1, <1>2 DEF Walk
<1>3. CASE \E f \in IF walk.pc = "idle" THEN Filters ELSE {walk.filter} :
             LET all == Found(f)
             IN \E P \in PagesOf(all, walk.page) :
                   walk' = [pc |-> IF walk.page * PageSize >= Cardinality(all)
                                   THEN "read" ELSE "reading",
                            filter |-> f,
                            page |-> walk.page + 1,
                            unseen |-> (IF walk.pc = "idle" THEN all ELSE walk.unseen) \ P]
  <2>1. PICK f \in IF walk.pc = "idle" THEN Filters ELSE {walk.filter} :
             \E P \in PagesOf(Found(f), walk.page) :
                   walk' = [pc |-> IF walk.page * PageSize >= Cardinality(Found(f))
                                   THEN "read" ELSE "reading",
                            filter |-> f,
                            page |-> walk.page + 1,
                            unseen |-> (IF walk.pc = "idle" THEN Found(f) ELSE walk.unseen) \ P]
    BY <1>3
  <2>2. f \in Filters \cup {NoFilter}
    BY <1>1 DEF Walk
  <2>3. Found(f) \subseteq Entry /\ walk.unseen \subseteq Entry /\ walk.page + 1 \in Nat
    BY <1>1 DEF Found, Walk
  <2> DEFINE pc == IF walk.page * PageSize >= Cardinality(Found(f)) THEN "read" ELSE "reading"
             seen == IF walk.pc = "idle" THEN Found(f) ELSE walk.unseen
  <2>4. pc \in {"read", "reading"} /\ seen \subseteq Entry
    BY <2>3
  <2>5. PICK P : walk' = [pc |-> pc, filter |-> f, page |-> walk.page + 1,
                          unseen |-> seen \ P]
    BY <2>1
  <2> HIDE DEF pc, seen
  <2> QED
    BY <2>2, <2>3, <2>4, <2>5 DEF Walk
<1> QED
  BY <1>2, <1>3 DEF ReadPage

LEMMA TrailKept ==
    ASSUME Typed, Informed, Sound, [TrailNext]_trailVars
    PROVE  Sound' /\ (Evidence!Next \/ UNCHANGED <<now, audit, entries>>)
<1>0. now \in Nat /\ AuditOK
  BY DEF Typed, ClockOK
<1>1. CASE ApiStep
  <2>1. [Next]_vars /\ walk' \in Walk
    BY <1>1 DEF ApiStep, Sound
  <2>2. AuditOK' /\ now' \in Nat /\ audit \subseteq audit'
    BY <2>1, NextKept, RowsHanded DEF Typed, ClockOK
  <2>3. CASE SavesBegin /\ UNCHANGED entries
    <3>1. now' = now \/ (now' = now + 1 /\ audit' = audit)
      BY <2>1, TimePasses
    <3>2. SavesOK' /\ EntriesOK'
      BY <1>0, <2>2, <2>3, <3>1, SavesBeginSound
    <3>3. Evidence!Pass \/ Evidence!Hand
      BY <2>2, <2>3, <3>1 DEF Evidence!Pass, Evidence!Hand
    <3> QED
      BY <2>1, <3>2, <3>3 DEF Evidence!Next, Sound
  <2>4. CASE Dies /\ SavesDie
    <3>1. UNCHANGED <<now, audit>>
      BY <2>1, <2>4, DyingIsCrashing
    <3> QED
      BY <1>0, <2>1, <2>4, <3>1, SavesDieSettles DEF Evidence!Next, Sound
  <2> QED
    BY <1>1, <2>3, <2>4 DEF ApiStep
<1>2. CASE IdleCrash
  <2>1. UNCHANGED <<now, audit, walk>> /\ SavesDie
    BY <1>2 DEF IdleCrash
  <2> QED
    BY <1>0, <2>1, SavesDieSettles DEF Evidence!Next, Sound
<1>3. ASSUME NEW p \in pending, Insert(p) \/ InsertFails(p)
      PROVE  Sound' /\ Evidence!Next
  <2>1. /\ UNCHANGED <<now, audit, walk>> /\ pending' = pending \ {p}
        /\ \/ entries' = entries
           \/ \E t \in p.since .. now : entries' = entries \cup {Inserted(p, t)}
    BY <1>3 DEF Insert, InsertFails, vars
  <2> QED
    BY <1>0, <2>1, SaveSettles DEF Evidence!Next, Sound
<1>4. CASE ReadPage
  <2>1. UNCHANGED <<now, audit, pending, entries>>
    BY <1>4 DEF ReadPage, vars
  <2> QED
    BY <1>4, <2>1, ReadPageWalks DEF Sound, SavesOK, EntriesOK
<1>5. CASE UNCHANGED trailVars
  <2>1. UNCHANGED <<now, audit, pending, entries, walk>>
    BY <1>5 DEF trailVars, vars
  <2> QED
    BY <2>1 DEF Sound, SavesOK, EntriesOK
<1> QED
  BY <1>1, <1>2, <1>3, <1>4, <1>5 DEF TrailNext

LEMMA SoundAlways == TrailSpec => []Sound
<1>1. TrailInit => Sound
  BY DEF TrailInit, Sound, SavesOK, EntriesOK, IdleWalk, Walk
<1>2. Typed /\ Informed /\ Sound /\ [TrailNext]_trailVars => Sound'
  BY TrailKept
<1> QED
  BY <1>1, <1>2, ApiSound, PTL DEF TrailSpec

-----------------------------------------------------------------------------
\* The saves in progress, the entries and the client's walk keep their types:
\* in particular every entry has a timestamp and records an event of the API.
THEOREM TrailTyped == TrailSpec => []TrailTypeOK
<1>1. Sound => TrailTypeOK
  BY DEF Sound, SavesOK, EntriesOK, TrailTypeOK
<1> QED
  BY <1>1, SoundAlways, PTL

\* persist's unawaited saves implement the evidence log: whatever order they land
\* in and whatever fails or crashes, an entry stands for one reported event, is
\* not from the future, and stays.
THEOREM ImplementsEvidence == TrailSpec => EvidenceHolds
<1>1. TrailInit => Evidence!Init
  BY DEF TrailInit, Init, Evidence!Init
<1>2. Typed /\ Informed /\ Sound /\ [TrailNext]_trailVars => [Evidence!Next]_<<now, audit, entries>>
  BY TrailKept
<1> QED
  BY <1>1, <1>2, ApiSound, SoundAlways, PTL
     DEF TrailSpec, EvidenceHolds, Evidence!Spec, Evidence!logVars
=============================================================================
