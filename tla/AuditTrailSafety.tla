-------------------------- MODULE AuditTrailSafety --------------------------
(***************************************************************************)
(* The properties of the audit trail.                                      *)
(***************************************************************************)
EXTENDS AuditTrail

\* Every variable that the trail adds has its type.
TrailTypeOK ==
    /\ pending \subseteq Save
    /\ entries \subseteq Entry
    /\ walk \in Walk

Evidence == INSTANCE EvidenceLog WITH
    clock <- now, handed <- audit, kept <- entries

\* SECURITY.md on the audit trail: it is append-only, and a row that is not
\* captured is lost, never doubled.  Whatever happens to persist's unawaited
\* saves, an entry stands for one event that a handler has reported, and stays.
EvidenceHolds == Evidence!Spec

\* A client that has read every page that the totals asked for has seen every
\* entry that its query matched when it began, however many rows have landed in
\* between and however late they came: rows only push an entry to a later page.
\* The exception is an entry that shares its timestamp with another one, since
\* findLogs orders by the timestamp alone.
WalkMissesNothing ==
    walk.pc = "read" =>
    \A entry \in walk.unseen : Tied(Found(walk.filter), entry) # {entry}

\* Logins for an address that were refused.
RefusedLogins(address) ==
    {r \in Requests : /\ Op(r) = "login" /\ req[r].call.email = address
                      /\ req[r].reply \in {401, 403}}

\* SECURITY.md on monitoring: the failed-login summary shows the addresses that
\* accumulate failures.  It never counts a failure that no client was told of,
\* and when no row was lost and the window reaches back far enough it counts
\* them all, also those that were refused because of a lock.
SummaryExact ==
    \A address \in Emails :
        LET counted == Cardinality(FailedLogins(address))
            refused == Cardinality(RefusedLogins(address))
        IN /\ counted <= refused
           /\ /\ \A row \in audit : \E entry \in entries : entry.row = row
              /\ \A entry \in entries : entry.timestamp + Hours > now
              => counted = refused
=============================================================================
