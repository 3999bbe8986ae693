---------------------------- MODULE EvidenceLog ----------------------------
(***************************************************************************)
(* What the audit trail promises: events are handed over, some of them are *)
(* kept, each at most once and at an instant that is not in the future,    *)
(* and what has been kept is never changed and never taken away.           *)
(***************************************************************************)
EXTENDS Naturals

VARIABLES
    clock,
    handed,     \* events handed over so far
    kept        \* entries on record: an event, as row, and its timestamp

logVars == <<clock, handed, kept>>

EventsOn(record) == {entry.row : entry \in record}

Init ==
    /\ clock = 0
    /\ handed = {}
    /\ kept = {}

Pass == clock' = clock + 1 /\ UNCHANGED <<handed, kept>>

Hand == handed \subseteq handed' /\ UNCHANGED <<clock, kept>>

\* Some events that were handed over and are not on record yet reach it.
Keep ==
    /\ kept \subseteq kept'
    /\ LET new == kept' \ kept
       IN /\ EventsOn(new) \subseteq handed \ EventsOn(kept)
          /\ \A entry \in new : entry.timestamp <= clock
          /\ \A e, f \in new : e.row = f.row => e = f
    /\ UNCHANGED <<clock, handed>>

Next == Pass \/ Hand \/ Keep

Spec == Init /\ [][Next]_logVars
=============================================================================
