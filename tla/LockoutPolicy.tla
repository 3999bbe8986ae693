---------------------------- MODULE LockoutPolicy ----------------------------
(***************************************************************************)
(* What the account lockout promises, account by account, with no request  *)
(* in sight: failures are counted while no lock runs, the one that reaches *)
(* the threshold starts a lock of the full duration, a running lock is     *)
(* left alone until it expires, and a success wipes the slate.             *)
(***************************************************************************)
EXTENDS Naturals

CONSTANTS Accounts, Threshold, Duration

VARIABLES
    clock,
    failures,   \* failures[a]: failed attempts since the last success
    lockEnd     \* lockEnd[a]: when the lock of a ends, 0 when it has none

policyVars == <<clock, failures, lockEnd>>

\* An attempt is judged at an instant that is not in the future, and at which
\* no lock of the account was running.
JudgedAt(a, t) == t <= clock /\ lockEnd[a] <= t

Init ==
    /\ clock = 0
    /\ failures \in [Accounts -> Nat]
    /\ lockEnd \in [Accounts -> 0 .. Duration]

Fail(a) ==
    /\ failures' = [failures EXCEPT ![a] = @ + 1]
    /\ \E t \in 0 .. clock :
          /\ JudgedAt(a, t)
          /\ lockEnd' = [lockEnd EXCEPT
                ![a] = IF failures[a] + 1 >= Threshold THEN t + Duration ELSE 0]
    /\ UNCHANGED clock

Succeed(a) ==
    /\ JudgedAt(a, clock)
    /\ failures' = [failures EXCEPT ![a] = 0]
    /\ lockEnd' = [lockEnd EXCEPT ![a] = 0]
    /\ UNCHANGED clock

Pass == clock' = clock + 1 /\ UNCHANGED <<failures, lockEnd>>

Next == Pass \/ \E a \in Accounts : Fail(a) \/ Succeed(a)

Spec == Init /\ [][Next]_policyVars
=============================================================================
