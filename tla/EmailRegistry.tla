---------------------------- MODULE EmailRegistry ----------------------------
(***************************************************************************)
(* What the partial unique index promises: an account may take an address  *)
(* that no live account has, giving up the one it had, and gives it up     *)
(* when it is deleted.                                                     *)
(***************************************************************************)
CONSTANTS Accounts, Addresses, Nobody

VARIABLE address    \* address[a]: the address of a live account, or Nobody

Init ==
    /\ address \in [Accounts -> Addresses \cup {Nobody}]
    /\ \A a, b \in Accounts : address[a] = address[b] => a = b \/ address[a] = Nobody

Take(a, e) ==
    /\ \A b \in Accounts : address[b] # e
    /\ address' = [address EXCEPT ![a] = e]

GiveUp(a) == address' = [address EXCEPT ![a] = Nobody]

Next == \E a \in Accounts : GiveUp(a) \/ \E e \in Addresses : Take(a, e)

Spec == Init /\ [][Next]_address
=============================================================================
