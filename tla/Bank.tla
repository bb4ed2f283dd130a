---------------------------------- MODULE Bank ---------------------------------
(***************************************************************************)
(* What the wallet of the shop promises: accounts, and transfers each of   *)
(* which is made once, whole, in one step, or never.                       *)
(***************************************************************************)
EXTENDS Integers

CONSTANTS Account,  \* the users who have a balance
          Transfer, \* recharges, withdrawals, renewals, adjustments, settlements
          Opening,  \* the balances to begin with
          Net       \* what a transfer adds to each account

VARIABLES balance, made

vars == <<balance, made>>

Init == balance = Opening /\ made = {}

Make(t) ==
    /\ t \notin made
    /\ made' = made \cup {t}
    /\ balance' = [a \in Account |-> balance[a] + Net[t][a]]

Next == \E t \in Transfer : Make(t)

Spec == Init /\ [][Next]_vars
================================================================================
