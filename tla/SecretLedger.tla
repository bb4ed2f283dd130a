---------------------------- MODULE SecretLedger ----------------------------
(***************************************************************************)
(* What the secret table promises to the seller, with no transaction in    *)
(* sight: a secret enters the stock once, is sold to one order, and a      *)
(* recorded sale is never undone.  CardSecretStock implements this.        *)
(***************************************************************************)
CONSTANTS Secrets,    \* identities a row of xy_card_secrets can have
          Orders      \* order numbers

VARIABLES stock,      \* secrets that may still be sold
          soldTo      \* the sales book: pairs <<secret, order>>

ledgerVars == <<stock, soldTo>>

Sold == {sale[1] : sale \in soldTo}

Init == /\ stock \in SUBSET Secrets
        /\ soldTo = {}

\* One secret leaves the stock and is booked on one order.
Sell(s, o) ==
    /\ s \in stock
    /\ stock' = stock \ {s}
    /\ soldTo' = soldTo \cup {<<s, o>>}

\* New secrets arrive; none of them was ever sold or is already in stock.
Restock(new) ==
    /\ new \cap (stock \cup Sold) = {}
    /\ stock' = stock \cup new
    /\ UNCHANGED soldTo

Next == \/ \E s \in Secrets, o \in Orders : Sell(s, o)
        \/ \E new \in SUBSET Secrets : Restock(new)

Spec == Init /\ [][Next]_ledgerVars
=============================================================================
