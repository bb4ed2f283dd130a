------------------------------- MODULE MCWallet --------------------------------
EXTENDS Wallet

CONSTANTS n1, n2, n3, n4, o1, o2, a1, r1, w1, d1, d2, p1, p2, p3, v1, v2, m1

\* Users 1, 2 and 3 trade, 3 is the administrator too; 4 pays for an advert.
MCOpening == [u \in User |-> IF u = 2 THEN 0 ELSE 3]

MCOrderOf == [n \in Notice \cup Advert |-> IF n \in {n3, n4, m1} THEN o2 ELSE o1]

MCRequest == [j \in Order \cup Single \cup Advert |->
    CASE j = o1 -> [user |-> 1, amount |-> 3]
      [] j = o2 -> [user |-> 4, amount |-> 1]
      [] j = m1 -> [user |-> 3, amount |-> 1]
      [] j = a1 -> [user |-> 3, amount |-> -1]
      [] j = r1 -> [user |-> 2, amount |-> -2]
      [] OTHER  -> [user |-> 1, amount |-> -4]]

Trade(level, dealer, price, payer, fee) ==
    [level |-> level, dealer |-> dealer, level1 |-> 2, owner |-> 3,
     cost |-> 2, level2Cost |-> price, fee |-> fee, feePayer |-> payer]

\* d1 meets the rows in the order 3, 2, 1; p2 and p3 must lock them in the
\* order of the ids.  The card of p3 has been taken out of distribution since
\* it was docked.  d2 and p1 meet two rows in different orders.
MCTerms == [j \in Dock |->
    CASE j = d1 -> [Trade(2, 3, 2, "distributor", 4) EXCEPT !.owner = 1, !.cost = 3]
      [] j = d2 -> [Trade(1, 3, 1, "dealer", 1) EXCEPT !.owner = 1, !.cost = 1]
      [] j = p1 -> Trade(2, 1, 2, "distributor", 3)
      [] j = p2 -> [Trade(1, 3, 2, "dealer", 1) EXCEPT !.owner = 1]
      [] OTHER  -> Trade(2, 1, 2, "unset", 2)]

\* The check of d1 may find the card before the owner raised its price above
\* what the first level asks for, and that one before it was raised as well.
MCQuotes == [d \in Delivery |->
    IF d = d1 THEN {[Terms[d] EXCEPT !.cost = 1, !.level2Cost = price] : price \in 1..2}
    ELSE {Terms[d]}]

\* The two notices of o2 are alike.
Alike == Permutations({n3, n4})

MCReviewOf == [r \in Review |-> w1]

MCVerdict == [r \in Review |-> IF r = CHOOSE q \in Review : TRUE THEN "approved" ELSE "rejected"]
================================================================================
