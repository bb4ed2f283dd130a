------------------------ MODULE CardSecretStockProofs -----------------------
(***************************************************************************)
(* Proofs about CardSecretStock, for any number of rows, orders, delivery  *)
(* attempts and restock requests, however their transactions overlap.      *)
(***************************************************************************)
EXTENDS CardSecretStockHistory, TLAPS

\* The sales book the ledger sees.
Book == {<<s, secrets[s].order>> : s \in {x \in SecretId : secrets[x].status = "used"}}

(* The records an attempt goes through are attempts.                       *)
LEMMA AttemptSteps ==
    ASSUME NEW a \in Attempt
    PROVE  /\ Ended(a, "empty") \in Attempt
           /\ Ended(a, "done") \in Attempt
           /\ RolledBack(a) \in Attempt
           /\ \A s \in SecretId : [a EXCEPT !.pc = "placed", !.secret = s] \in Attempt
           /\ \A l \in BOOLEAN : [a EXCEPT !.pc = "counted", !.left = l] \in Attempt
           /\ [a EXCEPT !.pc = "soldout"] \in Attempt
           /\ [a EXCEPT !.pc = "sent"] \in Attempt
           /\ [a EXCEPT !.pc = "queued"] \in Attempt
  <1>1. /\ Ended(a, "empty") \in Attempt
        /\ Ended(a, "done") \in Attempt
        /\ RolledBack(a) \in Attempt
    BY DEF Ended, RolledBack, Closed, Attempt
  <1>2. \A s \in SecretId : [a EXCEPT !.pc = "placed", !.secret = s] \in Attempt
    BY DEF Attempt
  <1>3. \A l \in BOOLEAN : [a EXCEPT !.pc = "counted", !.left = l] \in Attempt
    BY DEF Attempt
  <1>4. [a EXCEPT !.pc = "soldout"] \in Attempt
    BY DEF Attempt
  <1>5. [a EXCEPT !.pc = "sent"] \in Attempt
    BY DEF Attempt
  <1>6. [a EXCEPT !.pc = "queued"] \in Attempt
    BY DEF Attempt
  <1> QED
    BY <1>1, <1>2, <1>3, <1>4, <1>5, <1>6

(* Selling a row leaves a row.                                             *)
LEMMA RowSteps ==
    ASSUME NEW r \in Row, NEW o \in Order \cup {NoOrder}
    PROVE  [r EXCEPT !.status = "used", !.order = o] \in Row
  BY DEF Row

(* Every step keeps the types.                                             *)
LEMMA TypeStep == TypeOK /\ [Next]_vars => TypeOK'
  <1> SUFFICES ASSUME TypeOK, [Next]_vars
               PROVE  TypeOK'
    OBVIOUS
  <1> USE DEF TypeOK
  <1>1. ASSUME NEW d \in Delivery, NEW o \in Order, NEW p \in Paths, OpenSession(d, o, p)
        PROVE  TypeOK'
    BY <1>1, StockAssumption DEF OpenSession, Attempt, Available
  <1>2. ASSUME NEW d \in Delivery, TakeOne(d)
        PROVE  TypeOK'
    <2>1. PICK s \in SecretId :
                 att' = [att EXCEPT ![d] = [@ EXCEPT !.pc = "placed", !.secret = s]]
      BY <1>2 DEF TakeOne
    <2>2. [att[d] EXCEPT !.pc = "placed", !.secret = s] \in Attempt
      BY AttemptSteps
    <2>3. att' \in [Delivery -> Attempt]
      BY <2>1, <2>2
    <2> QED
      BY <1>2, <2>3 DEF TakeOne
  <1>3. ASSUME NEW d \in Delivery, TakeNone(d)
        PROVE  TypeOK'
    BY <1>3, AttemptSteps DEF TakeNone
  <1>4. ASSUME NEW d \in Delivery, AnnounceSoldOut(d)
        PROVE  TypeOK'
    <2>1. att' \in [Delivery -> Attempt]
      BY <1>4, AttemptSteps DEF AnnounceSoldOut
    <2>2. stockTasks' \in Seq({"relist", "offline"})
      BY <1>4 DEF AnnounceSoldOut, Enqueue
    <2> QED
      BY <1>4, <2>1, <2>2 DEF AnnounceSoldOut
  <1>5. ASSUME NEW d \in Delivery, SendReturns(d)
        PROVE  TypeOK'
    BY <1>5, AttemptSteps DEF SendReturns
  <1>6. ASSUME NEW d \in Delivery, SendRaises(d) \/ Abort(d)
        PROVE  TypeOK'
    BY <1>6, AttemptSteps DEF SendRaises, Abort
  <1>7. ASSUME NEW d \in Delivery, CountStock(d)
        PROVE  TypeOK'
    BY <1>7, AttemptSteps DEF CountStock
  <1>8. ASSUME NEW d \in Delivery, QueueStockTask(d)
        PROVE  TypeOK'
    <2>1. att' = [att EXCEPT ![d] = [@ EXCEPT !.pc = "queued"]]
      BY <1>8 DEF QueueStockTask
    <2>2. att' \in [Delivery -> Attempt]
      BY <2>1, AttemptSteps
    <2>3. stockTasks' \in Seq({"relist", "offline"})
      BY <1>8 DEF QueueStockTask, Enqueue
    <2> QED
      BY <1>8, <2>2, <2>3 DEF QueueStockTask
  <1>9. ASSUME NEW d \in Delivery, CommitSale(d)
        PROVE  TypeOK'
    <2>1. att' \in [Delivery -> Attempt]
      BY <1>9, AttemptSteps DEF CommitSale
    <2>2. att[d].order \in Order \cup {NoOrder}
      BY DEF Attempt
    <2>3. secrets' \in [SecretId -> Row]
      BY <1>9, <2>2, RowSteps DEF CommitSale
    <2> QED
      BY <1>9, <2>1, <2>3 DEF CommitSale
  <1>10. ASSUME NEW i \in Import, NEW lines \in SUBSET Content, ReadExisting(i, lines)
         PROVE  TypeOK'
    BY <1>10 DEF ReadExisting, Restock, Stored, Present, Row
  <1>11. ASSUME NEW i \in Import, InsertNew(i)
         PROVE  TypeOK'
    BY <1>11 DEF InsertNew, FreshRow, Row, Restock, IdleImport
  <1>12. ASSUME NEW i \in Import, AbortImport(i)
         PROVE  TypeOK'
    BY <1>12 DEF AbortImport, IdleImport, Restock
  <1>13. CASE UNCHANGED vars
    BY <1>13 DEF vars
  <1> QED
    BY <1>1, <1>2, <1>3, <1>4, <1>5, <1>6, <1>7, <1>8, <1>9, <1>10, <1>11, <1>12, <1>13
    DEF Next, Take, Hook

(* Steps that leave the table, every secret and every row lock alone.      *)
LEMMA QuietStep ==
    ASSUME StockInv, TypeOK', UNCHANGED secrets,
           \A d \in Delivery :
               /\ att'[d].secret = att[d].secret
               /\ att'[d].pc \in HoldsRow <=> att[d].pc \in HoldsRow
               /\ att'[d].pc = "done" <=> att[d].pc = "done"
               /\ att[d].pc = "done" => att'[d].order = att[d].order
               /\ att'[d].pc # "idle" => att'[d].order \in Order
    PROVE  StockInv'
  <1> USE DEF StockInv
  <1>1. SecretsOfAttempts' /\ SoldOnce' /\ OrdersOfAttempts'
    BY DEF SecretsOfAttempts, SoldOnce, OrdersOfAttempts, HoldsRow
  <1>2. HeldRowsUnsold'
    BY DEF HeldRowsUnsold, Available
  <1>3. UsageMatchesDeliveries'
    BY DEF UsageMatchesDeliveries
  <1> QED
    BY <1>1, <1>2, <1>3

(* Placing a row: the row was available and nobody else held it.           *)
LEMMA TakeStep ==
    ASSUME StockInv, TypeOK', NEW d \in Delivery, TakeOne(d)
    PROVE  StockInv'
  <1> USE DEF StockInv
  <1>1. PICK s \in SecretId :
               /\ Oldest(s)
               /\ att' = [att EXCEPT ![d] = [@ EXCEPT !.pc = "placed", !.secret = s]]
    BY DEF TakeOne
  <1>2. /\ att[d].pc = "open" /\ att[d].secret = NoSecret
        /\ secrets' = secrets
    BY DEF TakeOne, SecretsOfAttempts, HoldsRow
  <1>3. /\ att'[d].pc = "placed" /\ att'[d].secret = s /\ att'[d].order = att[d].order
        /\ \A x \in Delivery \ {d} : att'[x] = att[x]
    BY <1>1 DEF TypeOK, Attempt
  <1>4. s \in Available /\ \A x \in Delivery : att[x].pc \in HoldsRow => att[x].secret # s
    BY <1>1 DEF Oldest, Takeable, LockedRows
  <1>5. \A x \in Delivery : att[x].secret # s
    BY <1>4, StockAssumption
    DEF SecretsOfAttempts, UsageMatchesDeliveries, Available
  <1>6. SecretsOfAttempts' /\ SoldOnce'
    BY <1>2, <1>3, <1>5, StockAssumption DEF SecretsOfAttempts, SoldOnce, HoldsRow
  <1>7. HeldRowsUnsold'
    BY <1>2, <1>3, <1>4 DEF HeldRowsUnsold, Available
  <1>8. UsageMatchesDeliveries'
    BY <1>2, <1>3 DEF UsageMatchesDeliveries
  <1>9. OrdersOfAttempts'
    BY <1>2, <1>3 DEF OrdersOfAttempts
  <1> QED
    BY <1>6, <1>7, <1>8, <1>9

(* Rolling back: the secret is forgotten and the row is available as before. *)
LEMMA RollbackStep ==
    ASSUME StockInv, TypeOK', NEW d \in Delivery, SendRaises(d) \/ Abort(d)
    PROVE  StockInv'
  <1> USE DEF StockInv
  <1>1. /\ att[d].pc \notin {"idle", "done"}
        /\ att' = [att EXCEPT ![d] = RolledBack(@)]
        /\ secrets' = secrets
    BY DEF SendRaises, Abort, InTransaction
  <1>2. /\ att'[d].pc = "failed" /\ att'[d].secret = NoSecret
        /\ att'[d].order = att[d].order
        /\ \A x \in Delivery \ {d} : att'[x] = att[x]
    BY <1>1 DEF TypeOK, RolledBack, Closed
  <1>3. SecretsOfAttempts' /\ SoldOnce' /\ OrdersOfAttempts'
    BY <1>1, <1>2 DEF SecretsOfAttempts, SoldOnce, OrdersOfAttempts, HoldsRow
  <1>4. HeldRowsUnsold'
    BY <1>1, <1>2 DEF HeldRowsUnsold, HoldsRow, Available
  <1>5. UsageMatchesDeliveries'
    BY <1>1, <1>2 DEF UsageMatchesDeliveries
  <1> QED
    BY <1>3, <1>4, <1>5

(* Committing a sale books the row on the order of the attempt holding it. *)
LEMMA CommitStep ==
    ASSUME StockInv, TypeOK', NEW d \in Delivery, CommitSale(d)
    PROVE  StockInv'
  <1> USE DEF StockInv
  <1> DEFINE s == att[d].secret
  <1>1. /\ att[d].pc \in HoldsRow
        /\ att' = [att EXCEPT ![d] = Ended(@, "done")]
        /\ secrets' = [secrets EXCEPT ![s] =
                          [@ EXCEPT !.status = "used", !.order = att[d].order]]
    BY DEF CommitSale, HoldsRow
  <1>2. s \in SecretId /\ secrets[s].status = "available"
    BY <1>1 DEF HeldRowsUnsold, Available
  <1>3. /\ att'[d].pc = "done" /\ att'[d].secret = s /\ att'[d].order = att[d].order
        /\ \A x \in Delivery \ {d} : att'[x] = att[x]
    BY <1>1 DEF TypeOK, Ended, Closed
  <1>4. /\ secrets'[s].status = "used" /\ secrets'[s].order = att[d].order
        /\ \A t \in SecretId \ {s} : secrets'[t] = secrets[t]
    BY <1>1, <1>2 DEF TypeOK, Row
  <1>5. SecretsOfAttempts' /\ SoldOnce' /\ OrdersOfAttempts'
    BY <1>1, <1>3 DEF SecretsOfAttempts, SoldOnce, OrdersOfAttempts, HoldsRow
  <1>6. \A x \in Delivery \ {d} : att[x].secret # s
    BY <1>2, StockAssumption DEF SoldOnce
  <1>7. HeldRowsUnsold'
    BY <1>3, <1>4, <1>6 DEF HeldRowsUnsold, HoldsRow, Available
  <1>8. UsageMatchesDeliveries'
    BY <1>1, <1>2, <1>3, <1>4, <1>6 DEF UsageMatchesDeliveries, HoldsRow
  <1> QED
    BY <1>5, <1>7, <1>8

(* Inserting rows touches only rows that did not exist.                    *)
LEMMA InsertStep ==
    ASSUME StockInv, TypeOK', NEW i \in Import, InsertNew(i)
    PROVE  StockInv'
  <1> USE DEF StockInv
  <1> DEFINE new == imp[i].lines \ imp[i].seen
  <1>1. PICK id \in [new -> SecretId \ Present] :
               secrets' = [s \in SecretId |-> IF \E c \in new : id[c] = s
                                              THEN FreshRow(CHOOSE c \in new : id[c] = s)
                                              ELSE secrets[s]]
    BY DEF InsertNew
  <1>2. att' = att
    BY DEF InsertNew
  <1>3. \A s \in SecretId :
            \/ secrets'[s] = secrets[s]
            \/ secrets[s].status = "absent" /\ secrets'[s].status = "available"
    BY <1>1 DEF Present, FreshRow
  <1>4. SecretsOfAttempts' /\ SoldOnce' /\ OrdersOfAttempts'
    BY <1>2 DEF SecretsOfAttempts, SoldOnce, OrdersOfAttempts
  <1>5. HeldRowsUnsold'
    BY <1>2, <1>3 DEF HeldRowsUnsold, Available
  <1>6. UsageMatchesDeliveries'
    BY <1>2, <1>3 DEF UsageMatchesDeliveries
  <1> QED
    BY <1>4, <1>5, <1>6

(* The invariant holds at the start: nothing was taken or sold.            *)
LEMMA InitInv == Init => StockInv
  <1> SUFFICES ASSUME Init
               PROVE  StockInv
    OBVIOUS
  <1>1. TypeOK
    <2>1. secrets \in [SecretId -> Row]
      BY DEF Init, Row, AbsentRow, FreshRow
    <2>2. att \in [Delivery -> Attempt]
      BY DEF Init, Attempt, IdleAttempt
    <2>3. imp \in [Import -> Restock]
      BY DEF Init, Restock, IdleImport
    <2>4. stockTasks \in Seq({"relist", "offline"})
      BY DEF Init
    <2> QED
      BY <2>1, <2>2, <2>3, <2>4 DEF TypeOK
  <1>2. \A d \in Delivery : att[d].pc = "idle" /\ att[d].secret = NoSecret
    BY DEF Init, IdleAttempt
  <1>3. \A s \in SecretId : secrets[s].status # "used"
    BY DEF Init, AbsentRow, FreshRow
  <1> QED
    BY <1>1, <1>2, <1>3
    DEF StockInv, SecretsOfAttempts, OrdersOfAttempts, SoldOnce, HeldRowsUnsold, UsageMatchesDeliveries, HoldsRow

(* Every step keeps the invariant.                                         *)
LEMMA InvStep == StockInv /\ [Next]_vars => StockInv'
  <1> SUFFICES ASSUME StockInv, [Next]_vars
               PROVE  StockInv'
    OBVIOUS
  <1>1. TypeOK /\ TypeOK'
    BY TypeStep DEF StockInv
  <1>2. ASSUME NEW d \in Delivery, NEW o \in Order, NEW p \in Paths, OpenSession(d, o, p)
        PROVE  StockInv'
    <2>1. att[d].secret = NoSecret
      BY <1>2 DEF OpenSession, StockInv, SecretsOfAttempts, HoldsRow
    <2>2. /\ att'[d].pc = "open" /\ att'[d].secret = NoSecret /\ att'[d].order = o
          /\ \A x \in Delivery \ {d} : att'[x] = att[x]
      BY <1>1, <1>2 DEF OpenSession, TypeOK
    <2> QED
      BY <1>1, <1>2, <2>1, <2>2, QuietStep DEF OpenSession, HoldsRow, StockInv, OrdersOfAttempts
  <1>3. ASSUME NEW d \in Delivery, TakeNone(d) \/ AnnounceSoldOut(d)
        PROVE  StockInv'
    <2>1. /\ att[d].pc \notin HoldsRow \cup {"idle", "done"}
          /\ secrets' = secrets
      BY <1>3 DEF TakeNone, AnnounceSoldOut, HoldsRow
    <2>2. /\ att'[d].pc \in {"soldout", "empty"}
          /\ att'[d].secret = att[d].secret /\ att'[d].order = att[d].order
          /\ \A x \in Delivery \ {d} : att'[x] = att[x]
      BY <1>1, <1>3 DEF TakeNone, AnnounceSoldOut, Ended, Closed, TypeOK, Attempt
    <2> QED
      BY <1>1, <2>1, <2>2, QuietStep DEF HoldsRow, StockInv, OrdersOfAttempts
  <1>4. ASSUME NEW d \in Delivery, SendReturns(d) \/ CountStock(d) \/ QueueStockTask(d)
        PROVE  StockInv'
    <2>1. att[d].pc \in HoldsRow /\ secrets' = secrets
      BY <1>4 DEF SendReturns, CountStock, QueueStockTask, HoldsRow
    <2>2. /\ att'[d].pc \in {"sent", "counted", "queued"}
          /\ att'[d].secret = att[d].secret /\ att'[d].order = att[d].order
          /\ \A x \in Delivery \ {d} : att'[x] = att[x]
      <3>1. CASE SendReturns(d)
        BY <1>1, <3>1 DEF SendReturns, TypeOK, Attempt
      <3>2. CASE CountStock(d)
        <4>1. \E l \in BOOLEAN :
                 att' = [att EXCEPT ![d] = [@ EXCEPT !.pc = "counted", !.left = l]]
          BY <3>2 DEF CountStock
        <4> QED
          BY <1>1, <4>1 DEF TypeOK, Attempt
      <3>3. CASE QueueStockTask(d)
        BY <1>1, <3>3 DEF QueueStockTask, TypeOK, Attempt
      <3> QED
        BY <1>4, <3>1, <3>2, <3>3
    <2> QED
      BY <1>1, <2>1, <2>2, QuietStep DEF HoldsRow, StockInv, OrdersOfAttempts
  <1>5. ASSUME NEW d \in Delivery, TakeOne(d)
        PROVE  StockInv'
    BY <1>1, <1>5, TakeStep
  <1>6. ASSUME NEW d \in Delivery, SendRaises(d) \/ Abort(d)
        PROVE  StockInv'
    BY <1>1, <1>6, RollbackStep
  <1>7. ASSUME NEW d \in Delivery, CommitSale(d)
        PROVE  StockInv'
    BY <1>1, <1>7, CommitStep
  <1>8. ASSUME NEW i \in Import, InsertNew(i)
        PROVE  StockInv'
    BY <1>1, <1>8, InsertStep
  <1>9. ASSUME NEW i \in Import,
               AbortImport(i) \/ \E lines \in SUBSET Content : ReadExisting(i, lines)
        PROVE  StockInv'
    BY <1>1, <1>9, QuietStep DEF AbortImport, ReadExisting, StockInv, OrdersOfAttempts
  <1>10. CASE UNCHANGED vars
    BY <1>1, <1>10, QuietStep DEF vars, StockInv, OrdersOfAttempts
  <1> QED
    BY <1>2, <1>3, <1>4, <1>5, <1>6, <1>7, <1>8, <1>9, <1>10 DEF Next, Take, Hook

(* StockInv holds in every reachable state.                                *)
THEOREM StockCorrect == Spec => []StockInv
  BY InitInv, InvStep, PTL DEF Spec

(* Every variable of the stock keeps its type, whatever overlaps.          *)
THEOREM TypeCorrect == Spec => []TypeOK
  BY StockCorrect, PTL DEF StockInv

(* No two delivery attempts ever get the same secret, however many overlap *)
(* and whichever of them fail (take_one's FOR UPDATE SKIP LOCKED).         *)
THEOREM SecretsSoldOnce == Spec => []SoldOnce
  BY StockCorrect, PTL DEF StockInv

(* A row is marked used exactly when a committed attempt took it, on the   *)
(* order of that attempt: release and rollback leave no trace.             *)
THEOREM UsageRecordsExact == Spec => []UsageMatchesDeliveries
  BY StockCorrect, PTL DEF StockInv
-----------------------------------------------------------------------------
(* A committed sale is a Sell of the ledger.                               *)
LEMMA SellStep ==
    ASSUME StockInv, NEW d \in Delivery, CommitSale(d)
    PROVE  \E s \in SecretId, o \in Order : Ledger!Sell(s, o)
  <1> DEFINE s == att[d].secret
             o == att[d].order
  <1>1. /\ att[d].pc \in HoldsRow
        /\ secrets' = [secrets EXCEPT ![s] = [@ EXCEPT !.status = "used", !.order = o]]
    BY DEF CommitSale, HoldsRow
  <1>2. s \in SecretId /\ secrets[s].status = "available"
    BY <1>1 DEF StockInv, HeldRowsUnsold, Available
  <1>3. o \in Order
    BY <1>1 DEF StockInv, OrdersOfAttempts, HoldsRow
  <1>4. /\ secrets'[s].status = "used" /\ secrets'[s].order = o
        /\ \A t \in SecretId \ {s} : secrets'[t] = secrets[t]
    BY <1>1, <1>2 DEF StockInv, TypeOK, Row
  <1>5. Available' = Available \ {s}
    BY <1>2, <1>4 DEF Available
  <1>6. Book' = Book \cup {<<s, o>>}
    BY <1>2, <1>4 DEF Book
  <1>7. Ledger!Sell(s, o)
    BY <1>2, <1>5, <1>6 DEF Ledger!Sell, Available, Book
  <1> QED
    BY <1>2, <1>3, <1>7 DEF Ledger!Sell

(* An import is a Restock of the ledger.                                   *)
LEMMA RestockStep ==
    ASSUME StockInv, NEW i \in Import, InsertNew(i)
    PROVE  \E new \in SUBSET SecretId : Ledger!Restock(new)
  <1> DEFINE lines == imp[i].lines \ imp[i].seen
  <1>1. PICK id \in [lines -> SecretId \ Present] :
               secrets' = [s \in SecretId |-> IF \E c \in lines : id[c] = s
                                              THEN FreshRow(CHOOSE c \in lines : id[c] = s)
                                              ELSE secrets[s]]
    BY DEF InsertNew
  <1> DEFINE new == {id[c] : c \in lines}
  <1>2. /\ new \in SUBSET SecretId
        /\ \A s \in new : secrets[s].status = "absent" /\ secrets'[s].status = "available"
        /\ \A s \in SecretId \ new : secrets'[s] = secrets[s]
    BY <1>1 DEF Present, FreshRow
  <1> HIDE DEF new
  <1>3. Available' = Available \cup new
    BY <1>2 DEF Available
  <1>4. Book' = Book
    BY <1>2 DEF Book
  <1>5. \A sale \in Book : sale[1] \notin new
    BY <1>2 DEF Book
  <1>6. new \cap (Available \cup Ledger!Sold) = {}
    BY <1>2, <1>5 DEF Available, Book, Ledger!Sold
  <1>7. Ledger!Restock(new)
    BY <1>3, <1>4, <1>6 DEF Ledger!Restock, Available, Book
  <1> QED
    BY <1>2, <1>7

(* Every other step leaves the ledger as it is.                            *)
LEMMA LedgerStep == StockInv /\ [Next]_vars => [Ledger!Next]_(Ledger!ledgerVars)
  <1> SUFFICES ASSUME StockInv, [Next]_vars
               PROVE  [Ledger!Next]_(Ledger!ledgerVars)
    OBVIOUS
  <1>1. CASE secrets' = secrets
    BY <1>1 DEF Ledger!ledgerVars, Available
  <1>2. CASE \E d \in Delivery : CommitSale(d)
    BY <1>2, SellStep DEF Ledger!Next
  <1>3. CASE \E i \in Import : InsertNew(i)
    BY <1>3, RestockStep DEF Ledger!Next
  <1>4. secrets' = secrets \/ (\E d \in Delivery : CommitSale(d))
                           \/ (\E i \in Import : InsertNew(i))
    BY DEF Next, vars, Take, Hook, OpenSession, TakeOne, TakeNone, AnnounceSoldOut,
           SendReturns, SendRaises, CountStock, QueueStockTask, Abort,
           ReadExisting, AbortImport
  <1> QED
    BY <1>1, <1>2, <1>3, <1>4

(* The ledger starts with an empty sales book.                             *)
LEMMA LedgerInit == Init => Ledger!Init
  BY DEF Init, Ledger!Init, Available, AbsentRow, FreshRow

(* Whatever overlaps, fails or rolls back, the table implements the        *)
(* ledger: a secret is sold once, to one order, and a sale is final.       *)
THEOREM StockImplementsLedger == Spec => ImplementsLedger
  BY StockCorrect, LedgerInit, LedgerStep, PTL DEF Spec, Ledger!Spec, ImplementsLedger
-----------------------------------------------------------------------------
(* Attempts made one after the other: what the one that is open has seen   *)
(* is still for sale, what it counted is true, and the last task says so.  *)
InTurn ==
    /\ \A x, y \in Open : x = y
    /\ \A d \in Delivery : att[d].pc # "idle" => att[d].path = "hook"
    /\ \A d \in Open : att[d].view \subseteq Available
    /\ \A d \in Delivery :
         /\ att[d].pc \in {"counted", "queued"} /\ ~att[d].left => att[d].view \subseteq {att[d].secret}
         /\ att[d].pc \in {"counted", "queued"} /\ att[d].left => ~(att[d].view \subseteq {att[d].secret})
         /\ att[d].pc = "queued" /\ ~att[d].left => EndsOffline
    /\ Available = {} /\ (\E d \in Delivery : att[d].pc = "done") => EndsOffline

HistoryInv == alone => InTurn

\* A task pushed is the last one.
LEMMA PushLast ==
    ASSUME TypeOK, stockTasks' # stockTasks, NEW action \in {"relist", "offline"}, Enqueue(action)
    PROVE  action = "offline" => EndsOffline'
  <1>1. stockTasks \in Seq({"relist", "offline"}) /\ stockTasks' = Append(stockTasks, action)
    BY DEF TypeOK, Enqueue
  <1>2. stockTasks' # <<>> /\ stockTasks'[Len(stockTasks')] = action
    BY <1>1
  <1> QED
    BY <1>2 DEF EndsOffline

\* One attempt moves, without selling or pushing.
LEMMA MoveInTurn ==
    ASSUME TypeOK, InTurn, StaysAlone, NEW d \in Delivery, UNCHANGED <<secrets, stockTasks>>,
           att[d].pc # "done", att'[d].pc \notin {"queued", "done"},
           \A x \in Delivery \ {d} : att'[x] = att[x],
           d \in Open' => att'[d].view \subseteq Available,
           att'[d].pc = "counted" => (att'[d].left <=> ~(att'[d].view \subseteq {att'[d].secret}))
    PROVE  InTurn'
  <1>1. Available' = Available /\ (EndsOffline => EndsOffline')
    BY DEF Available, EndsOffline
  <1>2. \A x \in Open' : att'[x].view \subseteq Available
    BY DEF Open, InTurn
  <1>3. \A x \in Delivery : att'[x].pc = "done" => att[x].pc = "done"
    OBVIOUS
  <1> QED
    BY <1>1, <1>2, <1>3 DEF InTurn, StaysAlone

\* An import takes nothing out of the stock.
LEMMA InsertsKeep ==
    ASSUME NEW i \in Import, InsertNew(i)
    PROVE  Available \subseteq Available'
  <1> DEFINE new == imp[i].lines \ imp[i].seen
  <1>1. PICK id \in [new -> SecretId \ Present] :
               secrets' = [s \in SecretId |-> IF \E c \in new : id[c] = s
                                              THEN FreshRow(CHOOSE c \in new : id[c] = s)
                                              ELSE secrets[s]]
    BY DEF InsertNew
  <1>2. \A s \in Available : s \in SecretId /\ secrets'[s] = secrets[s]
    BY <1>1 DEF Available, Present
  <1> QED
    BY <1>2 DEF Available

LEMMA InTurnStep ==
    ASSUME StockInv, InTurn, StaysAlone, Next
    PROVE  InTurn'
  <1>1. TypeOK /\ att \in [Delivery -> Attempt] /\ \A d \in Delivery : att[d] \in Attempt
    BY DEF StockInv, TypeOK
  <1>2. ASSUME NEW d \in Delivery, NEW o \in Order, NEW p \in Paths, OpenSession(d, o, p)
        PROVE  InTurn'
    <2>1. /\ att'[d].pc = "open" /\ att'[d].view \subseteq Available
          /\ \A x \in Delivery \ {d} : att'[x] = att[x]
      BY <1>1, <1>2 DEF OpenSession
    <2> QED
      BY <1>1, <1>2, <2>1, MoveInTurn DEF OpenSession
  <1>3. ASSUME NEW d \in Delivery, TakeOne(d)
        PROVE  InTurn'
    <2>1. /\ att'[d].pc = "placed" /\ att'[d].view = att[d].view
          /\ \A x \in Delivery \ {d} : att'[x] = att[x]
      BY <1>1, <1>3 DEF TakeOne, Attempt
    <2>2. att[d].pc = "open" /\ UNCHANGED <<secrets, stockTasks>>
      BY <1>3 DEF TakeOne
    <2>3. att[d].view \subseteq Available
      BY <2>2 DEF InTurn, Open, InTransaction
    <2> QED
      BY <1>1, <2>1, <2>2, <2>3, MoveInTurn
  <1>4. ASSUME NEW d \in Delivery, TakeNone(d)
        PROVE  InTurn'
    <2>1. att[d].pc = "open" /\ UNCHANGED <<secrets, stockTasks>>
      BY <1>4 DEF TakeNone
    <2>2. att[d].path = "hook" /\ att[d].view \subseteq Available
      BY <2>1 DEF InTurn, Open, InTransaction
    <2>3. /\ att'[d].pc = "soldout" /\ att'[d].view = att[d].view
          /\ \A x \in Delivery \ {d} : att'[x] = att[x]
      BY <1>1, <1>4, <2>2 DEF TakeNone, Attempt
    <2> QED
      BY <1>1, <2>1, <2>2, <2>3, MoveInTurn
  <1>5. ASSUME NEW d \in Delivery, AnnounceSoldOut(d)
        PROVE  InTurn'
    <2>1. /\ att[d].pc = "soldout" /\ Enqueue("offline") /\ UNCHANGED secrets
          /\ att'[d].pc = "empty" /\ \A x \in Delivery \ {d} : att'[x] = att[x]
      BY <1>1, <1>5 DEF AnnounceSoldOut, Ended, Closed
    <2>2. d \in Pushed' /\ d \notin Pushed
      BY <2>1 DEF Pushed
    <2>3. EndsOffline'
      BY <1>1, <2>1, <2>2, PushLast DEF StaysAlone
    <2>4. Available' = Available /\ \A x \in Open' : x \in Open /\ att'[x] = att[x]
      BY <2>1 DEF Available, Open, InTransaction
    <2> QED
      BY <2>1, <2>3, <2>4 DEF InTurn, StaysAlone
  <1>6. ASSUME NEW d \in Delivery, SendReturns(d)
        PROVE  InTurn'
    <2>1. /\ att'[d].pc = "sent" /\ att'[d].view = att[d].view
          /\ \A x \in Delivery \ {d} : att'[x] = att[x]
      BY <1>1, <1>6 DEF SendReturns, Attempt
    <2>2. att[d].pc = "placed" /\ UNCHANGED <<secrets, stockTasks>>
      BY <1>6 DEF SendReturns
    <2>3. att[d].view \subseteq Available
      BY <2>2 DEF InTurn, Open, InTransaction
    <2> QED
      BY <1>1, <2>1, <2>2, <2>3, MoveInTurn
  <1>7. ASSUME NEW d \in Delivery, SendRaises(d) \/ Abort(d)
        PROVE  InTurn'
    <2>1. /\ att'[d].pc = "failed" /\ \A x \in Delivery \ {d} : att'[x] = att[x]
      BY <1>1, <1>7 DEF SendRaises, Abort, RolledBack, Closed
    <2>2. att[d].pc # "done" /\ UNCHANGED <<secrets, stockTasks>> /\ d \notin Open'
      BY <1>7, <2>1 DEF SendRaises, Abort, InTransaction, Open
    <2> QED
      BY <1>1, <2>1, <2>2, MoveInTurn
  <1>8. ASSUME NEW d \in Delivery, CountStock(d)
        PROVE  InTurn'
    <2>1. /\ att'[d].pc = "counted" /\ att'[d].view = att[d].view /\ att'[d].secret = att[d].secret
          /\ att'[d].left = (att[d].view \ {att[d].secret} # {})
          /\ \A x \in Delivery \ {d} : att'[x] = att[x]
      BY <1>1, <1>8 DEF CountStock, Attempt
    <2>2. att[d].pc = "sent" /\ UNCHANGED <<secrets, stockTasks>>
      BY <1>8 DEF CountStock
    <2>3. att[d].view \subseteq Available
      BY <2>2 DEF InTurn, Open, InTransaction
    <2>4. att'[d].left <=> ~(att'[d].view \subseteq {att'[d].secret})
      BY <2>1
    <2> QED
      BY <1>1, <2>1, <2>2, <2>3, <2>4, MoveInTurn
  <1>9. ASSUME NEW d \in Delivery, QueueStockTask(d)
        PROVE  InTurn'
    <2>1. /\ att[d].pc = "counted" /\ UNCHANGED secrets
          /\ Enqueue(IF att[d].left THEN "relist" ELSE "offline")
          /\ att'[d].pc = "queued" /\ att'[d].view = att[d].view /\ att'[d].secret = att[d].secret
          /\ att'[d].left = att[d].left
          /\ \A x \in Delivery \ {d} : att'[x] = att[x]
      BY <1>1, <1>9 DEF QueueStockTask, Attempt
    <2>2. d \in Pushed' /\ d \notin Pushed
      BY <2>1 DEF Pushed
    <2>3. ~att[d].left => EndsOffline'
      BY <1>1, <2>1, <2>2, PushLast DEF StaysAlone
    <2>4. Available' = Available /\ att[d].secret \in Available
      BY <2>1 DEF Available, HoldsRow, StockInv, HeldRowsUnsold
    <2>5. \A x \in Open' : x = d
      BY <2>1 DEF Open, InTransaction, StaysAlone
    <2>6. att[d].view \subseteq Available
      BY <2>1 DEF InTurn, Open, InTransaction
    <2>7. \A x \in Delivery : x # d => att'[x].pc \notin {"counted", "queued"}
      BY <2>5 DEF Open, InTransaction
    <2> QED
      BY <2>1, <2>3, <2>4, <2>5, <2>6, <2>7 DEF InTurn, StaysAlone
  <1>10. ASSUME NEW d \in Delivery, CommitSale(d)
         PROVE  InTurn'
    <2>1. d \in Open /\ att[d].path = "hook"
      BY <1>10 DEF CommitSale, Open, InTransaction, InTurn
    <2>2. /\ att[d].pc = "queued" /\ stockTasks' = stockTasks
          /\ att'[d].pc = "done" /\ \A x \in Delivery \ {d} : att'[x] = att[x]
      BY <1>1, <1>10, <2>1 DEF CommitSale, Ended, Closed
    <2>3. Open' = {}
      BY <2>1, <2>2 DEF Open, InTransaction, InTurn
    <2>4. att[d].secret \in SecretId /\ Available \ {att[d].secret} \subseteq Available'
      BY <1>10, <2>2 DEF CommitSale, StockInv, TypeOK, HeldRowsUnsold, HoldsRow, Available
    <2>5. att[d].view \subseteq Available
      BY <2>1 DEF InTurn
    <2>6. EndsOffline => EndsOffline'
      BY <2>2 DEF EndsOffline
    <2>7. Available' = {} => ~att[d].left
      BY <2>2, <2>4, <2>5 DEF InTurn
    <2>8. Available' = {} => EndsOffline'
      BY <2>2, <2>6, <2>7 DEF InTurn
    <2>9. \A x \in Delivery : att'[x].pc \notin {"counted", "queued"}
      BY <2>3 DEF Open, InTransaction
    <2> QED
      BY <2>3, <2>8, <2>9 DEF InTurn, StaysAlone
  <1>11. ASSUME NEW i \in Import, InsertNew(i) \/ AbortImport(i)
                                  \/ \E lines \in SUBSET Content : ReadExisting(i, lines)
         PROVE  InTurn'
    <2>1. UNCHANGED <<att, stockTasks>>
      BY <1>11 DEF InsertNew, AbortImport, ReadExisting
    <2>2. CASE secrets' = secrets
      BY <2>1, <2>2 DEF InTurn, Open, Available, EndsOffline
    <2>3. CASE InsertNew(i)
      <3>1. Available \subseteq Available'
        BY <2>3, InsertsKeep
      <3> QED
        BY <2>1, <3>1 DEF InTurn, Open, EndsOffline
    <2> QED
      BY <1>11, <2>2, <2>3 DEF AbortImport, ReadExisting
  <1> QED
    BY <1>2, <1>3, <1>4, <1>5, <1>6, <1>7, <1>8, <1>9, <1>10, <1>11 DEF Next, Take, Hook

(* Attempts that do not overlap and take over the hook path leave a last   *)
(* task that takes the item offline once the stock is sold out             *)
(* (deliver_data_card_secret), whatever is restocked, raised or aborted.   *)
THEOREM LastSalesTakeItemOffline == HistorySpec => []LastSaleTakesItemOffline
  <1>1. HistoryInit => StockInv /\ HistoryInv
    <2> SUFFICES ASSUME HistoryInit PROVE InTurn
      BY InitInv DEF HistoryInit, HistoryInv
    <2>1. \A d \in Delivery : att[d].pc = "idle"
      BY DEF HistoryInit, Init, IdleAttempt
    <2> QED
      BY <2>1 DEF InTurn, Open, InTransaction
  <1>2. StockInv /\ HistoryInv /\ [HistoryNext]_historyVars => StockInv' /\ HistoryInv'
    <2> SUFFICES ASSUME StockInv, HistoryInv, [HistoryNext]_historyVars
                 PROVE  StockInv' /\ HistoryInv'
      OBVIOUS
    <2>1. [Next]_vars
      BY DEF HistoryNext, historyVars
    <2>2. ASSUME HistoryNext, alone' PROVE InTurn'
      BY <2>2, InTurnStep DEF HistoryNext, HistoryInv, StaysAlone
    <2>3. ASSUME UNCHANGED historyVars PROVE HistoryInv'
      BY <2>3 DEF historyVars, vars, HistoryInv, InTurn, Open, Available, EndsOffline
    <2> QED
      BY <2>1, <2>2, <2>3, InvStep DEF HistoryInv
  <1>3. HistoryInv => LastSaleTakesItemOffline
    BY DEF HistoryInv, InTurn, LastSaleTakesItemOffline
  <1> QED
    BY <1>1, <1>2, <1>3, PTL DEF HistorySpec
=============================================================================
