--------------------------- MODULE CardSecretStock --------------------------
(***************************************************************************)
(* The secrets (卡密) of one card category, table xy_card_secrets, and the  *)
(* database transactions that sell and restock them.                       *)
(*                                                                         *)
(* A delivery attempt is one pass through a take: over the "hook" path     *)
(* (deliver_data_card_secret, own cards) it takes a secret, hands it to    *)
(* the send callback, counts what is left, queues a relist or offline task *)
(* and commits; over the "plain" path (distributed cards, the internal     *)
(* deliver API, pickup) it takes and commits.  The caller sends the secret *)
(* to the buyer only after the commit.                                     *)
(*                                                                         *)
(* MySQL, default isolation REPEATABLE READ: a plain SELECT reads the      *)
(* snapshot opened by the transaction's first SELECT plus its own writes;  *)
(* SELECT ... FOR UPDATE SKIP LOCKED reads the latest committed rows that  *)
(* no other transaction has locked.                                        *)
(***************************************************************************)
EXTENDS Naturals, Sequences, FiniteSets

CONSTANTS SecretId,            \* primary keys a row may get
          Content,             \* texts a secret may have
          Order,               \* order numbers
          Delivery,            \* delivery attempts, each made once
          Import,              \* restock requests, each made once
          Paths,               \* the take paths in use, within {"hook", "plain"}
          MaxDeliveries,       \* attempts whose transactions may overlap
          MaxImports,          \* restock requests that may overlap
          SendCallbackRaises,  \* may send_message, send_image or confirm_delivery raise?
          RedisFails           \* may the RPUSH of a stock task fail?

CONSTANTS NoOrder, NoContent, NoSecret

ASSUME StockAssumption ==
    /\ SecretId \subseteq Nat
    /\ Paths \subseteq {"hook", "plain"}
    /\ MaxDeliveries \in Nat \ {0}
    /\ MaxImports \in Nat \ {0}
    /\ SendCallbackRaises \in BOOLEAN
    /\ RedisFails \in BOOLEAN
    /\ NoOrder \notin Order
    /\ NoContent \notin Content
    /\ NoSecret \notin SecretId

VARIABLES secrets,     \* the committed rows
          att,         \* the delivery attempts and their open transactions
          imp,         \* the restock requests and their open transactions
          stockTasks   \* Redis list stock_tasks, the actions in push order

vars == <<secrets, att, imp, stockTasks>>
-----------------------------------------------------------------------------
Row == [status  : {"absent", "available", "used"},
        content : Content \cup {NoContent},
        order   : Order \cup {NoOrder}]

AbsentRow == [status |-> "absent", content |-> NoContent, order |-> NoOrder]
FreshRow(c) == [status |-> "available", content |-> c, order |-> NoOrder]

Attempt == [pc     : {"idle", "open", "placed", "soldout", "sent", "counted",
                      "queued", "done", "empty", "failed"},
            order  : Order \cup {NoOrder},
            path   : {"hook", "plain"},
            view   : SUBSET SecretId,
            secret : SecretId \cup {NoSecret},
            left   : BOOLEAN]

IdleAttempt == [pc |-> "idle", order |-> NoOrder, path |-> "plain",
                view |-> {}, secret |-> NoSecret, left |-> FALSE]

Restock == [pc    : {"idle", "read", "done", "failed"},
            lines : SUBSET Content,
            seen  : SUBSET (Content \cup {NoContent})]

IdleImport == [pc |-> "idle", lines |-> {}, seen |-> {}]

\* The session is closed: what its transaction remembered is gone.
Closed(a, outcome, s) == [pc |-> outcome, order |-> a.order, path |-> a.path,
                          view |-> {}, secret |-> s, left |-> FALSE]
Ended(a, outcome) == Closed(a, outcome, a.secret)
RolledBack(a) == Closed(a, "failed", NoSecret)

\* The attempts whose transaction is open, and those that hold a row lock.
InTransaction == {"open", "placed", "soldout", "sent", "counted", "queued"}
Open == {d \in Delivery : att[d].pc \in InTransaction}
HoldsRow == {"placed", "sent", "counted", "queued"}
LockedRows == {att[d].secret : d \in {x \in Delivery : att[x].pc \in HoldsRow}}

Available == {s \in SecretId : secrets[s].status = "available"}
Present == {s \in SecretId : secrets[s].status # "absent"}

Stored == {secrets[s].content : s \in Present}

\* Rows the locking read of take_one can return, oldest id first.
Takeable == Available \ LockedRows

\* Seeded fault: the read does not skip locked rows.
OldestAvailable(s) == s \in Available /\ \A t \in Available : s <= t
Oldest(s) == s \in Takeable /\ \A t \in Takeable : s <= t
-----------------------------------------------------------------------------
Init ==
    /\ \E initial \in [SecretId -> Content \cup {NoContent}] :
         /\ \A s, t \in SecretId :
               s # t /\ initial[s] = initial[t] => initial[s] = NoContent
         /\ secrets = [s \in SecretId |-> IF initial[s] = NoContent
                                          THEN AbsentRow
                                          ELSE FreshRow(initial[s])]
    /\ att = [d \in Delivery |-> IdleAttempt]
    /\ imp = [i \in Import |-> IdleImport]
    /\ stockTasks = <<>>

\* RPUSH of one task; _safe_enqueue swallows a failure.
Enqueue(action) ==
    \/ stockTasks' = Append(stockTasks, action)
    \/ RedisFails /\ UNCHANGED stockTasks

\* The session is opened; on the hook path its first statement reads the
\* card, which opens the snapshot stock_of will count in.
\* MaxDeliveries bounds how many attempts overlap.
OpenSession(d, o, p) ==
    /\ att[d].pc = "idle"
    /\ Cardinality(Open) < MaxDeliveries
    /\ att' = [att EXCEPT ![d] =
                    [pc |-> "open", order |-> o, path |-> p,
                     view |-> IF p = "hook" THEN Available ELSE {},
                     secret |-> NoSecret, left |-> FALSE]]
    /\ UNCHANGED <<secrets, imp, stockTasks>>

\* take_one returns a row: locked now, written as used in this transaction.
TakeOne(d) ==
    /\ att[d].pc = "open"
    /\ \E s \in SecretId :
         /\ Oldest(s)
         /\ att' = [att EXCEPT ![d] = [@ EXCEPT !.pc = "placed", !.secret = s]]
    /\ UNCHANGED <<secrets, imp, stockTasks>>

\* take_one returns None: no available row that is not locked by another.
TakeNone(d) ==
    /\ att[d].pc = "open"
    /\ Takeable = {}
    /\ att' = [att EXCEPT ![d] = IF att[d].path = "hook"
                                 THEN [@ EXCEPT !.pc = "soldout"]
                                 ELSE Ended(@, "empty")]
    /\ UNCHANGED <<secrets, imp, stockTasks>>

\* The hook queues an offline task and returns False; nothing was written.
AnnounceSoldOut(d) ==
    /\ att[d].pc = "soldout"
    /\ Enqueue("offline")
    /\ att' = [att EXCEPT ![d] = Ended(@, "empty")]
    /\ UNCHANGED <<secrets, imp>>

SendReturns(d) ==
    /\ att[d].pc = "placed"
    /\ att[d].path = "hook"
    /\ att' = [att EXCEPT ![d] = [@ EXCEPT !.pc = "sent"]]
    /\ UNCHANGED <<secrets, imp, stockTasks>>

\* Seeded fault: the exception is swallowed and the placement committed.
SendRaisesCommitted(d) ==
    /\ SendCallbackRaises
    /\ att[d].pc = "placed"
    /\ att[d].path = "hook"
    /\ secrets' = [secrets EXCEPT ![att[d].secret] =
                        [@ EXCEPT !.status = "used", !.order = att[d].order]]
    /\ att' = [att EXCEPT ![d] = RolledBack(@)]
    /\ UNCHANGED <<imp, stockTasks>>

\* Seeded fault: the release is by order, and is committed.
SendRaisesReleasesOrder(d) ==
    /\ SendCallbackRaises
    /\ att[d].pc = "placed"
    /\ att[d].path = "hook"
    /\ secrets' = [s \in SecretId |-> IF secrets[s].order = att[d].order
                                      THEN FreshRow(secrets[s].content)
                                      ELSE secrets[s]]
    /\ att' = [att EXCEPT ![d] = RolledBack(@)]
    /\ UNCHANGED <<imp, stockTasks>>

\* release undoes the placement inside the transaction; the exception then
\* leaves the session without a commit.
SendRaises(d) ==
    /\ SendCallbackRaises
    /\ att[d].pc = "placed"
    /\ att[d].path = "hook"
    /\ att' = [att EXCEPT ![d] = RolledBack(@)]
    /\ UNCHANGED <<secrets, imp, stockTasks>>

\* Seeded fault: the row taken here is still counted.
CountStockBeforeTake(d) ==
    /\ att[d].pc = "sent"
    /\ att' = [att EXCEPT ![d] = [@ EXCEPT !.pc = "counted", !.left = (att[d].view # {})]]
    /\ UNCHANGED <<secrets, imp, stockTasks>>

\* stock_of is a plain SELECT: the snapshot, less the row taken here.
CountStock(d) ==
    /\ att[d].pc = "sent"
    /\ LET someLeft == att[d].view \ {att[d].secret} # {} IN
         att' = [att EXCEPT ![d] = [@ EXCEPT !.pc = "counted", !.left = someLeft]]
    /\ UNCHANGED <<secrets, imp, stockTasks>>

QueueStockTask(d) ==
    /\ att[d].pc = "counted"
    /\ Enqueue(IF att[d].left THEN "relist" ELSE "offline")
    /\ att' = [att EXCEPT ![d] = [@ EXCEPT !.pc = "queued"]]
    /\ UNCHANGED <<secrets, imp>>

\* The caller commits: the row becomes used for everyone and is unlocked.
CommitSale(d) ==
    /\ \/ att[d].pc = "queued"
       \/ att[d].pc = "placed" /\ att[d].path = "plain"
    /\ secrets' = [secrets EXCEPT ![att[d].secret] =
                        [@ EXCEPT !.status = "used", !.order = att[d].order]]
    /\ att' = [att EXCEPT ![d] = Ended(@, "done")]
    /\ UNCHANGED <<imp, stockTasks>>

\* A database error, a lost connection or the death of the process: MySQL
\* rolls the transaction back.  Tasks already pushed stay in Redis.
Abort(d) ==
    /\ att[d].pc \in InTransaction
    /\ att' = [att EXCEPT ![d] = RolledBack(@)]
    /\ UNCHANGED <<secrets, imp, stockTasks>>
-----------------------------------------------------------------------------
\* add_batch reads the contents the category has in its snapshot, whatever
\* their status.
ReadExisting(i, lines) ==
    /\ imp[i].pc = "idle"
    /\ Cardinality({x \in Import : imp[x].pc = "read"}) < MaxImports
    /\ imp' = [imp EXCEPT ![i] = [pc |-> "read", lines |-> lines, seen |-> Stored]]
    /\ UNCHANGED <<secrets, att, stockTasks>>

\* It inserts the lines it has not seen, and the route commits.
InsertNew(i) ==
    /\ imp[i].pc = "read"
    /\ LET new == imp[i].lines \ imp[i].seen IN
         \E id \in [new -> SecretId \ Present] :
           /\ \A c1, c2 \in new : c1 # c2 => id[c1] # id[c2]
           /\ secrets' = [s \in SecretId |->
                            IF \E c \in new : id[c] = s
                            THEN FreshRow(CHOOSE c \in new : id[c] = s)
                            ELSE secrets[s]]
    /\ imp' = [imp EXCEPT ![i] = [IdleImport EXCEPT !.pc = "done"]]
    /\ UNCHANGED <<att, stockTasks>>

AbortImport(i) ==
    /\ imp[i].pc = "read"
    /\ imp' = [imp EXCEPT ![i] = [IdleImport EXCEPT !.pc = "failed"]]
    /\ UNCHANGED <<secrets, att, stockTasks>>
-----------------------------------------------------------------------------
Take(d) == TakeOne(d) \/ TakeNone(d)
Hook(d) == \/ AnnounceSoldOut(d) \/ SendReturns(d) \/ SendRaises(d)
           \/ CountStock(d) \/ QueueStockTask(d)

Next ==
    \/ \E d \in Delivery :
         \/ \E o \in Order, p \in Paths : OpenSession(d, o, p)
         \/ Take(d) \/ Hook(d) \/ CommitSale(d) \/ Abort(d)
    \/ \E i \in Import :
         \/ \E lines \in SUBSET Content : ReadExisting(i, lines)
         \/ InsertNew(i) \/ AbortImport(i)

Spec == Init /\ [][Next]_vars
-----------------------------------------------------------------------------
(* Every variable keeps its type.                                          *)
TypeOK ==
    /\ secrets \in [SecretId -> Row]
    /\ att \in [Delivery -> Attempt]
    /\ imp \in [Import -> Restock]
    /\ stockTasks \in Seq({"relist", "offline"})

(* Two attempts never end up with the same secret, whether they are still  *)
(* open or committed: what FOR UPDATE SKIP LOCKED is there for.            *)
SoldOnce ==
    \A d1, d2 \in Delivery :
        d1 # d2 /\ att[d1].secret # NoSecret => att[d1].secret # att[d2].secret

(* The usage records agree with the deliveries: a row is used exactly when *)
(* a committed attempt took it, and it names the order of that attempt.    *)
(* An attempt that raised or was rolled back leaves no trace.              *)
UsageMatchesDeliveries ==
    \A s \in SecretId :
        /\ secrets[s].status = "used" =>
             \E d \in Delivery : /\ att[d].pc = "done" /\ att[d].secret = s
                                 /\ secrets[s].order = att[d].order
        /\ \A d \in Delivery : att[d].pc = "done" /\ att[d].secret = s =>
             secrets[s].status = "used"

(* A transaction that has not committed holds a row that is still for sale *)
(* in the committed table: its placement can always be undone.             *)
HeldRowsUnsold ==
    \A d \in Delivery : att[d].pc \in HoldsRow => att[d].secret \in Available

\* An attempt knows a secret exactly while it holds the row or has sold it.
SecretsOfAttempts ==
    \A d \in Delivery : att[d].secret # NoSecret <=> att[d].pc \in HoldsRow \cup {"done"}

\* An attempt that was made works for an order.
OrdersOfAttempts == \A d \in Delivery : att[d].pc # "idle" => att[d].order \in Order

\* The strengthening of SoldOnce and UsageMatchesDeliveries that every step
\* preserves.
StockInv == /\ TypeOK
            /\ SecretsOfAttempts
            /\ OrdersOfAttempts
            /\ SoldOnce
            /\ HeldRowsUnsold
            /\ UsageMatchesDeliveries

(* The table implements the ledger: each secret is sold at most once, to   *)
(* one order, and no recorded sale is ever undone by a later rollback,     *)
(* release or restock.                                                     *)
Ledger == INSTANCE SecretLedger
            WITH Secrets <- SecretId, Orders <- Order,
                 stock <- Available,
                 soldTo <- {<<s, secrets[s].order>> :
                              s \in {x \in SecretId : secrets[x].status = "used"}}

ImplementsLedger == Ledger!Spec
=============================================================================
