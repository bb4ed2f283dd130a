--------------------------------- MODULE Wallet --------------------------------
(***************************************************************************)
(* The users' balances and everything that moves money: the payment        *)
(* notices of Alipay, the administrator's adjustments, renewals of a       *)
(* membership, withdrawals and their review, the settlement of a dock      *)
(* delivery (_create_agent_order) and of a pickup, payments for adverts.   *)
(*                                                                         *)
(* Each is one transaction.  A balance is read with FOR UPDATE, written    *)
(* back with a flow that names the balance before and after, and its row   *)
(* stays locked until the transaction ends.  A settlement moves money      *)
(* between two or three users, one entry after another.  Adverts alone     *)
(* read without a lock and write what they computed from that.             *)
(*                                                                         *)
(* Amounts are integers (the code has decimals); every user has a balance  *)
(* row.  Redis' lock around a pickup is left out: it expires after thirty  *)
(* seconds and is skipped when Redis fails, so the rows must do.           *)
(***************************************************************************)
EXTENDS Integers, SequencesExt

CONSTANTS User,        \* ids, in the order in which a pickup locks
          Opening,     \* the balances to begin with
          Order,       \* recharge orders
          Notice,      \* payment notices, repeated ones too
          Advert,      \* adverts, paid by an order; each is polled one call at a time
          OrderOf,     \* the order a notice is about or an advert is paid by
          Adjustment, Renewal, Withdrawal,
          Request,     \* user and amount of these, of the orders and of the adverts
          Delivery,    \* dock deliveries, settled after the goods
          Pickup,      \* pickups, settled with the goods
          Terms,       \* parties, prices and fee of deliveries and pickups
          Quotes,      \* what the check of a delivery may find before these were set
          Review,      \* clicks on "approve" or "reject"
          ReviewOf,    \* the withdrawal reviewed
          Verdict,     \* and what the click says
          Overlap,     \* may two notices of an order, two reviews of a record overlap?
          LockTimeouts,\* may a wait for a row end in an error?
          Free         \* no holder

Dock == Delivery \cup Pickup
Single == Adjustment \cup Renewal \cup Withdrawal
Job == Notice \cup Single \cup Dock \cup Advert

\* A docked card.  One taken out of distribution since then has no bearer of
\* the fee.
Offer == [level : {1, 2}, dealer : User, level1 : User, owner : User,
          cost : Nat, level2Cost : Nat, fee : Nat,
          feePayer : {"dealer", "distributor", "unset"}]

ASSUME WalletAssumption ==
    /\ User \subseteq Nat /\ Opening \in [User -> Int]
    /\ OrderOf \in [Notice \cup Advert -> Order]
    /\ Request \in [Order \cup Single \cup Advert -> [user : User, amount : Int]]
    /\ \A o \in Order \cup Advert : Request[o].amount > 0
    /\ \A j \in Renewal \cup Withdrawal : Request[j].amount < 0
    /\ Terms \in [Dock -> Offer] /\ Quotes \in [Delivery -> SUBSET Offer]
    /\ \A d \in Delivery : \A t \in Quotes[d] : t.dealer = Terms[d].dealer
    /\ ReviewOf \in [Review -> Withdrawal] /\ Verdict \in [Review -> {"approved", "rejected"}]
    /\ Free \notin Job /\ Overlap \in BOOLEAN /\ LockTimeouts \in BOOLEAN
    /\ Notice \cap Single = {} /\ Delivery \cap Pickup = {} /\ Dock \cap Single = {}
    /\ Advert \cap (Notice \cup Single \cup Dock) = {}
    /\ Dock \cap Notice = {} /\ Review \cap Job = {} /\ Order \cap Job = {}

VARIABLES balance,    \* xy_user_settings, key 'balance'
          flows,      \* fund flows of each user
          recharge,   \* status of each recharge order
          record,     \* status of each withdrawal
          agentOrder, \* status of the agent order of each dock job
          holder,     \* whose transaction has the balance row locked
          written,    \* flows written under the lock and not committed
          pc,         \* where each job and review is
          todo,       \* the entries a job has yet to book
          basis,      \* the balances in the snapshot an advert's payment reads
          seen,       \* history: flows of the dealer at the pre-check, of the
                      \* order's user when a notice reads its order
          quoted      \* history: the terms of the pre-check

tables == <<balance, flows, recharge, record, agentOrder>>
progress == <<basis, seen, quoted>>
vars == <<tables, holder, written, pc, todo, progress>>
-----------------------------------------------------------------------------
(* What a job books.  An amount of zero books nothing.                     *)
Entry(u, amount) == IF amount = 0 THEN <<>> ELSE <<[user |-> u, amount |-> amount]>>

\* What the dealer pays for the goods: to the owner, or to the first level.
Price(t) == IF t.level = 1 THEN t.cost ELSE t.level2Cost

Income(t) ==
    IF t.level = 1 THEN Entry(t.owner, t.cost)
    ELSE Entry(t.level1, t.level2Cost) \o Entry(t.level1, -t.cost) \o Entry(t.owner, t.cost)

\* Seeded fault: the income first.
SettlementIncomeFirst(t) ==
    IF t.feePayer = "distributor"
    THEN Income(t) \o Entry(t.owner, -t.fee) \o Entry(t.dealer, -Price(t))
    ELSE Income(t) \o Entry(t.dealer, -Price(t)) \o Entry(t.dealer, -t.fee)

\* settle_level1_order, settle_level2_order: unless the owner ("distributor")
\* bears the fee the dealer does.
Settlement(t) ==
    IF t.feePayer = "distributor"
    THEN Entry(t.dealer, -Price(t)) \o Income(t) \o Entry(t.owner, -t.fee)
    ELSE Entry(t.dealer, -Price(t)) \o Entry(t.dealer, -t.fee) \o Income(t)

Entries(j) ==
    IF j \in Dock THEN Settlement(Terms[j])
    ELSE <<Request[IF j \in Notice THEN OrderOf[j] ELSE j]>>

\* What the i-th entry, if there is one, adds to the balance of u.
Part(entries, i, u) ==
    IF i \in DOMAIN entries /\ entries[i].user = u THEN entries[i].amount ELSE 0

\* A settlement has at most five entries.
NetOf(entries, u) ==
    Part(entries, 1, u) + Part(entries, 2, u) + Part(entries, 3, u)
        + Part(entries, 4, u) + Part(entries, 5, u)
-----------------------------------------------------------------------------
Init ==
    /\ balance = Opening
    /\ flows = [u \in User |-> <<>>]
    /\ recharge = [o \in Order |-> "pending"]
    /\ record = [w \in Withdrawal |-> "none"]
    /\ agentOrder = [j \in Dock |-> "none"]
    /\ holder = [u \in User |-> Free]
    /\ written = [u \in User |-> <<>>]
    /\ pc = [j \in Job \cup Review |-> "new"]
    /\ todo = [j \in Job |-> Entries(j)]
    /\ basis = [a \in Advert |-> Opening]
    /\ seen = [j \in Delivery \cup Notice |-> 0]
    /\ quoted = [d \in Delivery |-> Terms[d]]

Goto(j, place) == pc' = [pc EXCEPT ![j] = place]

\* The balance as the transaction that has the row locked reads it.
Value(u) == IF written[u] = <<>> THEN balance[u] ELSE Last(written[u]).after

\* The transaction of j ends and its row locks with it.
Unlock(j) ==
    /\ holder' = [u \in User |-> IF holder[u] = j THEN Free ELSE holder[u]]
    /\ written' = [u \in User |-> IF holder[u] = j THEN <<>> ELSE written[u]]

\* Rolled back: nothing of it stays.
Undo(j, place) ==
    /\ Goto(j, place)
    /\ Unlock(j)
    /\ UNCHANGED <<tables, todo, progress>>
-----------------------------------------------------------------------------
(* Where a job begins.                                                     *)
SameOrder(n) == {k \in Notice : OrderOf[k] = OrderOf[n]}

SeeFlows(j, u) == seen' = [seen EXCEPT ![j] = Len(flows[u])]

\* Seeded fault: a paid order is not recognised.
ReadOrderAnyway(n) ==
    /\ n \in Notice /\ pc[n] = "new"
    /\ Goto(n, "booking")
    /\ SeeFlows(n, Request[OrderOf[n]].user)
    /\ UNCHANGED <<tables, holder, written, todo, basis, quoted>>

\* A notice reads its order, without a lock, and never again.
ReadOrder(n) ==
    /\ n \in Notice /\ pc[n] = "new"
    /\ Overlap \/ \A k \in SameOrder(n) : pc[k] # "booking"
    /\ Goto(n, IF recharge[OrderOf[n]] = "paid" THEN "refused" ELSE "booking")
    /\ SeeFlows(n, Request[OrderOf[n]].user)
    /\ UNCHANGED <<tables, holder, written, todo, basis, quoted>>

BeginSingle(j) ==
    /\ j \in Single /\ pc[j] = "new"
    /\ Goto(j, "booking")
    /\ UNCHANGED <<tables, holder, written, todo, progress>>

\* ad_payment_notify: the order has been paid; the balances are read in a
\* snapshot, without a lock.
ReadAdvert(a) ==
    /\ a \in Advert /\ pc[a] = "new"
    /\ recharge[OrderOf[a]] = "paid"
    /\ Goto(a, "booking")
    /\ basis' = [basis EXCEPT ![a] = balance]
    /\ UNCHANGED <<tables, holder, written, todo, seen, quoted>>

\* What a dealer needs for a delivery; the fee counts if the card says that
\* the dealer bears it.
Required(t) == Price(t) + (IF t.feePayer = "dealer" THEN t.fee ELSE 0)

\* The first level would pass the goods on for less than it pays.
Undersold(t) == t.level = 2 /\ t.level2Cost < t.cost

\* Seeded fault: the card's price, whatever the first level asks for.
PreCheckCardPrice(d) ==
    /\ d \in Delivery /\ pc[d] = "new"
    /\ \E t \in Quotes[d] :
         /\ Goto(d, IF Undersold(t) \/ balance[t.dealer] < t.cost THEN "refused" ELSE "booking")
         /\ quoted' = [quoted EXCEPT ![d] = t]
    /\ SeeFlows(d, Terms[d].dealer)
    /\ UNCHANGED <<tables, holder, written, todo, basis>>

\* _validate_dock_delivery: the prices and the dealer's balance, without a
\* lock and in a session of its own; the goods go out and the settlement begins.
\* It reads prices and fee anew: the check may have found others.
PreCheck(d) ==
    /\ d \in Delivery /\ pc[d] = "new"
    /\ \E t \in Quotes[d] :
         /\ Goto(d, IF Undersold(t) \/ balance[t.dealer] < Required(t)
                      THEN "refused" ELSE "booking")
         /\ quoted' = [quoted EXCEPT ![d] = t]
    /\ SeeFlows(d, Terms[d].dealer)
    /\ UNCHANGED <<tables, holder, written, todo, basis>>

BeginPickup(p) ==
    /\ p \in Pickup /\ pc[p] = "new"
    /\ Goto(p, "locking")
    /\ UNCHANGED <<tables, holder, written, todo, progress>>

Parties(t) == {t.dealer, t.owner} \cup (IF t.level = 2 THEN {t.level1} ELSE {})

\* The parties a pickup has yet to lock, and the next of them: the lowest id.
Unlocked(p) == {u \in Parties(Terms[p]) : holder[u] # p}

\* Seeded fault: the dealer first, then the others.
NextPartyDealer(p) ==
    IF Terms[p].dealer \in Unlocked(p) THEN Terms[p].dealer
    ELSE CHOOSE u \in Unlocked(p) : \A v \in Unlocked(p) : u <= v

NextParty(p) == CHOOSE u \in Unlocked(p) : \A v \in Unlocked(p) : u <= v

LockParty(p) ==
    /\ p \in Pickup /\ pc[p] = "locking" /\ Unlocked(p) # {}
    /\ holder[NextParty(p)] = Free
    /\ holder' = [holder EXCEPT ![NextParty(p)] = p]
    /\ UNCHANGED <<tables, written, pc, todo, progress>>

\* _compute_net_deltas: unless the dealer bears the fee the owner does.
Delta(t, u) ==
    NetOf(Entry(t.dealer, -Price(t)) \o Income(t)
            \o Entry(IF t.feePayer = "dealer" THEN t.dealer ELSE t.owner, -t.fee), u)

\* Who would end below zero.
Short(p) ==
    LET t == Terms[p] IN
    {u \in Parties(t) : Delta(t, u) < 0 /\ balance[u] + Delta(t, u) < 0}

\* All rows are locked; afterwards the contents are fetched.
CheckParties(p) ==
    /\ p \in Pickup /\ pc[p] = "locking" /\ Unlocked(p) = {}
    /\ IF Short(p) = {} THEN Goto(p, "booking") /\ UNCHANGED <<holder, written>>
       ELSE Goto(p, "refused") /\ Unlock(p)
    /\ UNCHANGED <<tables, todo, progress>>
-----------------------------------------------------------------------------
(* Booking: _add_balance, _deduct_balance and their copies.                *)
NextUser(j) == Head(todo[j]).user

CanBook(j) == pc[j] = "booking" /\ todo[j] # <<>> /\ holder[NextUser(j)] \in {Free, j}

Write(j, before) ==
    LET u == NextUser(j)
        after == before + Head(todo[j]).amount
    IN  /\ holder' = [holder EXCEPT ![u] = j]
        /\ written' = [written EXCEPT ![u] =
                          Append(@, [job |-> j, before |-> before, after |-> after])]
        /\ todo' = [todo EXCEPT ![j] = Tail(@)]

\* An adjustment, a renewal or a withdrawal is refused under the lock if
\* the balance would be below zero.
Covered(j) == j \in Single => Value(NextUser(j)) + Head(todo[j]).amount >= 0

\* Seeded fault: an entry is not based on the one before it.
BookOnCommitted(j) ==
    /\ CanBook(j) /\ Covered(j)
    /\ Write(j, balance[NextUser(j)])
    /\ UNCHANGED <<tables, pc, progress>>

\* The administrator's income from an advert is added to what was read.
Base(j) == IF j \in Advert THEN basis[j][NextUser(j)] ELSE Value(NextUser(j))

Book(j) ==
    /\ CanBook(j) /\ Covered(j)
    /\ Write(j, Base(j))
    /\ UNCHANGED <<tables, pc, progress>>

Refuse(j) ==
    /\ CanBook(j) /\ ~Covered(j)
    /\ Undo(j, "refused")

\* The job waits for a row that another transaction has locked.
WaitsFor(j) ==
    CASE pc[j] = "booking" /\ todo[j] # <<>> -> holder[NextUser(j)]
      [] pc[j] = "locking" /\ Unlocked(j) # {} -> holder[NextParty(j)]
      [] OTHER -> Free

Waits(j) == WaitsFor(j) \notin {Free, j}

\* The wait of a delivery ends in an error (innodb_lock_wait_timeout).  It
\* undoes the one statement; _create_agent_order catches it and commits.
CutOff(d) ==
    /\ LockTimeouts /\ d \in Delivery
    /\ pc[d] = "booking" /\ Waits(d)
    /\ Goto(d, "cut")
    /\ UNCHANGED <<tables, holder, written, todo, progress>>
-----------------------------------------------------------------------------
(* Commit, rollback.                                                       *)
Complete(j) == (pc[j] = "booking" /\ todo[j] = <<>>) \/ pc[j] = "cut"

\* Who paid for an advert, and the flow that records it and moves nothing.
Payer(a) == Request[OrderOf[a]].user
Receipt(a) == [job |-> a, before |-> basis[a][Payer(a)], after |-> basis[a][Payer(a)]]

Publish(j) ==
    /\ flows' = [u \in User |->
         (IF holder[u] = j THEN flows[u] \o written[u] ELSE flows[u])
           \o (IF j \in Advert /\ u = Payer(j) THEN <<Receipt(j)>> ELSE <<>>)]
    /\ balance' = [u \in User |-> IF holder[u] = j THEN Value(u) ELSE balance[u]]

\* The row the transaction writes beside balance and flow.
Record(j) ==
    /\ recharge' = IF j \in Notice THEN [recharge EXCEPT ![OrderOf[j]] = "paid"] ELSE recharge
    /\ record' = IF j \in Withdrawal THEN [record EXCEPT ![j] = "pending_review"] ELSE record
    /\ agentOrder' =
         IF j \in Dock
         THEN [agentOrder EXCEPT ![j] = IF pc[j] = "cut" THEN "delivered" ELSE "settled"]
         ELSE agentOrder

Commit(j) ==
    /\ Complete(j)
    /\ Publish(j)
    /\ Record(j)
    /\ Goto(j, "done")
    /\ Unlock(j)
    /\ UNCHANGED <<todo, progress>>

UnderWay(j) == pc[j] \in {"locking", "booking", "cut"}

\* Seeded fault: what was written before the failure stays.
AbortKeeping(j) ==
    /\ UnderWay(j)
    /\ Publish(j)
    /\ Goto(j, "failed")
    /\ Unlock(j)
    /\ UNCHANGED <<recharge, record, agentOrder, todo, progress>>

\* An exception, no contents for the pickup, a lost connection, a death.
Abort(j) == UnderWay(j) /\ Undo(j, "failed")

\* The sets of jobs that wait for one another in circles.
Circles ==
    {S \in SUBSET {j \in Job : Waits(j)} :
        /\ S # {}
        /\ \A j \in S : WaitsFor(j) \in S
        /\ \A j \in S : \E k \in S : WaitsFor(k) = j}

\* Seeded fault: a deadlock is not broken.
VictimNever(j) == j \notin Job /\ Undo(j, "failed")

\* InnoDB breaks a deadlock: one of the circle is rolled back.  (A delivery
\* then commits an agent order that is gone: that raises, and nothing stays.)
Victim(j) ==
    /\ j \in UNION Circles
    /\ Undo(j, "failed")
-----------------------------------------------------------------------------
(* review_withdraw_record: the status is read and written without a lock.  *)
SameRecord(r) == {k \in Review : ReviewOf[k] = ReviewOf[r]}

\* Seeded fault: a record that has its verdict is reviewed again.
ReadRecordAnyway(r) ==
    /\ r \in Review /\ pc[r] = "new"
    /\ record[ReviewOf[r]] # "none"
    /\ Overlap \/ \A k \in SameRecord(r) : pc[k] # "reviewing"
    /\ Goto(r, "reviewing")
    /\ UNCHANGED <<tables, holder, written, todo, progress>>

ReadRecord(r) ==
    /\ r \in Review /\ pc[r] = "new"
    /\ record[ReviewOf[r]] # "none"
    /\ Overlap \/ \A k \in SameRecord(r) : pc[k] # "reviewing"
    /\ Goto(r, IF record[ReviewOf[r]] = "pending_review" THEN "reviewing" ELSE "refused")
    /\ UNCHANGED <<tables, holder, written, todo, progress>>

WriteVerdict(r) ==
    /\ pc[r] = "reviewing"
    /\ record' = [record EXCEPT ![ReviewOf[r]] = Verdict[r]]
    /\ Goto(r, "done")
    /\ UNCHANGED <<balance, flows, recharge, agentOrder, holder, written, todo, progress>>
-----------------------------------------------------------------------------
Begin(j) ==
    \/ ReadOrder(j) \/ BeginSingle(j) \/ PreCheck(j) \/ BeginPickup(j)
    \/ ReadAdvert(j) \/ ReadRecord(j)

\* What a job does by itself once it has begun.
Continue(j) ==
    \/ LockParty(j) \/ CheckParties(j)
    \/ Book(j) \/ Refuse(j) \/ Commit(j)

Next ==
    \/ \E j \in Job \cup Review : Begin(j)
    \/ \E j \in Job : Continue(j) \/ CutOff(j) \/ Abort(j) \/ Victim(j)
    \/ \E r \in Review : WriteVerdict(r)

Spec == Init /\ [][Next]_vars

\* Requests run on, and InnoDB finds deadlocks at once.
Fairness == \A j \in Job : WF_vars(Continue(j)) /\ WF_vars(Victim(j))

FairSpec == Spec /\ Fairness
-----------------------------------------------------------------------------
Change == [user : User, amount : Int]

Flow == [job : Job, before : Int, after : Int]

Place == {"new", "locking", "booking", "reviewing", "cut", "done", "refused", "failed"}

TypeOK ==
    /\ balance \in [User -> Int]
    /\ flows \in [User -> Seq(Flow)]
    /\ recharge \in [Order -> {"pending", "paid"}]
    /\ record \in [Withdrawal -> {"none", "pending_review", "approved", "rejected"}]
    /\ agentOrder \in [Dock -> {"none", "delivered", "settled"}]
    /\ holder \in [User -> Job \cup {Free}]
    /\ written \in [User -> Seq(Flow)]
    /\ pc \in [Job \cup Review -> Place]
    /\ todo \in [Job -> Seq(Change)]
    /\ basis \in [Advert -> [User -> Int]]
    /\ seen \in [Delivery \cup Notice -> Nat]
    /\ quoted \in [Delivery -> Offer]
-----------------------------------------------------------------------------
\* The users whose balance no advert's payment reads.
Ordinary == User \ UNION {{Request[a].user, Payer(a)} : a \in Advert}

\* Every flow begins with the balance at which the user's flow before it
\* ended, and the balance is where the last one ended: checks 1 and 4 of
\* withdraw_risk_check.py, whatever overlaps, fails or is cut off.  Payers
\* and receivers of adverts are excepted: their balances are read unlocked.
FlowsContinuous ==
    \A u \in Ordinary :
        LET all == flows[u] \o written[u] IN
        /\ \A i \in 1..Len(all) :
             all[i].before = IF i = 1 THEN Opening[u] ELSE all[i - 1].after
        /\ balance[u] = IF flows[u] = <<>> THEN Opening[u] ELSE flows[u][Len(flows[u])].after

\* What the i-th entry, if there is one, books in the account of u.
Mine(entries, i, u) ==
    IF i \in DOMAIN entries /\ entries[i].user = u THEN <<entries[i].amount>> ELSE <<>>

Dues(entries, u) ==
    Mine(entries, 1, u) \o (Mine(entries, 2, u) \o (Mine(entries, 3, u)
        \o (Mine(entries, 4, u) \o Mine(entries, 5, u))))

Due(j, u) == Dues(Entries(j), u)

Own(j, u) == {i \in DOMAIN flows[u] : flows[u][i].job = j}

\* The flows of j in the account of u: these amounts, and nothing between.
Booked(j, u, amounts) ==
    \E n \in 0..Len(flows[u]) :
        /\ Own(j, u) = (n + 1)..(n + Len(amounts))
        /\ \A k \in 1..Len(amounts) :
             flows[u][n + k].after - flows[u][n + k].before = amounts[k]

\* A dealer of the second level who owns the cards pays the first level, and
\* is paid by it.
PaidBack(t) == t.level = 2 /\ t.dealer = t.owner

\* A settlement moved all its money or, if its agent order is absent, none.
\* One that was cut off (the order stays "delivered") has booked, for each
\* party, the first of its entries; everything or nothing, and nobody was
\* paid before the dealer, unless the dealer is to be paid back.
SettledInFull ==
    \A j \in Dock :
        /\ agentOrder[j] = "none" => \A u \in User : Booked(j, u, <<>>)
        /\ agentOrder[j] = "settled" => \A u \in User : Booked(j, u, Due(j, u))
        /\ agentOrder[j] = "delivered" =>
             \A u \in User : \E k \in 0..Len(Due(j, u)) : Booked(j, u, SubSeq(Due(j, u), 1, k))
        /\ agentOrder[j] = "delivered" /\ ~PaidBack(Terms[j]) =>
             /\ \A u \in User : Booked(j, u, <<>>) \/ Booked(j, u, Due(j, u))
             /\ (\E u \in User : ~Booked(j, u, <<>>)) =>
                  Booked(j, Terms[j].dealer, Due(j, Terms[j].dealer))

\* A recharge order is credited to its user, and again only by another of
\* its notices, which had read the order before the first credit was
\* committed.  (The comments in recharge_service.py say that the row lock
\* prevents that one as well: it does not.)
CreditedOnce ==
    \A u, v \in User : \A i \in DOMAIN flows[u], k \in DOMAIN flows[v] :
        LET a == flows[u][i].job
            b == flows[v][k].job
        IN  a \in Notice /\ b \in Notice /\ OrderOf[a] = OrderOf[b] =>
              u = v /\ (i < k => a # b /\ seen[b] < i)

\* What the settlement takes from the dealer, the fee too if nobody is named.
Charged(t) == Price(t) + (IF t.feePayer # "distributor" THEN t.fee ELSE 0)

\* Why the settlement of d may take the account of u below zero: a fee of
\* the owner's above the price; a dealer whose money somebody else has moved
\* since the check, or who is charged more than the check asked for; a first
\* level that pays more than it gets, which only an edit after the check does.
Uncovered(d, u) ==
    LET t == Terms[d] IN
    \/ u = t.owner /\ t.fee > t.cost
    \/ u = t.dealer /\ (Len(flows[u]) > seen[d] \/ Charged(t) > Required(quoted[d]))
    \/ u = t.level1 /\ Undersold(t) /\ ~Undersold(quoted[d])

\* Whoever takes an account below zero is a delivery for one of these
\* reasons; a pickup that charges its dealer a fee nobody was named to bear,
\* which its check ascribed to the owner; or an advert that writes back a
\* balance which was below zero when it was read.
OverdraftExplained ==
    [][\A u \in User : balance'[u] < balance[u] /\ balance'[u] < 0 =>
         \E j \in Dock \cup Advert :
            /\ pc[j] # "done" /\ pc'[j] = "done"
            /\ \/ j \in Delivery /\ Uncovered(j, u)
               \/ j \in Pickup /\ u = Terms[j].dealer /\ Terms[j].feePayer = "unset"
               \/ j \in Advert /\ u = Request[j].user /\ basis[j][u] < 0]_vars

\* Pickups, recharges and withdrawals never wait for one another in a
\* circle: _check_parties_balance locks in the order of the ids.
DeadlocksNeedDeliveries ==
    \A S \in Circles : S \cap Delivery # {}

\* A verdict stands, if reviews of a record do not overlap.
VerdictStands ==
    [][\A w \in Withdrawal : record[w] \in {"approved", "rejected"} => record'[w] = record[w]]_vars

\* A job that has begun ends, also when it meets a deadlock.
JobsEnd ==
    \A j \in Job : UnderWay(j) ~> ~UnderWay(j)

\* Without overlap and timeouts the wallet is a bank: a recharge is an
\* order's, whichever notice makes it.
Bookings ==
    {o \in Order : recharge[o] = "paid"} \cup {j \in Dock : agentOrder[j] = "settled"}
    \cup {j \in Single : pc[j] = "done"}

TheBank == INSTANCE Bank WITH
    Account <- User, Transfer <- Order \cup Single \cup Dock, made <- Bookings,
    Net <- [t \in Order \cup Single \cup Dock |-> [u \in User |->
              IF t \in Dock THEN NetOf(Settlement(Terms[t]), u)
              ELSE IF Request[t].user = u THEN Request[t].amount ELSE 0]]

ImplementsBank == TheBank!Spec
================================================================================
