------------------------------ MODULE WalletProofs -----------------------------
(***************************************************************************)
(* Proofs about Wallet, for any users, requests, prices and fees, however  *)
(* transactions overlap, wait, fail or are cut off.                        *)
(***************************************************************************)
EXTENDS Wallet, WellFoundedInduction, SequenceTheorems, TLAPS

(* What a job books is a sequence of changes.                              *)
LEMMA EntryTyped ==
    ASSUME NEW u \in User, NEW a \in Int
    PROVE  Entry(u, a) \in Seq(Change)
  <1>1. [user |-> u, amount |-> a] \in Change
    BY DEF Change
  <1>2. \A c \in Change : <<c>> \in Seq(Change)
    OBVIOUS
  <1>3. <<>> \in Seq(Change)
    OBVIOUS
  <1> QED
    BY <1>1, <1>2, <1>3 DEF Entry

LEMMA Concatenated ==
    ASSUME NEW S, NEW s \in Seq(S), NEW r \in Seq(S)
    PROVE  s \o r \in Seq(S)
  OBVIOUS

LEMMA EntriesTyped ==
    ASSUME NEW j \in Job
    PROVE  Entries(j) \in Seq(Change)
  <1>1. CASE j \in Dock
    <2> DEFINE t == Terms[j]
    <2>1. /\ t.dealer \in User /\ t.level1 \in User /\ t.owner \in User
          /\ t.cost \in Int /\ t.level2Cost \in Int /\ t.fee \in Int
      BY <1>1, WalletAssumption DEF Offer
    <2>0. \A s, r \in Seq(Change) : s \o r \in Seq(Change)
      BY Concatenated
    <2>2. Price(t) \in Int
      BY <2>1 DEF Price
    <2>9. -t.cost \in Int /\ -t.fee \in Int /\ -Price(t) \in Int
      BY <2>1, <2>2
    <2> HIDE DEF t
    <2>3. Income(t) \in Seq(Change)
      <3>1. /\ Entry(t.owner, t.cost) \in Seq(Change)
            /\ Entry(t.level1, t.level2Cost) \in Seq(Change)
            /\ Entry(t.level1, -t.cost) \in Seq(Change)
        BY <2>1, <2>9, EntryTyped
      <3>2. CASE t.level = 1
        BY <3>1, <3>2 DEF Income
      <3>3. CASE t.level # 1
        BY <2>0, <3>1, <3>3 DEF Income
      <3> QED
        BY <3>2, <3>3
    <2>4. /\ Entry(t.dealer, -Price(t)) \in Seq(Change)
          /\ Entry(t.dealer, -t.fee) \in Seq(Change)
          /\ Entry(t.owner, -t.fee) \in Seq(Change)
      BY <2>1, <2>9, EntryTyped
    <2>5. Settlement(t) \in Seq(Change)
      <3>1. CASE t.feePayer = "distributor"
        BY <2>0, <2>3, <2>4, <3>1 DEF Settlement
      <3>2. CASE t.feePayer # "distributor"
        BY <2>0, <2>3, <2>4, <3>2 DEF Settlement
      <3> QED
        BY <3>1, <3>2
    <2> QED
      BY <1>1, <2>5 DEF Entries, t
  <1>2. CASE j \notin Dock
    <2>1. Request[IF j \in Notice THEN OrderOf[j] ELSE j] \in Change
      BY <1>2, WalletAssumption DEF Change, Job
    <2> QED
      BY <1>2, <2>1 DEF Entries
  <1> QED
    BY <1>1, <1>2

LEMMA ValueTyped ==
    ASSUME TypeOK, NEW u \in User
    PROVE  Value(u) \in Int
  <1>1. CASE written[u] = <<>>
    BY <1>1 DEF TypeOK, Value
  <1>2. CASE written[u] # <<>>
    <2>1. written[u] \in Seq(Flow)
      BY DEF TypeOK
    <2>2. written[u][Len(written[u])] \in Flow
      BY <1>2, <2>1
    <2> QED
      BY <1>2, <2>2 DEF Value, Last, Flow
  <1> QED
    BY <1>1, <1>2

LEMMA ReceiptTyped ==
    ASSUME TypeOK, NEW a \in Advert
    PROVE  Receipt(a) \in Flow
  <1>1. Payer(a) \in User /\ a \in Job
    BY WalletAssumption DEF Payer, Job
  <1> QED
    BY <1>1 DEF TypeOK, Receipt, Flow

(* Every step keeps the types.                                             *)
LEMMA TypeStep == TypeOK /\ [Next]_vars => TypeOK'
  <1> SUFFICES ASSUME TypeOK, [Next]_vars
               PROVE  TypeOK'
    OBVIOUS
  <1> USE DEF TypeOK
  <1>1. ASSUME NEW j \in Job \cup Review, Begin(j)
        PROVE  TypeOK'
    <2>1. CASE BeginSingle(j) \/ BeginPickup(j) \/ ReadRecord(j)
      <3>1. pc' \in [Job \cup Review -> Place]
        <4>1. PICK place \in Place : pc' = [pc EXCEPT ![j] = place]
          BY <2>1 DEF BeginSingle, BeginPickup, ReadRecord, Goto, Place
        <4> QED
          BY <4>1
      <3> QED
        BY <2>1, <3>1 DEF BeginSingle, BeginPickup, ReadRecord, tables, progress
    <2>4. CASE ReadOrder(j)
      <3>1. pc' \in [Job \cup Review -> Place]
        <4>1. PICK place \in Place : pc' = [pc EXCEPT ![j] = place]
          BY <2>4 DEF ReadOrder, Goto, Place
        <4> QED
          BY <4>1
      <3>2. j \in Notice /\ Request[OrderOf[j]].user \in User
        BY <2>4, WalletAssumption DEF ReadOrder
      <3>3. seen' \in [Delivery \cup Notice -> Nat]
        BY <2>4, <3>2 DEF ReadOrder, SeeFlows
      <3> QED
        BY <2>4, <3>1, <3>3 DEF ReadOrder, tables
    <2>2. CASE PreCheck(j)
      <3>1. j \in Delivery /\ Terms[j].dealer \in User /\ Quotes[j] \subseteq Offer
        BY <2>2, WalletAssumption DEF PreCheck, Dock, Offer
      <3>2. PICK t \in Quotes[j] :
              /\ Goto(j, IF Undersold(t) \/ balance[t.dealer] < Required(t) THEN "refused" ELSE "booking")
              /\ quoted' = [quoted EXCEPT ![j] = t]
        BY <2>2 DEF PreCheck
      <3>3. t \in Offer
        BY <3>1, <3>2
      <3> HIDE DEF Offer
      <3>4. pc' \in [Job \cup Review -> Place] /\ quoted' \in [Delivery -> Offer]
        BY <3>2, <3>3 DEF Goto, Place
      <3>5. seen' \in [Delivery \cup Notice -> Nat]
        BY <2>2, <3>1 DEF PreCheck, SeeFlows
      <3> QED
        BY <2>2, <3>4, <3>5 DEF PreCheck, tables
    <2>3. CASE ReadAdvert(j)
      <3>1. pc' \in [Job \cup Review -> Place]
        BY <2>3 DEF ReadAdvert, Goto, Place
      <3>2. basis' \in [Advert -> [User -> Int]]
        BY <2>3 DEF ReadAdvert
      <3> QED
        BY <2>3, <3>1, <3>2 DEF ReadAdvert, tables
    <2> QED
      BY <1>1, <2>1, <2>2, <2>3, <2>4 DEF Begin
  <1>2. ASSUME NEW j \in Job, NEW place \in Place, Undo(j, place)
        PROVE  TypeOK'
    <2>1. pc' \in [Job \cup Review -> Place]
      BY <1>2 DEF Undo, Goto
    <2> QED
      BY <1>2, <2>1 DEF Undo, Unlock, tables, progress
  <1>3. ASSUME NEW j \in Job, LockParty(j)
        PROVE  TypeOK'
    BY <1>3 DEF LockParty, tables, progress
  <1>4. ASSUME NEW j \in Job, CheckParties(j)
        PROVE  TypeOK'
    <2>1. pc' \in [Job \cup Review -> Place]
      <3>1. PICK place \in Place : pc' = [pc EXCEPT ![j] = place]
        BY <1>4 DEF CheckParties, Goto, Place
      <3> QED
        BY <3>1
    <2>2. holder' \in [User -> Job \cup {Free}] /\ written' \in [User -> Seq(Flow)]
      <3>1. CASE Unlock(j)
        BY <3>1 DEF Unlock
      <3>2. CASE UNCHANGED <<holder, written>>
        BY <3>2
      <3> QED
        BY <1>4, <3>1, <3>2 DEF CheckParties
    <2> QED
      BY <1>4, <2>1, <2>2 DEF CheckParties, tables, progress
  <1>5. ASSUME NEW j \in Job, Book(j)
        PROVE  TypeOK'
    <2> DEFINE u == NextUser(j)
               f == [job |-> j, before |-> Base(j), after |-> Base(j) + Head(todo[j]).amount]
    <2>1. todo[j] \in Seq(Change) /\ todo[j] # <<>>
      BY <1>5 DEF Book, CanBook
    <2>2. Head(todo[j]) \in Change /\ Tail(todo[j]) \in Seq(Change)
      BY <2>1
    <2>3. u \in User /\ Head(todo[j]).amount \in Int
      BY <2>2 DEF NextUser, Change
    <2>4. f \in Flow
      <3>1. Base(j) \in Int
        BY <2>3, ValueTyped DEF Base
      <3> QED
        BY <2>3, <3>1 DEF Flow
    <2>5. /\ holder' = [holder EXCEPT ![u] = j]
          /\ written' = [written EXCEPT ![u] = Append(@, f)]
          /\ todo' = [todo EXCEPT ![j] = Tail(@)]
          /\ UNCHANGED <<tables, pc, progress>>
      BY <1>5 DEF Book, Write
    <2> HIDE DEF f, u
    <2>6. written' \in [User -> Seq(Flow)]
      BY <2>3, <2>4, <2>5
    <2>7. todo' \in [Job -> Seq(Change)]
      BY <2>2, <2>5
    <2> QED
      BY <2>3, <2>5, <2>6, <2>7 DEF tables, progress
  <1>6. ASSUME NEW j \in Job, Commit(j)
        PROVE  TypeOK'
    <2>1. pc' \in [Job \cup Review -> Place]
      BY <1>6 DEF Commit, Goto, Place
    <2>2. flows' \in [User -> Seq(Flow)] /\ balance' \in [User -> Int]
      <3>1. \A u \in User :
              (IF holder[u] = j THEN flows[u] \o written[u] ELSE flows[u]) \in Seq(Flow)
        OBVIOUS
      <3>2. ASSUME j \in Advert
            PROVE  <<Receipt(j)>> \in Seq(Flow)
        <4>1. Receipt(j) \in Flow
          BY <3>2, ReceiptTyped
        <4> QED
          BY <4>1
      <3>3. <<>> \in Seq(Flow)
        OBVIOUS
      <3>4. \A u \in User :
              (IF j \in Advert /\ u = Payer(j) THEN <<Receipt(j)>> ELSE <<>>) \in Seq(Flow)
        BY <3>2, <3>3
      <3>5. \A s, r \in Seq(Flow) : s \o r \in Seq(Flow)
        BY Concatenated
      <3>6. \A u \in User : flows'[u] \in Seq(Flow)
        BY <1>6, <3>1, <3>4, <3>5 DEF Commit, Publish
      <3>7. flows' = [u \in User |-> flows'[u]]
        BY <1>6 DEF Commit, Publish
      <3>8. balance' \in [User -> Int]
        BY <1>6, ValueTyped DEF Commit, Publish
      <3> QED
        BY <3>6, <3>7, <3>8
    <2>3. holder' \in [User -> Job \cup {Free}] /\ written' \in [User -> Seq(Flow)]
      BY <1>6 DEF Commit, Unlock
    <2>4. recharge' \in [Order -> {"pending", "paid"}]
      BY <1>6 DEF Commit, Record
    <2>5. record' \in [Withdrawal -> {"none", "pending_review", "approved", "rejected"}]
      BY <1>6 DEF Commit, Record
    <2>6. agentOrder' \in [Dock -> {"none", "delivered", "settled"}]
      BY <1>6 DEF Commit, Record
    <2> QED
      BY <1>6, <2>1, <2>2, <2>3, <2>4, <2>5, <2>6 DEF Commit, progress
  <1>7. ASSUME NEW j \in Job, CutOff(j)
        PROVE  TypeOK'
    <2>1. pc' \in [Job \cup Review -> Place]
      BY <1>7 DEF CutOff, Goto, Place
    <2> QED
      BY <1>7, <2>1 DEF CutOff, tables, progress
  <1>8. ASSUME NEW r \in Review, WriteVerdict(r)
        PROVE  TypeOK'
    <2>1. pc' \in [Job \cup Review -> Place]
      BY <1>8 DEF WriteVerdict, Goto, Place
    <2>2. record' \in [Withdrawal -> {"none", "pending_review", "approved", "rejected"}]
      BY <1>8, WalletAssumption DEF WriteVerdict
    <2> QED
      BY <1>8, <2>1, <2>2 DEF WriteVerdict, progress
  <1>9. CASE UNCHANGED vars
    BY <1>9 DEF vars, tables, progress
  <1>10. "refused" \in Place /\ "failed" \in Place
    BY DEF Place
  <1>11. ASSUME NEW j \in Job, Refuse(j) \/ Abort(j) \/ Victim(j)
         PROVE  TypeOK'
    BY <1>2, <1>10, <1>11 DEF Refuse, Abort, Victim
  <1> QED
    BY <1>1, <1>3, <1>4, <1>5, <1>6, <1>7, <1>8, <1>9, <1>11 DEF Next, Continue

\* The types hold, whatever overlaps or fails (the tables of the wallet).
THEOREM TypeCorrect == Spec => []TypeOK
  <1>1. Init => TypeOK
    <2> SUFFICES ASSUME Init PROVE TypeOK
      OBVIOUS
    <2>1. todo \in [Job -> Seq(Change)]
      BY EntriesTyped DEF Init
    <2>2. balance \in [User -> Int] /\ pc \in [Job \cup Review -> Place]
      BY WalletAssumption DEF Init, Place
    <2>3. quoted \in [Delivery -> Offer]
      BY WalletAssumption DEF Init, Dock
    <2> QED
      BY <2>1, <2>2, <2>3 DEF Init, TypeOK
  <1> QED
    BY <1>1, TypeStep, PTL DEF Spec
-----------------------------------------------------------------------------
(* A row is locked by a job that is under way; what is written under the   *)
(* lock is the holder's.                                                   *)
LocksInv ==
    \A u \in User :
        /\ holder[u] = Free => written[u] = <<>>
        /\ holder[u] # Free => UnderWay(holder[u])
        /\ \A i \in 1..Len(written[u]) : written[u][i].job = holder[u]

\* The end of a transaction.
LEMMA UnlockStep ==
    ASSUME TypeOK, LocksInv, NEW j \in Job, NEW place \in Place,
           Unlock(j), Goto(j, place)
    PROVE  LocksInv'
  <1> SUFFICES ASSUME NEW u \in User
               PROVE  /\ holder'[u] = Free => written'[u] = <<>>
                      /\ holder'[u] # Free => UnderWay(holder[u])'
                      /\ \A i \in 1..Len(written'[u]) : written'[u][i].job = holder'[u]
    BY DEF LocksInv, UnderWay
  <1>1. CASE holder[u] = j
    <2>1. holder'[u] = Free /\ written'[u] = <<>>
      BY <1>1 DEF Unlock
    <2> QED
      BY <2>1
  <1>2. CASE holder[u] # j
    <2>1. holder'[u] = holder[u] /\ written'[u] = written[u]
      BY <1>2 DEF Unlock
    <2>2. pc'[holder[u]] = pc[holder[u]]
      BY <1>2 DEF Goto, TypeOK
    <2> QED
      BY <2>1, <2>2 DEF LocksInv, UnderWay
  <1> QED
    BY <1>1, <1>2

\* A step of j that leaves the locks alone.
LEMMA MoveStep ==
    ASSUME TypeOK, LocksInv, NEW j, NEW place, Goto(j, place),
           UNCHANGED <<holder, written>>,
           UnderWay(j) => place \in {"locking", "booking", "cut"}
    PROVE  LocksInv'
  <1> SUFFICES ASSUME NEW u \in User, holder[u] # Free
               PROVE  UnderWay(holder[u])'
    BY DEF LocksInv
  <1>1. UnderWay(holder[u]) /\ holder[u] \in Job
    BY DEF LocksInv, TypeOK
  <1> QED
    BY <1>1 DEF UnderWay, Goto, TypeOK

LEMMA LocksStep == TypeOK /\ LocksInv /\ [Next]_vars => LocksInv'
  <1> SUFFICES ASSUME TypeOK, LocksInv, [Next]_vars
               PROVE  LocksInv'
    OBVIOUS
  <1>1. ASSUME NEW j \in Job \cup Review, Begin(j)
        PROVE  LocksInv'
    <2>1. PICK place \in Place : Goto(j, place)
      BY <1>1 DEF Begin, ReadOrder, BeginSingle, PreCheck, BeginPickup, ReadAdvert,
              ReadRecord, Place
    <2>2. UNCHANGED <<holder, written>> /\ pc[j] = "new"
      BY <1>1 DEF Begin, ReadOrder, BeginSingle, PreCheck, BeginPickup, ReadAdvert, ReadRecord
    <2>3. ~UnderWay(j)
      BY <2>2 DEF UnderWay
    <2> QED
      BY <2>1, <2>2, <2>3, MoveStep
  <1>2. ASSUME NEW j \in Job, LockParty(j)
        PROVE  LocksInv'
    <2> DEFINE v == NextParty(j)
    <2>1. /\ holder[v] = Free /\ holder' = [holder EXCEPT ![v] = j]
          /\ UNCHANGED <<written, pc>> /\ pc[j] = "locking"
      BY <1>2 DEF LockParty
    <2> HIDE DEF v
    <2> SUFFICES ASSUME NEW u \in User
                 PROVE  /\ holder'[u] = Free => written[u] = <<>>
                        /\ holder'[u] # Free => UnderWay(holder'[u])
                        /\ \A i \in 1..Len(written[u]) : written[u][i].job = holder'[u]
      BY <2>1 DEF LocksInv, UnderWay
    <2>2. CASE u = v
      <3>1. holder'[u] = j /\ written[u] = <<>>
        BY <2>1, <2>2 DEF LocksInv, TypeOK
      <3> QED
        BY <2>1, <3>1 DEF UnderWay
    <2>3. CASE u # v
      BY <2>1, <2>3 DEF LocksInv, TypeOK
    <2> QED
      BY <2>2, <2>3
  <1>3. ASSUME NEW j \in Job, CheckParties(j)
        PROVE  LocksInv'
    <2>1. "booking" \in Place /\ "refused" \in Place
      BY DEF Place
    <2>2. CASE Goto(j, "booking") /\ UNCHANGED <<holder, written>>
      BY <2>2, MoveStep
    <2>3. CASE Goto(j, "refused") /\ Unlock(j)
      BY <2>1, <2>3, UnlockStep
    <2> QED
      BY <1>3, <2>2, <2>3 DEF CheckParties
  <1>4. ASSUME NEW j \in Job, Book(j)
        PROVE  LocksInv'
    <2> DEFINE v == NextUser(j)
               f == [job |-> j, before |-> Base(j), after |-> Base(j) + Head(todo[j]).amount]
    <2>1. /\ holder[v] \in {Free, j} /\ pc[j] = "booking"
          /\ holder' = [holder EXCEPT ![v] = j]
          /\ written' = [written EXCEPT ![v] = Append(@, f)]
          /\ UNCHANGED pc
      BY <1>4 DEF Book, CanBook, Write
    <2>2. f.job = j
      OBVIOUS
    <2> HIDE DEF v, f
    <2> SUFFICES ASSUME NEW u \in User
                 PROVE  /\ holder'[u] = Free => written'[u] = <<>>
                        /\ holder'[u] # Free => UnderWay(holder'[u])
                        /\ \A i \in 1..Len(written'[u]) : written'[u][i].job = holder'[u]
      BY <2>1 DEF LocksInv, UnderWay
    <2>3. CASE u = v
      <3>1. holder'[u] = j /\ written'[u] = Append(written[u], f)
        BY <2>1, <2>3 DEF TypeOK
      <3>2. j # Free
        BY WalletAssumption
      <3>3. written[u] \in Seq(Flow)
        BY DEF TypeOK
      <3>4. \A i \in 1..Len(written[u]) : written[u][i].job = j
        BY <2>1, <2>3, <3>3 DEF LocksInv
      <3>5. \A i \in 1..Len(written'[u]) : written'[u][i].job = j
        BY <2>2, <3>1, <3>3, <3>4
      <3> QED
        BY <2>1, <3>1, <3>2, <3>5 DEF UnderWay
    <2>4. CASE u # v
      BY <2>1, <2>4 DEF LocksInv, TypeOK
    <2> QED
      BY <2>3, <2>4
  <1>5. ASSUME NEW j \in Job, Commit(j)
        PROVE  LocksInv'
    BY <1>5, UnlockStep DEF Commit, Place
  <1>6. ASSUME NEW j \in Job, NEW place \in Place, Undo(j, place)
        PROVE  LocksInv'
    BY <1>6, UnlockStep DEF Undo
  <1>7. ASSUME NEW j \in Job, Refuse(j) \/ Abort(j) \/ Victim(j)
        PROVE  LocksInv'
    <2>1. "refused" \in Place /\ "failed" \in Place
      BY DEF Place
    <2> QED
      BY <1>6, <1>7, <2>1 DEF Refuse, Abort, Victim
  <1>8. ASSUME NEW j \in Job, CutOff(j)
        PROVE  LocksInv'
    BY <1>8, MoveStep DEF CutOff
  <1>9. ASSUME NEW r \in Review, WriteVerdict(r)
        PROVE  LocksInv'
    <2>1. ~UnderWay(r) /\ Goto(r, "done") /\ UNCHANGED <<holder, written>>
      BY <1>9 DEF WriteVerdict, UnderWay
    <2> QED
      BY <2>1, MoveStep
  <1>10. CASE UNCHANGED vars
    BY <1>10 DEF vars, LocksInv, UnderWay
  <1> QED
    BY <1>1, <1>2, <1>3, <1>4, <1>5, <1>7, <1>8, <1>9, <1>10 DEF Next, Continue
-----------------------------------------------------------------------------
(* Sequences of flows that continue one another from an opening balance.   *)
Chain(s, opening) ==
    \A i \in 1..Len(s) : s[i].before = IF i = 1 THEN opening ELSE s[i - 1].after

End(s, opening) == IF s = <<>> THEN opening ELSE s[Len(s)].after

LEMMA ChainAppend ==
    ASSUME NEW s \in Seq(Flow), NEW f \in Flow, NEW b,
           Chain(s, b), f.before = End(s, b)
    PROVE  Chain(Append(s, f), b)
  <1> DEFINE t == Append(s, f)
  <1>1. /\ Len(t) = Len(s) + 1 /\ Len(s) \in Nat
        /\ \A i \in 1..Len(s) : t[i] = s[i]
        /\ t[Len(s) + 1] = f
    OBVIOUS
  <1>2. s = <<>> <=> Len(s) = 0
    OBVIOUS
  <1> HIDE DEF t
  <1> SUFFICES ASSUME NEW i \in 1..Len(t)
               PROVE  t[i].before = IF i = 1 THEN b ELSE t[i - 1].after
    BY DEF Chain, t
  <1>3. CASE i = Len(s) + 1
    BY <1>1, <1>2, <1>3 DEF End
  <1>4. CASE i \in 1..Len(s)
    BY <1>1, <1>4 DEF Chain
  <1> QED
    BY <1>1, <1>3, <1>4

LEMMA ChainPrefix ==
    ASSUME NEW s \in Seq(Flow), NEW r \in Seq(Flow), NEW b, Chain(s \o r, b)
    PROVE  Chain(s, b)
  <1>1. /\ Len(s) \in Nat /\ Len(r) \in Nat /\ Len(s \o r) = Len(s) + Len(r)
        /\ \A i \in 1..Len(s) : (s \o r)[i] = s[i]
    OBVIOUS
  <1> SUFFICES ASSUME NEW i \in 1..Len(s)
               PROVE  s[i].before = IF i = 1 THEN b ELSE s[i - 1].after
    BY DEF Chain
  <1>2. (s \o r)[i].before = IF i = 1 THEN b ELSE (s \o r)[i - 1].after
    BY <1>1 DEF Chain
  <1>3. i # 1 => i - 1 \in 1..Len(s)
    BY <1>1
  <1> QED
    BY <1>1, <1>2, <1>3

LEMMA EndConcat ==
    ASSUME NEW s \in Seq(Flow), NEW r \in Seq(Flow), NEW b
    PROVE  End(s \o r, b) = IF r = <<>> THEN End(s, b) ELSE r[Len(r)].after
  <1>1. CASE r = <<>>
    <2>1. s \o r = s
      BY <1>1
    <2> QED
      BY <1>1, <2>1
  <1>2. CASE r # <<>>
    <2>1. /\ Len(r) \in Nat /\ Len(r) > 0 /\ Len(s) \in Nat
          /\ Len(s \o r) = Len(s) + Len(r)
          /\ (s \o r)[Len(s) + Len(r)] = r[Len(r)]
          /\ s \o r # <<>>
      BY <1>2
    <2> QED
      BY <1>2, <2>1 DEF End
  <1> QED
    BY <1>1, <1>2

LEMMA ConcatAppend ==
    ASSUME NEW s \in Seq(Flow), NEW r \in Seq(Flow), NEW f \in Flow
    PROVE  s \o Append(r, f) = Append(s \o r, f)
  OBVIOUS

\* One user's part of FlowsContinuous.
Continuous(u) ==
    /\ Chain(flows[u] \o written[u], Opening[u])
    /\ balance[u] = End(flows[u], Opening[u])

LEMMA ContinuousAll == FlowsContinuous <=> \A u \in Ordinary : Continuous(u)
  BY DEF FlowsContinuous, Continuous, Chain, End

LEMMA ContinuousPrimed == FlowsContinuous' <=> \A u \in Ordinary : Continuous(u)'
  BY DEF FlowsContinuous, Continuous, Chain, End

\* An advert books its one income, to the administrator.
AdvertsInv == \A a \in Advert : todo[a] = <<>> \/ todo[a] = <<Request[a]>>

LEMMA AdvertsStep == TypeOK /\ AdvertsInv /\ [Next]_vars => AdvertsInv'
  <1> SUFFICES ASSUME TypeOK, AdvertsInv, [Next]_vars,
                      NEW a \in Advert
               PROVE  todo'[a] = <<>> \/ todo'[a] = <<Request[a]>>
    BY DEF AdvertsInv
  <1>1. CASE UNCHANGED todo
    BY <1>1 DEF AdvertsInv
  <1>2. CASE \E j \in Job : Book(j)
    <2>1. PICK j \in Job : Book(j)
      BY <1>2
    <2>2. todo' = [todo EXCEPT ![j] = Tail(@)] /\ todo[j] # <<>>
      BY <2>1 DEF Book, CanBook, Write
    <2>3. a \in Job
      BY DEF Job
    <2>4. CASE a = j
      <3>1. todo'[a] = Tail(todo[a]) /\ todo[a] = <<Request[a]>>
        BY <2>2, <2>3, <2>4 DEF TypeOK, AdvertsInv
      <3>2. Tail(<<Request[a]>>) = <<>>
        OBVIOUS
      <3> QED
        BY <3>1, <3>2
    <2>5. CASE a # j
      BY <2>2, <2>5 DEF TypeOK, AdvertsInv
    <2> QED
      BY <2>4, <2>5
  <1>3. ~(\E j \in Job : Book(j)) => UNCHANGED todo
    BY DEF Next, Begin, Continue, ReadOrder, BeginSingle, PreCheck, BeginPickup, ReadAdvert, ReadRecord,
           LockParty, CheckParties, Refuse, Commit, CutOff, Abort, Victim, Undo, WriteVerdict, vars
  <1> QED
    BY <1>1, <1>2, <1>3

LEMMA AdvertsInit == Init => AdvertsInv
  BY WalletAssumption DEF Init, AdvertsInv, Entries, Job

\* What the holder of the row reads is where its flows end.
LEMMA ValueIsEnd ==
    ASSUME TypeOK, NEW u \in User, Continuous(u)
    PROVE  Value(u) = End(flows[u] \o written[u], Opening[u])
  <1>1. flows[u] \in Seq(Flow) /\ written[u] \in Seq(Flow)
    BY DEF TypeOK
  <1> QED
    BY <1>1, EndConcat DEF Value, Last, Continuous

\* A rollback drops what was written last.
LEMMA ContinuousUnlock ==
    ASSUME TypeOK, FlowsContinuous, NEW j, Unlock(j), UNCHANGED <<balance, flows>>
    PROVE  FlowsContinuous'
  <1> SUFFICES ASSUME NEW u \in Ordinary
               PROVE  Continuous(u)'
    BY ContinuousPrimed
  <1>0. u \in User
    BY DEF Ordinary
  <1>1. Continuous(u) /\ flows[u] \in Seq(Flow) /\ written[u] \in Seq(Flow)
    BY <1>0, ContinuousAll DEF TypeOK
  <1>2. CASE holder[u] = j
    <2>1. written'[u] = <<>> /\ flows'[u] \o <<>> = flows[u]
      BY <1>0, <1>1, <1>2 DEF Unlock
    <2>2. Chain(flows[u], Opening[u])
      BY <1>1, ChainPrefix DEF Continuous
    <2> QED
      BY <1>1, <2>1, <2>2 DEF Continuous
  <1>3. CASE holder[u] # j
    BY <1>0, <1>1, <1>3 DEF Unlock, Continuous
  <1> QED
    BY <1>2, <1>3

LEMMA ContinuousStep ==
    TypeOK /\ LocksInv /\ AdvertsInv /\ FlowsContinuous /\ [Next]_vars => FlowsContinuous'
  <1> SUFFICES ASSUME TypeOK, LocksInv, AdvertsInv, FlowsContinuous, [Next]_vars
               PROVE  FlowsContinuous'
    OBVIOUS
  <1>1. ASSUME UNCHANGED <<balance, flows, written>>
        PROVE  FlowsContinuous'
    BY <1>1 DEF FlowsContinuous
  <1>2. ASSUME NEW j \in Job \cup Review, Begin(j)
        PROVE  FlowsContinuous'
    BY <1>1, <1>2 DEF Begin, ReadOrder, BeginSingle, PreCheck, BeginPickup, ReadAdvert,
                       ReadRecord, tables, progress
  <1>3. ASSUME NEW j \in Job, LockParty(j) \/ CutOff(j)
        PROVE  FlowsContinuous'
    BY <1>1, <1>3 DEF LockParty, CutOff, tables, progress
  <1>4. ASSUME NEW j \in Job, CheckParties(j)
        PROVE  FlowsContinuous'
    BY <1>1, <1>4, ContinuousUnlock DEF CheckParties, tables, progress
  <1>5. ASSUME NEW j \in Job, Book(j)
        PROVE  FlowsContinuous'
    <2> DEFINE v == NextUser(j)
               f == [job |-> j, before |-> Base(j), after |-> Base(j) + Head(todo[j]).amount]
    <2>1. /\ written' = [written EXCEPT ![v] = Append(@, f)]
          /\ UNCHANGED <<balance, flows>>
      BY <1>5 DEF Book, Write, tables, progress
    <2>2. f.before = Base(j)
      OBVIOUS
    <2>3. f \in Flow
      <3>1. Head(todo[j]) \in Change
        <4>1. todo[j] \in Seq(Change) /\ todo[j] # <<>>
          BY <1>5 DEF TypeOK, Book, CanBook
        <4> QED
          BY <4>1
      <3>2. v \in User /\ Head(todo[j]).amount \in Int
        BY <3>1 DEF NextUser, Change
      <3>3. Base(j) \in Int
        BY <3>2, ValueTyped DEF TypeOK, Base, v
      <3> QED
        BY <3>2, <3>3 DEF Flow
    <2> HIDE DEF f, v
    <2> SUFFICES ASSUME NEW u \in Ordinary
                 PROVE  Continuous(u)'
      BY ContinuousPrimed
    <2>0. u \in User
      BY DEF Ordinary
    <2>4. Continuous(u) /\ flows[u] \in Seq(Flow) /\ written[u] \in Seq(Flow)
      BY <2>0, ContinuousAll DEF TypeOK
    <2>5. CASE u = v
      <3>1. written'[u] = Append(written[u], f)
        <4>1. u \in DOMAIN written
          BY <2>0 DEF TypeOK
        <4>2. written' = [written EXCEPT ![u] = Append(@, f)]
          BY <2>1, <2>5
        <4> QED
          BY <4>1, <4>2
      <3>2. flows[u] \o written'[u] = Append(flows[u] \o written[u], f)
        <4>1. flows[u] \o Append(written[u], f) = Append(flows[u] \o written[u], f)
          BY <2>3, <2>4, ConcatAppend
        <4> QED
          BY <3>1, <4>1
      <3>3. f.before = End(flows[u] \o written[u], Opening[u])
        <4>1. f.before = Value(u)
          <5>1. CASE j \in Advert
            <6>1. todo[j] = <<Request[j]>>
              BY <1>5, <5>1 DEF Book, CanBook, AdvertsInv
            <6>2. v = Request[j].user
              BY <6>1 DEF v, NextUser
            <6> QED
              BY <2>5, <5>1, <6>2 DEF Ordinary
          <5>2. CASE j \notin Advert
            BY <2>2, <2>5, <5>2 DEF Base, v
          <5> QED
            BY <5>1, <5>2
        <4> QED
          BY <2>0, <2>4, <4>1, ValueIsEnd
      <3>4. flows[u] \o written[u] \in Seq(Flow)
        BY <2>4
      <3>5. Chain(Append(flows[u] \o written[u], f), Opening[u])
        BY <2>3, <2>4, <3>3, <3>4, ChainAppend DEF Continuous
      <3> QED
        BY <2>1, <2>4, <3>2, <3>5 DEF Continuous
    <2>6. CASE u # v
      <3>1. written'[u] = written[u]
        BY <2>1, <2>6 DEF TypeOK
      <3> QED
        BY <2>1, <2>4, <3>1 DEF Continuous
    <2> QED
      BY <2>5, <2>6
  <1>6. ASSUME NEW j \in Job, Commit(j)
        PROVE  FlowsContinuous'
    <2> SUFFICES ASSUME NEW u \in Ordinary
                 PROVE  Continuous(u)'
      BY ContinuousPrimed
    <2>0. u \in User
      BY DEF Ordinary
    <2>1. Continuous(u) /\ flows[u] \in Seq(Flow) /\ written[u] \in Seq(Flow)
      BY <2>0, ContinuousAll DEF TypeOK
    <2>5. ~(j \in Advert /\ u = Payer(j))
      BY DEF Ordinary
    <2>2. CASE holder[u] = j
      <3>1. /\ flows'[u] = flows[u] \o written[u] /\ written'[u] = <<>>
            /\ balance'[u] = Value(u)
        <4>1. flows[u] \o written[u] \in Seq(Flow)
          BY <2>1
        <4>2. (flows[u] \o written[u]) \o <<>> = flows[u] \o written[u]
          BY <4>1
        <4> QED
          BY <1>6, <2>0, <2>2, <2>5, <4>2 DEF Commit, Publish, Unlock
      <3>2. balance'[u] = End(flows'[u], Opening[u])
        BY <2>0, <2>1, <3>1, ValueIsEnd
      <3>3. flows'[u] \o written'[u] = flows[u] \o written[u]
        BY <2>1, <3>1
      <3> QED
        BY <2>1, <3>2, <3>3 DEF Continuous
    <2>3. CASE holder[u] # j
      <3>1. /\ flows'[u] = flows[u] /\ written'[u] = written[u]
            /\ balance'[u] = balance[u]
        <4>1. flows[u] \o <<>> = flows[u]
          BY <2>1
        <4> QED
          BY <1>6, <2>0, <2>3, <2>5, <4>1 DEF Commit, Publish, Unlock
      <3> QED
        BY <2>1, <3>1 DEF Continuous
    <2> QED
      BY <2>2, <2>3
  <1>7. ASSUME NEW j \in Job, Refuse(j) \/ Abort(j) \/ Victim(j)
        PROVE  FlowsContinuous'
    BY <1>7, ContinuousUnlock DEF Refuse, Abort, Victim, Undo, tables, progress
  <1>8. ASSUME NEW r \in Review, WriteVerdict(r)
        PROVE  FlowsContinuous'
    BY <1>1, <1>8 DEF WriteVerdict
  <1>9. CASE UNCHANGED vars
    BY <1>1, <1>9 DEF vars, tables, progress
  <1> QED
    BY <1>2, <1>3, <1>4, <1>5, <1>6, <1>7, <1>8, <1>9 DEF Next, Continue

\* Every ordinary user's flows continue one another and end at the balance, whatever
\* transactions overlap, wait for one another, fail or are cut off.
THEOREM FlowsStayContinuous == Spec => []FlowsContinuous
  <1>1. Init => LocksInv /\ AdvertsInv /\ FlowsContinuous
    <2> SUFFICES ASSUME Init PROVE LocksInv /\ FlowsContinuous
      BY AdvertsInit
    <2>1. \A u \in User : flows[u] = <<>> /\ written[u] = <<>> /\ flows[u] \o written[u] = <<>>
      BY DEF Init
    <2> QED
      BY <2>1 DEF Init, LocksInv, FlowsContinuous, Ordinary
  <1> QED
    BY <1>1, TypeCorrect, LocksStep, AdvertsStep, ContinuousStep, PTL DEF Spec
-----------------------------------------------------------------------------
(* Reviews of a record that do not overlap: whoever is about to write a    *)
(* verdict is the only one, and the record has none yet.                   *)
ReviewsInv ==
    /\ \A r \in Review : pc[r] = "reviewing" => record[ReviewOf[r]] = "pending_review"
    /\ \A r, k \in Review :
         pc[r] = "reviewing" /\ pc[k] = "reviewing" /\ ReviewOf[r] = ReviewOf[k] => r = k
    /\ \A w \in Withdrawal : record[w] # "none" => pc[w] = "done"

\* A job that leaves the records alone and is not done before.
LEMMA ReviewsMove ==
    ASSUME TypeOK, ReviewsInv, NEW j \in Job, NEW place,
           Goto(j, place), pc[j] # "done", UNCHANGED record
    PROVE  ReviewsInv'
  <1>1. \A r \in Review : pc'[r] = pc[r]
    BY WalletAssumption DEF Goto, TypeOK
  <1>2. \A w \in Withdrawal : record[w] # "none" => pc'[w] = "done"
    BY DEF ReviewsInv, Goto, TypeOK, Job, Single
  <1> QED
    BY <1>1, <1>2, WalletAssumption DEF ReviewsInv

LEMMA ReviewsStep ==
    ASSUME ~Overlap
    PROVE  TypeOK /\ ReviewsInv /\ [Next]_vars => ReviewsInv'
  <1> SUFFICES ASSUME TypeOK, ReviewsInv, [Next]_vars
               PROVE  ReviewsInv'
    OBVIOUS
  <1>1. ASSUME NEW r, ReadRecord(r)
        PROVE  ReviewsInv'
    <2>0. r \in Review
      BY <1>1 DEF ReadRecord
    <2>1. /\ UNCHANGED record
          /\ \A k \in Review : k # r => pc'[k] = pc[k]
          /\ \A w \in Withdrawal : pc'[w] = pc[w]
      BY <1>1, <2>0, WalletAssumption DEF ReadRecord, Goto, tables, TypeOK, Job, Single
    <2>2. pc'[r] = "reviewing" => record[ReviewOf[r]] = "pending_review"
      BY <1>1, <2>0 DEF ReadRecord, Goto, TypeOK
    <2>3. \A k \in Review : pc[k] = "reviewing" => ReviewOf[k] # ReviewOf[r]
      BY <1>1, <2>0 DEF ReadRecord, SameRecord
    <2>4. \A k \in Review : pc'[k] = "reviewing" => record[ReviewOf[k]] = "pending_review"
      BY <2>0, <2>1, <2>2 DEF ReviewsInv
    <2>5. \A l, k \in Review :
             pc'[l] = "reviewing" /\ pc'[k] = "reviewing" /\ ReviewOf[l] = ReviewOf[k] => l = k
      BY <2>0, <2>1, <2>3 DEF ReviewsInv
    <2> QED
      BY <2>1, <2>4, <2>5 DEF ReviewsInv
  <1>2. ASSUME NEW j \in Job \cup Review, Begin(j), ~ReadRecord(j)
        PROVE  ReviewsInv'
    <2>1. PICK place : Goto(j, place)
      BY <1>2 DEF Begin, ReadOrder, BeginSingle, PreCheck, BeginPickup, ReadAdvert
    <2>2. pc[j] # "done" /\ UNCHANGED record /\ j \in Job
      BY <1>2 DEF Begin, ReadOrder, BeginSingle, PreCheck, BeginPickup, ReadAdvert, tables, Job, Single, Dock
    <2> QED
      BY <2>1, <2>2, ReviewsMove
  <1>3. ASSUME NEW j \in Job, CheckParties(j) \/ CutOff(j)
        PROVE  ReviewsInv'
    <2>1. PICK place : Goto(j, place)
      BY <1>3 DEF CheckParties, CutOff
    <2>2. pc[j] # "done" /\ UNCHANGED record
      BY <1>3 DEF CheckParties, CutOff, tables
    <2> QED
      BY <2>1, <2>2, ReviewsMove
  <1>4. ASSUME NEW j \in Job, LockParty(j) \/ Book(j)
        PROVE  ReviewsInv'
    BY <1>4 DEF LockParty, Book, tables, ReviewsInv
  <1>5. ASSUME NEW j \in Job, Refuse(j) \/ Abort(j) \/ Victim(j)
        PROVE  ReviewsInv'
    <2>1. PICK place : Goto(j, place)
      BY <1>5 DEF Refuse, Abort, Victim, Undo
    <2>2. UNCHANGED record
      BY <1>5 DEF Refuse, Abort, Victim, Undo, tables
    <2>3. pc[j] # "done"
      <3>1. CASE Refuse(j) \/ Abort(j)
        BY <3>1 DEF Refuse, Abort, CanBook, UnderWay
      <3>2. CASE Victim(j)
        <4>1. Waits(j)
          BY <3>2 DEF Victim, Circles
        <4> QED
          BY <4>1 DEF Waits, WaitsFor
      <3> QED
        BY <1>5, <3>1, <3>2
    <2> QED
      BY <2>1, <2>2, <2>3, ReviewsMove
  <1>6. ASSUME NEW j \in Job, Commit(j)
        PROVE  ReviewsInv'
    <2>1. /\ Goto(j, "done") /\ pc[j] # "done"
          /\ record' = IF j \in Withdrawal THEN [record EXCEPT ![j] = "pending_review"] ELSE record
      BY <1>6 DEF Commit, Complete, Record
    <2>2. CASE j \in Withdrawal
      <3>1. record[j] = "none"
        BY <2>1, <2>2 DEF ReviewsInv
      <3>2. /\ \A r \in Review : pc'[r] = pc[r]
            /\ \A w \in Withdrawal : w # j => pc'[w] = pc[w] /\ record'[w] = record[w]
            /\ pc'[j] = "done"
        BY <2>1, <2>2, WalletAssumption DEF Goto, TypeOK, Job, Single
      <3>3. \A r \in Review : pc[r] = "reviewing" => ReviewOf[r] # j
        BY <3>1 DEF ReviewsInv
      <3>4. \A r \in Review : ReviewOf[r] \in Withdrawal
        BY WalletAssumption
      <3> QED
        BY <3>2, <3>3, <3>4 DEF ReviewsInv
    <2>3. CASE j \notin Withdrawal
      BY <2>1, <2>3, ReviewsMove
    <2> QED
      BY <2>2, <2>3
  <1>7. ASSUME NEW r \in Review, WriteVerdict(r)
        PROVE  ReviewsInv'
    <2>1. /\ record' = [record EXCEPT ![ReviewOf[r]] = Verdict[r]]
          /\ Goto(r, "done") /\ pc[r] = "reviewing"
      BY <1>7 DEF WriteVerdict
    <2>2. /\ \A k \in Review : k # r => pc'[k] = pc[k]
          /\ \A w \in Withdrawal : pc'[w] = pc[w]
          /\ pc'[r] = "done"
      BY <2>1, WalletAssumption DEF Goto, TypeOK, Job, Single
    <2>3. \A k \in Review : ReviewOf[k] \in Withdrawal
      BY WalletAssumption
    <2>4. \A k \in Review : k # r /\ pc[k] = "reviewing" => ReviewOf[k] # ReviewOf[r]
      BY <2>1 DEF ReviewsInv
    <2>5. \A w \in Withdrawal : w # ReviewOf[r] => record'[w] = record[w]
      BY <2>1 DEF TypeOK
    <2>6. record[ReviewOf[r]] # "none"
      BY <2>1 DEF ReviewsInv
    <2>7. \A k \in Review : pc'[k] = "reviewing" => record'[ReviewOf[k]] = "pending_review"
      BY <2>2, <2>3, <2>4, <2>5 DEF ReviewsInv
    <2>8. \A w \in Withdrawal : record'[w] # "none" => pc'[w] = "done"
      BY <2>2, <2>5, <2>6 DEF ReviewsInv
    <2> QED
      BY <2>2, <2>7, <2>8 DEF ReviewsInv
  <1>8. CASE UNCHANGED vars
    BY <1>8 DEF vars, tables, ReviewsInv
  <1> QED
    BY <1>1, <1>2, <1>3, <1>4, <1>5, <1>6, <1>7, <1>8 DEF Next, Continue

\* The verdict on a withdrawal stands, if reviews of it do not overlap.
THEOREM VerdictsStand ==
    ASSUME ~Overlap
    PROVE  Spec => VerdictStands
  <1>1. Init => ReviewsInv
    BY DEF Init, ReviewsInv
  <1>2. TypeOK /\ ReviewsInv /\ [Next]_vars =>
          [\A w \in Withdrawal : record[w] \in {"approved", "rejected"} => record'[w] = record[w]]_vars
    <2> SUFFICES ASSUME TypeOK, ReviewsInv, Next,
                        NEW w \in Withdrawal, record[w] \in {"approved", "rejected"}
                 PROVE  record'[w] = record[w]
      OBVIOUS
    <2>1. ASSUME NEW j \in Job, Commit(j)
          PROVE  record'[w] = record[w]
      <3>1. pc[j] # "done" /\ record' = IF j \in Withdrawal THEN [record EXCEPT ![j] = "pending_review"] ELSE record
        BY <2>1 DEF Commit, Complete, Record
      <3>2. pc[w] = "done"
        BY DEF ReviewsInv
      <3> QED
        BY <3>1, <3>2 DEF TypeOK
    <2>2. ASSUME NEW r \in Review, WriteVerdict(r)
          PROVE  record'[w] = record[w]
      <3>1. record[ReviewOf[r]] = "pending_review"
        BY <2>2 DEF WriteVerdict, ReviewsInv
      <3> QED
        BY <2>2, <3>1 DEF WriteVerdict, TypeOK
    <2>3. (\E j \in Job : Commit(j)) \/ (\E r \in Review : WriteVerdict(r)) \/ UNCHANGED record
      BY DEF Next, Begin, Continue, ReadOrder, BeginSingle, PreCheck, BeginPickup, ReadAdvert,
             ReadRecord, LockParty, CheckParties, Book, Refuse, CutOff, Abort, Victim, Undo, tables
    <2> QED
      BY <2>1, <2>2, <2>3
  <1> QED
    BY <1>1, <1>2, TypeCorrect, ReviewsStep, PTL DEF Spec, VerdictStands
-----------------------------------------------------------------------------
(* What a notice does under its lock: one entry, to the user of its order. *)
NoticesInv ==
    \A n \in Notice :
        /\ pc[n] \notin {"locking", "cut"}
        /\ todo[n] = <<>> \/ todo[n] = <<Request[OrderOf[n]]>>
        /\ \A u \in User : holder[u] = n => Len(written[u]) = 1 /\ todo[n] = <<>>

LEMMA NoticesStep == TypeOK /\ LocksInv /\ NoticesInv /\ [Next]_vars => NoticesInv'
  <1> SUFFICES ASSUME TypeOK, LocksInv, NoticesInv, [Next]_vars, NEW n \in Notice
               PROVE  /\ pc'[n] \notin {"locking", "cut"}
                      /\ todo'[n] = <<>> \/ todo'[n] = <<Request[OrderOf[n]]>>
                      /\ \A u \in User : holder'[u] = n => Len(written'[u]) = 1 /\ todo'[n] = <<>>
    BY DEF NoticesInv
  <1>0. /\ n \in Job /\ n \notin Single /\ n \notin Dock /\ n \notin Advert /\ n \notin Review
        /\ n # Free
    BY WalletAssumption DEF Job
  <1> DEFINE Same == /\ pc'[n] \notin {"locking", "cut"}
                     /\ todo'[n] = <<>> \/ todo'[n] = <<Request[OrderOf[n]]>>
                     /\ \A u \in User : holder'[u] = n => Len(written'[u]) = 1 /\ todo'[n] = <<>>
  <1>1. ASSUME NEW j, NEW place, Goto(j, place), j # n \/ place \notin {"locking", "cut"},
               UNCHANGED todo, UNCHANGED <<holder, written>> \/ Unlock(j)
        PROVE  Same
    <2>1. pc'[n] \notin {"locking", "cut"}
      BY <1>0, <1>1 DEF Goto, TypeOK, NoticesInv
    <2>2. CASE UNCHANGED <<holder, written>>
      BY <1>1, <2>1, <2>2 DEF NoticesInv
    <2>3. CASE Unlock(j)
      <3>1. \A u \in User : holder'[u] = n => holder[u] = n /\ written'[u] = written[u]
        BY <1>0, <2>3 DEF Unlock
      <3> QED
        BY <1>1, <2>1, <3>1 DEF NoticesInv
    <2> QED
      BY <1>1, <2>2, <2>3
  <1> HIDE DEF Same
  <1>2. ASSUME NEW j, Begin(j)
        PROVE  Same
    <2>1. PICK place : Goto(j, place) /\ (j # n \/ place \notin {"locking", "cut"})
      BY <1>0, <1>2 DEF Begin, ReadOrder, BeginSingle, PreCheck, BeginPickup, ReadAdvert, ReadRecord, Dock
    <2>2. UNCHANGED todo /\ UNCHANGED <<holder, written>>
      BY <1>2 DEF Begin, ReadOrder, BeginSingle, PreCheck, BeginPickup, ReadAdvert, ReadRecord
    <2> QED
      BY <1>1, <2>1, <2>2
  <1>3. ASSUME NEW j, CheckParties(j) \/ CutOff(j) \/ Refuse(j) \/ Abort(j) \/ Victim(j) \/ Commit(j)
                        \/ WriteVerdict(j)
        PROVE  Same
    <2>1. PICK place : Goto(j, place) /\ (j # n \/ place \notin {"locking", "cut"})
      BY <1>0, <1>3 DEF CheckParties, CutOff, Refuse, Abort, Victim, Undo, Commit, WriteVerdict, Dock
    <2>2. UNCHANGED todo /\ (UNCHANGED <<holder, written>> \/ Unlock(j))
      BY <1>3 DEF CheckParties, CutOff, Refuse, Abort, Victim, Undo, Commit, WriteVerdict
    <2> QED
      BY <1>1, <2>1, <2>2
  <1>4. ASSUME NEW p, LockParty(p)
        PROVE  Same
    <2>1. p # n /\ UNCHANGED <<written, pc, todo>> /\ holder' = [holder EXCEPT ![NextParty(p)] = p]
      BY <1>0, <1>4 DEF LockParty, Dock
    <2>2. \A u \in User : holder'[u] = n => holder[u] = n
      BY <2>1 DEF TypeOK
    <2> QED
      BY <2>1, <2>2 DEF NoticesInv, Same
  <1>5. ASSUME NEW j \in Job, Book(j)
        PROVE  Same
    <2> DEFINE v == NextUser(j)
               f == [job |-> j, before |-> Base(j), after |-> Base(j) + Head(todo[j]).amount]
    <2>1. /\ todo[j] # <<>> /\ holder[v] \in {Free, j}
          /\ holder' = [holder EXCEPT ![v] = j]
          /\ written' = [written EXCEPT ![v] = Append(@, f)]
          /\ todo' = [todo EXCEPT ![j] = Tail(@)]
          /\ UNCHANGED pc
      BY <1>5 DEF Book, CanBook, Write
    <2> HIDE DEF v, f
    <2>2. CASE j = n
      <3>1. todo[n] = <<Request[OrderOf[n]]>>
        BY <2>1, <2>2 DEF NoticesInv
      <3>2. todo'[n] = <<>>
        <4>1. Tail(<<Request[OrderOf[n]]>>) = <<>>
          OBVIOUS
        <4> QED
          BY <1>0, <2>1, <2>2, <3>1, <4>1 DEF TypeOK
      <3>3. todo[n] # <<>>
        BY <2>1, <2>2
      <3>4. \A u \in User : holder[u] # n
        BY <3>3 DEF NoticesInv
      <3>5. ASSUME NEW u \in User, holder'[u] = n
            PROVE  Len(written'[u]) = 1
        <4>1. u = v
          BY <2>1, <3>4, <3>5 DEF TypeOK
        <4>2. holder[u] = Free
          BY <2>1, <2>2, <3>4, <4>1
        <4>3. written[u] = <<>>
          BY <4>2 DEF LocksInv
        <4>4. written'[u] = Append(<<>>, f)
          BY <2>1, <4>1, <4>3 DEF TypeOK
        <4>5. Len(Append(<<>>, f)) = 1
          OBVIOUS
        <4> QED
          BY <4>4, <4>5
      <3> QED
        BY <2>1, <3>2, <3>5 DEF NoticesInv, Same
    <2>3. CASE j # n
      <3>1. todo'[n] = todo[n]
        BY <1>0, <2>1, <2>3 DEF TypeOK
      <3>2. \A u \in User : holder'[u] = n => holder[u] = n /\ written'[u] = written[u]
        BY <1>0, <2>1, <2>3 DEF TypeOK
      <3> QED
        BY <2>1, <3>1, <3>2 DEF NoticesInv, Same
    <2> QED
      BY <2>2, <2>3
  <1>6. ASSUME UNCHANGED vars
        PROVE  Same
    BY <1>6 DEF vars, NoticesInv, Same
  <1>7. Same
    <2>1. CASE \E j \in Job \cup Review : Begin(j)
      BY <1>2, <2>1
    <2>2. CASE \E j \in Job : Continue(j) \/ CutOff(j) \/ Abort(j) \/ Victim(j)
      BY <1>3, <1>4, <1>5, <2>2 DEF Continue
    <2>4. CASE \E r \in Review : WriteVerdict(r)
      BY <1>3, <2>4
    <2> QED
      BY <1>6, <2>1, <2>2, <2>4 DEF Next
  <1> QED
    BY <1>7 DEF Same

LEMMA NoticesInit == Init => NoticesInv
  BY WalletAssumption DEF Init, NoticesInv, Entries, Job

\* The only row a notice ever has is that of its order's user.
HomeInv == \A n \in Notice : \A u \in User : holder[u] = n => u = Request[OrderOf[n]].user

LEMMA HomeStep == TypeOK /\ NoticesInv /\ HomeInv /\ [Next]_vars => HomeInv'
  <1> SUFFICES ASSUME TypeOK, NoticesInv, HomeInv, [Next]_vars,
                      NEW n \in Notice, NEW u \in User, holder'[u] = n
               PROVE  u = Request[OrderOf[n]].user
    BY DEF HomeInv
  <1>0. n \notin Dock /\ n # Free
    BY WalletAssumption DEF Job
  <1>1. CASE holder[u] = n
    BY <1>1 DEF HomeInv
  <1>2. CASE holder[u] # n
    <2>1. ASSUME NEW j, Unlock(j) \/ UNCHANGED holder
          PROVE  FALSE
      BY <1>0, <1>2, <2>1 DEF Unlock
    <2>2. ASSUME NEW j, LockParty(j)
          PROVE  FALSE
      BY <1>0, <1>2, <2>2 DEF LockParty, TypeOK, Dock
    <2>3. ASSUME NEW j \in Job, Book(j)
          PROVE  u = Request[OrderOf[n]].user
      <3>1. j = n /\ u = NextUser(j) /\ todo[j] # <<>>
        BY <1>2, <2>3 DEF Book, CanBook, Write, TypeOK
      <3>2. todo[n] = <<Request[OrderOf[n]]>>
        BY <3>1 DEF NoticesInv
      <3> QED
        BY <3>1, <3>2 DEF NextUser
    <2>4. \/ UNCHANGED holder
          \/ \E j \in Job : Unlock(j) \/ LockParty(j) \/ Book(j)
      BY DEF Next, Begin, Continue, ReadOrder, BeginSingle, PreCheck, BeginPickup, ReadAdvert,
             ReadRecord, CheckParties, Refuse, Commit, CutOff, Abort, Victim, Undo, WriteVerdict, vars
    <2> QED
      BY <2>1, <2>2, <2>3, <2>4
  <1> QED
    BY <1>1, <1>2

(* An order is being credited by at most one notice, and only while it is  *)
(* pending; whoever has credited one has paid it.                          *)
OrdersInv ==
    /\ \A n \in Notice : pc[n] = "booking" => recharge[OrderOf[n]] = "pending"
    /\ \A n, k \in Notice :
         pc[n] = "booking" /\ pc[k] = "booking" /\ OrderOf[n] = OrderOf[k] => n = k
    /\ \A u \in User : \A i \in DOMAIN flows[u] :
         flows[u][i].job \in Notice => recharge[OrderOf[flows[u][i].job]] = "paid"

\* Steps that leave orders and flows alone and begin no notice.
LEMMA OrdersMove ==
    ASSUME TypeOK, OrdersInv, NEW j, NEW place, Goto(j, place),
           j \notin Notice \/ place # "booking", UNCHANGED <<recharge, flows>>
    PROVE  OrdersInv'
  <1>1. \A n \in Notice : pc'[n] = "booking" => pc[n] = "booking"
    BY DEF Goto, TypeOK, Job
  <1> QED
    BY <1>1 DEF OrdersInv

\* What a commit adds to the flows of a user is its own.
LEMMA CommitAdds ==
    ASSUME TypeOK, LocksInv, NEW j \in Job, Publish(j), NEW u \in User,
           NEW i \in DOMAIN flows'[u]
    PROVE  \/ i \in DOMAIN flows[u] /\ flows'[u][i] = flows[u][i]
           \/ flows'[u][i].job = j
  <1> DEFINE old == flows[u]
             own == IF holder[u] = j THEN written[u] ELSE <<>>
             receipt == IF j \in Advert /\ u = Payer(j) THEN <<Receipt(j)>> ELSE <<>>
  <1>1. old \in Seq(Flow) /\ own \in Seq(Flow) /\ \A k \in 1..Len(own) : own[k].job = j
    BY DEF TypeOK, LocksInv
  <1>2. receipt = <<>> \/ (receipt = <<Receipt(j)>> /\ Receipt(j).job = j /\ Receipt(j) \in Flow)
    BY ReceiptTyped DEF Receipt
  <1>3. flows'[u] = (old \o own) \o receipt
    <2>1. old \o <<>> = old
      BY <1>1
    <2> QED
      BY <2>1 DEF Publish
  <1> HIDE DEF old, own, receipt
  <1>4. old \o own \in Seq(Flow)
    BY <1>1
  <1>5. \A k \in 1..Len(old \o own) :
           \/ k \in 1..Len(old) /\ (old \o own)[k] = old[k]
           \/ (old \o own)[k].job = j
    BY <1>1
  <1>6. CASE receipt = <<>>
    <2>1. flows'[u] = old \o own
      BY <1>3, <1>4, <1>6
    <2>2. i \in 1..Len(old \o own)
      BY <1>4, <2>1
    <2> QED
      BY <1>1, <1>5, <2>1, <2>2 DEF old
  <1>7. CASE receipt = <<Receipt(j)>> /\ Receipt(j).job = j /\ Receipt(j) \in Flow
    <2> DEFINE all == old \o own
               e == Receipt(j)
    <2>1. flows'[u] = all \o <<e>> /\ all \in Seq(Flow) /\ e.job = j /\ e \in Flow
      BY <1>3, <1>4, <1>7
    <2> HIDE DEF all, e
    <2>2. \/ i \in 1..Len(all) /\ flows'[u][i] = all[i]
          \/ i = Len(all) + 1 /\ flows'[u][i] = e
      BY <2>1
    <2> QED
      BY <1>1, <1>5, <2>1, <2>2 DEF old, all
  <1> QED
    BY <1>2, <1>6, <1>7

LEMMA OrdersStep ==
    ASSUME ~Overlap
    PROVE  TypeOK /\ LocksInv /\ NoticesInv /\ OrdersInv /\ [Next]_vars => OrdersInv'
  <1> SUFFICES ASSUME TypeOK, LocksInv, NoticesInv, OrdersInv, [Next]_vars
               PROVE  OrdersInv'
    OBVIOUS
  <1>1. ASSUME NEW n, ReadOrder(n)
        PROVE  OrdersInv'
    <2>1. /\ n \in Notice /\ UNCHANGED <<recharge, flows>>
          /\ \A k \in Notice : k # n => pc'[k] = pc[k]
          /\ OrderOf[n] \in Order
      BY <1>1, WalletAssumption DEF ReadOrder, Goto, tables, TypeOK, Job
    <2>2. pc'[n] = "booking" => recharge[OrderOf[n]] = "pending"
      BY <1>1, <2>1 DEF ReadOrder, Goto, TypeOK, Job
    <2>3. \A k \in Notice : OrderOf[k] = OrderOf[n] => pc[k] # "booking"
      BY <1>1 DEF ReadOrder, SameOrder
    <2> QED
      BY <2>1, <2>2, <2>3 DEF OrdersInv
  <1>2. ASSUME NEW j, Begin(j), ~ReadOrder(j)
        PROVE  OrdersInv'
    <2>1. PICK place : Goto(j, place)
      BY <1>2 DEF Begin, BeginSingle, PreCheck, BeginPickup, ReadAdvert, ReadRecord
    <2>2. j \notin Notice /\ UNCHANGED <<recharge, flows>>
      BY <1>2, WalletAssumption DEF Begin, BeginSingle, PreCheck, BeginPickup, ReadAdvert, ReadRecord,
                                    tables, Job, Dock
    <2> QED
      BY <2>1, <2>2, OrdersMove
  <1>3. ASSUME NEW j, CheckParties(j) \/ CutOff(j) \/ Refuse(j) \/ Abort(j) \/ Victim(j) \/ WriteVerdict(j)
        PROVE  OrdersInv'
    <2>1. PICK place : Goto(j, place) /\ (j \notin Notice \/ place # "booking")
      BY <1>3, WalletAssumption DEF CheckParties, CutOff, Refuse, Abort, Victim, Undo, WriteVerdict, Dock
    <2>2. UNCHANGED <<recharge, flows>>
      BY <1>3 DEF CheckParties, CutOff, Refuse, Abort, Victim, Undo, WriteVerdict, tables
    <2> QED
      BY <2>1, <2>2, OrdersMove
  <1>4. ASSUME NEW j, LockParty(j) \/ Book(j)
        PROVE  OrdersInv'
    BY <1>4 DEF LockParty, Book, tables, OrdersInv
  <1>5. ASSUME NEW j \in Job, Commit(j)
        PROVE  OrdersInv'
    <2>1. /\ Publish(j) /\ Goto(j, "done")
          /\ recharge' = IF j \in Notice THEN [recharge EXCEPT ![OrderOf[j]] = "paid"] ELSE recharge
      BY <1>5 DEF Commit, Record
    <2>2. \A n \in Notice : pc'[n] = "booking" => n # j /\ pc[n] = "booking"
      BY <2>1 DEF Goto, TypeOK, Job
    <2>3. j \in Notice => pc[j] = "booking"
      BY <1>5 DEF Commit, Complete, NoticesInv
    <2>4. \A n \in Notice : OrderOf[n] \in Order
      BY WalletAssumption
    <2>5. ASSUME NEW n \in Notice, pc'[n] = "booking"
          PROVE  recharge'[OrderOf[n]] = "pending"
      <3>1. recharge[OrderOf[n]] = "pending"
        BY <2>2, <2>5 DEF OrdersInv
      <3>2. j \in Notice => OrderOf[j] # OrderOf[n]
        BY <2>2, <2>3, <2>5 DEF OrdersInv
      <3> QED
        BY <2>1, <2>4, <3>1, <3>2 DEF TypeOK
    <2>6. ASSUME NEW u \in User, NEW i \in DOMAIN flows'[u], flows'[u][i].job \in Notice
          PROVE  recharge'[OrderOf[flows'[u][i].job]] = "paid"
      <3>1. CASE i \in DOMAIN flows[u] /\ flows'[u][i] = flows[u][i]
        <4>1. recharge[OrderOf[flows'[u][i].job]] = "paid"
          BY <2>6, <3>1 DEF OrdersInv
        <4> QED
          BY <2>1, <2>4, <2>6, <4>1 DEF TypeOK
      <3>2. CASE flows'[u][i].job = j
        BY <2>1, <2>4, <2>6, <3>2 DEF TypeOK
      <3> QED
        BY <2>1, <3>1, <3>2, CommitAdds
    <2> QED
      BY <2>2, <2>5, <2>6 DEF OrdersInv
  <1>6. CASE UNCHANGED vars
    BY <1>6 DEF vars, tables, OrdersInv
  <1> QED
    <2>1. CASE \E j \in Job \cup Review : Begin(j)
      BY <1>1, <1>2, <2>1
    <2>2. CASE \E j \in Job : Continue(j) \/ CutOff(j) \/ Abort(j) \/ Victim(j)
      BY <1>3, <1>4, <1>5, <2>2 DEF Continue
    <2>3. CASE \E r \in Review : WriteVerdict(r)
      BY <1>3, <2>3
    <2> QED
      BY <1>6, <2>1, <2>2, <2>3 DEF Next

\* A commit keeps the flows there are.
LEMMA CommitKeeps ==
    ASSUME TypeOK, NEW j \in Job, Publish(j), NEW u \in User
    PROVE  /\ Len(flows[u]) \in Nat /\ Len(flows'[u]) \in Nat /\ Len(flows'[u]) >= Len(flows[u])
           /\ \A k \in DOMAIN flows[u] : k \in DOMAIN flows'[u] /\ flows'[u][k] = flows[u][k]
           /\ DOMAIN flows[u] = 1..Len(flows[u])
  <1> DEFINE own == IF holder[u] = j THEN written[u] ELSE <<>>
             receipt == IF j \in Advert /\ u = Payer(j) THEN <<Receipt(j)>> ELSE <<>>
  <1>1. flows[u] \in Seq(Flow) /\ own \in Seq(Flow)
    BY DEF TypeOK
  <1>2. receipt \in Seq(Flow)
    <2>1. \A f \in Flow : <<f>> \in Seq(Flow)
      OBVIOUS
    <2> QED
      BY <2>1, ReceiptTyped
  <1>3. flows'[u] = (flows[u] \o own) \o receipt
    <2>1. flows[u] \o <<>> = flows[u]
      BY <1>1
    <2> QED
      BY <2>1 DEF Publish
  <1> HIDE DEF own, receipt
  <1>4. \A r, t \in Seq(Flow) :
           /\ r \o t \in Seq(Flow) /\ Len(r) \in Nat /\ DOMAIN r = 1..Len(r) /\ Len(r \o t) >= Len(r)
           /\ \A k \in DOMAIN r : k \in DOMAIN (r \o t) /\ (r \o t)[k] = r[k]
    OBVIOUS
  <1> DEFINE all == flows[u] \o own
  <1>5. /\ all \in Seq(Flow) /\ Len(all) \in Nat /\ Len(all) >= Len(flows[u]) /\ Len(flows[u]) \in Nat
        /\ DOMAIN flows[u] = 1..Len(flows[u])
        /\ \A k \in DOMAIN flows[u] : k \in DOMAIN all /\ all[k] = flows[u][k]
    BY <1>1, <1>4
  <1>6. flows'[u] = all \o receipt
    BY <1>3
  <1> HIDE DEF all
  <1>7. /\ all \o receipt \in Seq(Flow) /\ Len(all \o receipt) >= Len(all)
        /\ \A k \in DOMAIN all : k \in DOMAIN (all \o receipt) /\ (all \o receipt)[k] = all[k]
    BY <1>2, <1>4, <1>5
  <1>8. Len(flows'[u]) \in Nat
    BY <1>4, <1>6, <1>7
  <1> QED
    BY <1>5, <1>6, <1>7, <1>8

\* The commit of a notice adds one flow, to the user whose row it has.
LEMMA NoticeAdds ==
    ASSUME TypeOK, NoticesInv, NEW j \in Notice, Publish(j), NEW w \in User, NEW m \in DOMAIN flows'[w],
           ~(m \in DOMAIN flows[w] /\ flows'[w][m] = flows[w][m])
    PROVE  holder[w] = j /\ m = Len(flows[w]) + 1
  <1>1. flows[w] \in Seq(Flow) /\ written[w] \in Seq(Flow)
    BY DEF TypeOK
  <1>2. flows[w] \o <<>> = flows[w] /\ (flows[w] \o written[w]) \o <<>> = flows[w] \o written[w]
    BY <1>1
  <1>3. flows'[w] = IF holder[w] = j THEN flows[w] \o written[w] ELSE flows[w]
    BY <1>2, WalletAssumption DEF Publish
  <1>4. holder[w] = j
    BY <1>3
  <1>5. Len(written[w]) = 1
    BY <1>4 DEF NoticesInv
  <1>6. m \in 1..(Len(flows[w]) + 1)
    <2>1. flows'[w] = flows[w] \o written[w] /\ m \in DOMAIN (flows[w] \o written[w])
      BY <1>3, <1>4
    <2>2. DOMAIN (flows[w] \o written[w]) = 1..(Len(flows[w]) + Len(written[w]))
      BY <1>1
    <2> QED
      BY <1>5, <2>1, <2>2
  <1>7. m \in 1..Len(flows[w]) => m \in DOMAIN flows[w] /\ flows'[w][m] = flows[w][m]
    BY <1>1, <1>3, <1>4
  <1> QED
    BY <1>1, <1>4, <1>6, <1>7

(* Who has credited an order is done, has done so once and has paid it; a  *)
(* notice that credits had seen no credit of its order among the flows     *)
(* there were when it read it.                                             *)
Home(n) == Request[OrderOf[n]].user

Credits(u) ==
    \A i \in DOMAIN flows[u] : flows[u][i].job \in Notice =>
        /\ u = Home(flows[u][i].job)
        /\ recharge[OrderOf[flows[u][i].job]] = "paid"
        /\ pc[flows[u][i].job] = "done"
        /\ \A k \in DOMAIN flows[u] : flows[u][k].job = flows[u][i].job => k = i

Unseen(n) ==
    /\ seen[n] <= Len(flows[Home(n)])
    /\ pc[n] \in {"booking", "done"} =>
         \A k \in 1..seen[n] : flows[Home(n)][k].job \in Notice =>
            OrderOf[flows[Home(n)][k].job] # OrderOf[n]

CreditsInv == (\A u \in User : Credits(u)) /\ (\A n \in Notice : Unseen(n))

\* Steps that leave orders and flows alone and begin or undo no notice.
LEMMA CreditsMove ==
    ASSUME CreditsInv, UNCHANGED <<recharge, flows>>,
           \A n \in Notice : /\ seen'[n] = seen[n]
                             /\ pc'[n] \in {"booking", "done"} => pc[n] \in {"booking", "done"}
                             /\ pc[n] = "done" => pc'[n] = "done"
    PROVE  CreditsInv'
  <1>1. ASSUME NEW u \in User PROVE Credits(u)'
    BY DEF CreditsInv, Credits, Home
  <1>2. ASSUME NEW n \in Notice PROVE Unseen(n)'
    BY DEF CreditsInv, Unseen, Home
  <1> QED
    BY <1>1, <1>2 DEF CreditsInv

\* A notice reads its order.
LEMMA CreditsRead ==
    ASSUME TypeOK, CreditsInv, NEW n, ReadOrder(n)
    PROVE  CreditsInv'
  <1>1. /\ n \in Notice /\ pc[n] = "new" /\ UNCHANGED <<recharge, flows>>
        /\ seen'[n] = Len(flows[Home(n)])
        /\ \A m \in Notice : m # n => pc'[m] = pc[m] /\ seen'[m] = seen[m]
        /\ pc'[n] = "booking" => recharge[OrderOf[n]] # "paid"
        /\ pc'[n] # "done"
    BY DEF ReadOrder, SeeFlows, Goto, tables, TypeOK, Job, Home
  <1>2. Home(n) \in User
    BY <1>1, WalletAssumption DEF Home
  <1>3. ASSUME NEW u \in User PROVE Credits(u)'
    BY <1>1 DEF CreditsInv, Credits, Home
  <1>4. ASSUME NEW m \in Notice, m # n PROVE Unseen(m)'
    BY <1>1, <1>4 DEF CreditsInv, Unseen, Home
  <1>5. Unseen(n)'
    <2>1. flows[Home(n)] \in Seq(Flow)
      BY <1>2 DEF TypeOK
    <2>2. Len(flows[Home(n)]) <= Len(flows[Home(n)]) /\ DOMAIN flows[Home(n)] = 1..Len(flows[Home(n)])
      BY <2>1
    <2>3. ASSUME pc'[n] = "booking", NEW k \in 1..Len(flows[Home(n)]), flows[Home(n)][k].job \in Notice
          PROVE  OrderOf[flows[Home(n)][k].job] # OrderOf[n]
      BY <1>1, <1>2, <2>2, <2>3 DEF CreditsInv, Credits
    <2>4. Home(n)' = Home(n)
      BY DEF Home
    <2> QED
      BY <1>1, <2>2, <2>3, <2>4 DEF Unseen
  <1> QED
    BY <1>3, <1>4, <1>5 DEF CreditsInv

\* A job commits.
LEMMA CreditsCommit ==
    ASSUME TypeOK, LocksInv, NoticesInv, HomeInv, CreditsInv, NEW j \in Job, Commit(j)
    PROVE  CreditsInv'
  <1>1. /\ Publish(j) /\ Goto(j, "done") /\ seen' = seen
        /\ recharge' = IF j \in Notice THEN [recharge EXCEPT ![OrderOf[j]] = "paid"] ELSE recharge
    BY DEF Commit, Record, progress
  <1>2. j \in Notice => pc[j] = "booking"
    BY DEF Commit, Complete, NoticesInv
  <1>3. \A n \in Notice : n \in Job /\ OrderOf[n] \in Order /\ Home(n) \in User
    BY WalletAssumption DEF Job, Home
  <1>4. /\ pc'[j] = "done"
        /\ \A n \in Notice : /\ n # j => pc'[n] = pc[n]
                             /\ pc'[n] \in {"booking", "done"} => pc[n] \in {"booking", "done"}
                             /\ pc[n] = "done" => pc'[n] = "done" /\ n # j
    BY <1>1, <1>2, <1>3 DEF Goto, TypeOK
  <1>5. \A o \in Order : recharge[o] = "paid" => recharge'[o] = "paid"
    BY <1>1 DEF TypeOK
  <1>6. ASSUME NEW u \in User, NEW i \in DOMAIN flows'[u], flows'[u][i].job \in Notice,
               NEW k \in DOMAIN flows'[u], flows'[u][k].job = flows'[u][i].job,
               NEW n \in Notice, n = flows'[u][i].job
        PROVE  /\ u = Home(n) /\ recharge'[OrderOf[n]] = "paid" /\ pc'[n] = "done"
               /\ k = i
    <2>1. CASE n = j
      <3>1. ASSUME NEW m \in DOMAIN flows'[u], flows'[u][m].job = j
            PROVE  holder[u] = j /\ m = Len(flows[u]) + 1
        <4>1. ~(m \in DOMAIN flows[u] /\ flows'[u][m] = flows[u][m])
          BY <1>2, <2>1, <3>1 DEF CreditsInv, Credits
        <4> QED
          BY <1>1, <2>1, <4>1, NoticeAdds
      <3>2. recharge'[OrderOf[n]] = "paid"
        BY <1>1, <1>3, <2>1 DEF TypeOK
      <3>3. holder[u] = j /\ i = Len(flows[u]) + 1 /\ k = Len(flows[u]) + 1
        BY <1>6, <2>1, <3>1
      <3> QED
        BY <1>4, <2>1, <3>2, <3>3 DEF HomeInv, Home
    <2>2. CASE n # j
      <3>1. /\ i \in DOMAIN flows[u] /\ flows'[u][i] = flows[u][i]
            /\ k \in DOMAIN flows[u] /\ flows'[u][k] = flows[u][k]
        BY <1>1, <1>6, <2>2, CommitAdds
      <3>2. /\ u = Home(n) /\ recharge[OrderOf[n]] = "paid" /\ pc[n] = "done" /\ k = i
        BY <1>6, <3>1 DEF CreditsInv, Credits
      <3> QED
        BY <1>3, <1>4, <1>5, <3>2
    <2> QED
      BY <2>1, <2>2
  <1>7. ASSUME NEW u \in User PROVE Credits(u)'
    <2>1. \A n : Home(n)' = Home(n)
      BY DEF Home
    <2> QED
      BY <1>6, <2>1 DEF Credits
  <1>8. ASSUME NEW n \in Notice PROVE Unseen(n)'
    <2> DEFINE u == Home(n)
    <2>1. u \in User /\ Home(n)' = u
      BY <1>3 DEF Home
    <2> HIDE DEF u
    <2>2. /\ Len(flows[u]) \in Nat /\ Len(flows'[u]) \in Nat /\ Len(flows'[u]) >= Len(flows[u])
          /\ \A k \in DOMAIN flows[u] : k \in DOMAIN flows'[u] /\ flows'[u][k] = flows[u][k]
          /\ DOMAIN flows[u] = 1..Len(flows[u])
      BY <1>1, <2>1, CommitKeeps
    <2>3. seen[n] <= Len(flows[u]) /\ seen[n] \in Nat /\ seen'[n] = seen[n]
      BY <1>1 DEF CreditsInv, Unseen, TypeOK, u
    <2>4. ASSUME NEW k \in 1..seen[n]
          PROVE  flows'[u][k] = flows[u][k]
      BY <2>2, <2>3
    <2>5. pc[n] \in {"booking", "done"} =>
            \A k \in 1..seen[n] : flows[u][k].job \in Notice => OrderOf[flows[u][k].job] # OrderOf[n]
      BY DEF CreditsInv, Unseen, u
    <2>6. seen'[n] <= Len(flows'[u])
      BY <2>2, <2>3
    <2> QED
      BY <1>4, <2>1, <2>3, <2>4, <2>5, <2>6 DEF Unseen
  <1> QED
    BY <1>7, <1>8 DEF CreditsInv

LEMMA CreditsStep ==
    TypeOK /\ LocksInv /\ NoticesInv /\ HomeInv /\ CreditsInv /\ [Next]_vars => CreditsInv'
  <1> SUFFICES ASSUME TypeOK, LocksInv, NoticesInv, HomeInv, CreditsInv, [Next]_vars
               PROVE  CreditsInv'
    OBVIOUS
  <1>0. \A n \in Notice : n \notin Dock /\ n \notin Single /\ n \notin Advert /\ n \notin Review
                          /\ n \notin Delivery
    BY WalletAssumption DEF Job, Dock
  <1>1. ASSUME NEW j, Begin(j), ~ReadOrder(j)
        PROVE  CreditsInv'
    <2>1. j \notin Notice /\ UNCHANGED <<recharge, flows>> /\ \E place : Goto(j, place)
      BY <1>0, <1>1 DEF Begin, BeginSingle, PreCheck, BeginPickup, ReadAdvert, ReadRecord, tables, Dock
    <2>2. \A n \in Notice : seen'[n] = seen[n]
      BY <1>1, <2>1 DEF Begin, BeginSingle, PreCheck, SeeFlows, BeginPickup, ReadAdvert, ReadRecord, progress,
                        TypeOK
    <2>3. \A n \in Notice : pc'[n] = pc[n]
      BY <2>1 DEF Goto, TypeOK, Job
    <2> QED
      BY <2>1, <2>2, <2>3, CreditsMove
  <1>2. ASSUME NEW j, CheckParties(j) \/ CutOff(j) \/ Refuse(j) \/ Abort(j) \/ Victim(j)
                        \/ (j \in Review /\ WriteVerdict(j))
        PROVE  CreditsInv'
    <2>1. PICK place : Goto(j, place) /\ (j \notin Notice \/ place \notin {"booking", "done"})
      BY <1>0, <1>2 DEF CheckParties, CutOff, Refuse, Abort, Victim, Undo, WriteVerdict, Dock
    <2>2. UNCHANGED <<recharge, flows>> /\ seen' = seen
      BY <1>2 DEF CheckParties, CutOff, Refuse, Abort, Victim, Undo, WriteVerdict, tables, progress
    <2>3. j \in Notice => pc[j] # "done"
      <3>1. CASE Refuse(j) \/ Abort(j)
        BY <3>1 DEF Refuse, CanBook, Abort, UnderWay
      <3>2. CASE Victim(j)
        <4>1. Waits(j)
          BY <3>2 DEF Victim, Circles
        <4> QED
          BY <4>1 DEF Waits, WaitsFor
      <3>3. CASE CheckParties(j) \/ CutOff(j) \/ WriteVerdict(j)
        BY <3>3 DEF CheckParties, CutOff, WriteVerdict
      <3> QED
        BY <1>2, <3>1, <3>2, <3>3
    <2>4. \A n \in Notice : /\ pc'[n] \in {"booking", "done"} => pc[n] \in {"booking", "done"}
                            /\ pc[n] = "done" => pc'[n] = "done"
      BY <2>1, <2>3 DEF Goto, TypeOK, Job
    <2> QED
      BY <2>2, <2>4, CreditsMove
  <1>3. ASSUME NEW j, LockParty(j) \/ Book(j)
        PROVE  CreditsInv'
    <2>1. UNCHANGED <<recharge, flows, pc, seen>>
      BY <1>3 DEF LockParty, Book, tables, progress
    <2> QED
      BY <2>1, CreditsMove
  <1>4. CASE UNCHANGED vars
    BY <1>4, CreditsMove DEF vars, tables, progress
  <1> QED
    <2>1. CASE \E j \in Job \cup Review : Begin(j)
      BY <1>1, <2>1, CreditsRead
    <2>2. CASE \E j \in Job : Continue(j) \/ CutOff(j) \/ Abort(j) \/ Victim(j)
      BY <1>2, <1>3, <2>2, CreditsCommit DEF Continue
    <2>3. CASE \E r \in Review : WriteVerdict(r)
      BY <1>2, <2>3
    <2> QED
      BY <1>4, <2>1, <2>2, <2>3 DEF Next

\* Two credits of an order go to one user, and the later one is another
\* notice's, which had read the order before the first was committed: also
\* with notices that overlap, whatever else goes on.
THEOREM RechargesCreditedOnce == Spec => []CreditedOnce
  <1>1. Init => LocksInv /\ NoticesInv /\ HomeInv /\ CreditsInv
    <2>1. Init => LocksInv /\ HomeInv
      BY WalletAssumption DEF Init, LocksInv, HomeInv, Job
    <2>2. ASSUME Init PROVE CreditsInv
      <3>1. \A n \in Notice : Home(n) \in User
        BY WalletAssumption DEF Home
      <3> QED
        BY <2>2, <3>1 DEF Init, CreditsInv, Credits, Unseen
    <2> QED
      BY <2>1, <2>2, NoticesInit
  <1>2. TypeOK /\ CreditsInv => CreditedOnce
    <2> SUFFICES ASSUME TypeOK, CreditsInv, NEW u \in User, NEW v \in User,
                        NEW i \in DOMAIN flows[u], NEW k \in DOMAIN flows[v],
                        flows[u][i].job \in Notice, flows[v][k].job \in Notice,
                        OrderOf[flows[u][i].job] = OrderOf[flows[v][k].job]
                 PROVE  u = v /\ (i < k => flows[u][i].job # flows[v][k].job
                                           /\ seen[flows[v][k].job] < i)
      BY DEF CreditedOnce
    <2> DEFINE a == flows[u][i].job
               b == flows[v][k].job
    <2>1. u = Home(a) /\ v = Home(b) /\ pc[b] = "done"
      BY DEF CreditsInv, Credits
    <2>2. u = v
      BY <2>1 DEF Home
    <2>3. ASSUME i < k
          PROVE  a # b /\ seen[b] < i
      <3>1. flows[u] \in Seq(Flow) /\ seen[b] \in Nat
        BY DEF TypeOK
      <3>2. i \in Nat /\ i >= 1 /\ k \in Nat
        BY <2>2, <3>1
      <3>3. a # b
        BY <2>2, <2>3, <3>2 DEF CreditsInv, Credits
      <3>4. ~(i \in 1..seen[b])
        BY <2>1, <2>2 DEF CreditsInv, Unseen
      <3> QED
        BY <3>1, <3>2, <3>3, <3>4
    <2> QED
      BY <2>2, <2>3
  <1> QED
    BY <1>1, <1>2, TypeCorrect, LocksStep, NoticesStep, HomeStep, CreditsStep, PTL DEF Spec
-----------------------------------------------------------------------------
(* Pickups lock in the order of the ids: whoever waits for a pickup that   *)
(* waits itself waits for a lower row.  The others hold no row while they  *)
(* wait, deliveries excepted.                                              *)

LEMMA LeastNat ==
    ASSUME NEW T, T \subseteq Nat, T # {}
    PROVE  \E x \in T : \A y \in T : x <= y
  <1> DEFINE R == {pair \in Nat \X Nat : pair[1] < pair[2]}
  <1>1. IsWellFoundedOn(R, Nat)
    BY NatLessThanWellFounded DEF OpToRel
  <1> HIDE DEF R
  <1>2. PICK x \in T : \A y \in T : ~(<<y, x>> \in R)
    BY <1>1, WFMin
  <1>3. \A y \in T : y < x => <<y, x>> \in R
    BY DEF R
  <1>4. \A y \in T : ~(y < x)
    BY <1>2, <1>3
  <1>5. \A y \in Nat : ~(y < x) => x <= y
    <2>1. x \in Nat
      OBVIOUS
    <2> QED
      BY <2>1
  <1> QED
    BY <1>4, <1>5

LEMMA SettlementTyped ==
    ASSUME NEW P, NEW t, t.dealer \in P, t.owner \in P, t.level # 1 => t.level1 \in P,
           t.cost \in Int, t.level2Cost \in Int, t.fee \in Int
    PROVE  Settlement(t) \in Seq([user : P, amount : Int])
  <1> DEFINE S == [user : P, amount : Int]
  <1>1. ASSUME NEW u \in P, NEW a \in Int PROVE Entry(u, a) \in Seq(S)
    <2>1. [user |-> u, amount |-> a] \in S /\ \A c \in S : <<c>> \in Seq(S)
      OBVIOUS
    <2> HIDE DEF S
    <2>2. <<>> \in Seq(S)
      OBVIOUS
    <2> QED
      BY <2>1, <2>2 DEF Entry
  <1> HIDE DEF S
  <1>2. \A s, r \in Seq(S) : s \o r \in Seq(S)
    BY Concatenated
  <1>3. Price(t) \in Int
    BY DEF Price
  <1>4. -t.cost \in Int /\ -t.fee \in Int /\ -Price(t) \in Int
    BY <1>3
  <1>5. Income(t) \in Seq(S)
    <2>1. Entry(t.owner, t.cost) \in Seq(S)
      BY <1>1
    <2>2. CASE t.level = 1
      BY <2>1, <2>2 DEF Income
    <2>3. CASE t.level # 1
      <3>1. Entry(t.level1, t.level2Cost) \in Seq(S) /\ Entry(t.level1, -t.cost) \in Seq(S)
        BY <1>1, <1>4, <2>3
      <3> QED
        BY <1>2, <2>1, <2>3, <3>1 DEF Income
    <2> QED
      BY <2>2, <2>3
  <1>6. /\ Entry(t.dealer, -Price(t)) \in Seq(S)
        /\ Entry(t.dealer, -t.fee) \in Seq(S)
        /\ Entry(t.owner, -t.fee) \in Seq(S)
    BY <1>1, <1>4
  <1>7. Settlement(t) \in Seq(S)
    <2>1. CASE t.feePayer = "distributor"
      BY <1>2, <1>5, <1>6, <2>1 DEF Settlement
    <2>2. CASE t.feePayer # "distributor"
      BY <1>2, <1>5, <1>6, <2>2 DEF Settlement
    <2> QED
      BY <2>1, <2>2
  <1> QED
    BY <1>7 DEF S

PartyChange(p) == [user : Parties(Terms[p]), amount : Int]

\* A job with one entry holds a row only when it is booked; a pickup holds
\* its lowest rows while it locks, and all of them when it books.
Lines(j) ==
    /\ j \notin Dock => /\ pc[j] # "locking" /\ Len(todo[j]) <= 1
                        /\ \A u \in User : holder[u] = j => todo[j] = <<>>
    /\ j \in Pickup =>
         /\ todo[j] \in Seq(PartyChange(j))
         /\ pc[j] = "booking" => Unlocked(j) = {}
         /\ pc[j] = "locking" =>
              \A u \in User : holder[u] = j => \A v \in Unlocked(j) : u < v

LinesInv == \A j \in Job : Lines(j)

LEMMA PartiesTyped ==
    ASSUME NEW p \in Dock PROVE Parties(Terms[p]) \subseteq User
  BY WalletAssumption DEF Parties, Offer

LEMMA NextPartyLeast ==
    ASSUME NEW p \in Pickup, Unlocked(p) # {}
    PROVE  /\ NextParty(p) \in Unlocked(p) /\ NextParty(p) \in User
           /\ \A v \in Unlocked(p) : NextParty(p) <= v
  <1>1. Unlocked(p) \subseteq User
    BY PartiesTyped DEF Unlocked, Dock
  <1>2. \E u \in Unlocked(p) : \A v \in Unlocked(p) : u <= v
    BY <1>1, LeastNat, WalletAssumption
  <1> QED
    BY <1>1, <1>2 DEF NextParty

LEMMA LinesInit == Init => LinesInv
  <1> SUFFICES ASSUME Init PROVE LinesInv
    OBVIOUS
  <1>1. ASSUME NEW j \in Job \ Dock PROVE Len(todo[j]) <= 1
    BY <1>1 DEF Init, Entries
  <1>2. ASSUME NEW p \in Pickup PROVE todo[p] \in Seq(PartyChange(p))
    <2>1. p \in Dock /\ p \in Job
      BY DEF Dock, Job
    <2>2. Terms[p] \in [level : {1, 2}, dealer : User, level1 : User, owner : User,
                        cost : Nat, level2Cost : Nat, fee : Nat,
                        feePayer : {"dealer", "distributor", "unset"}]
      BY <2>1, WalletAssumption DEF Offer
    <2> DEFINE t == Terms[p]
    <2>3. /\ t.dealer \in Parties(t) /\ t.owner \in Parties(t)
          /\ t.level # 1 => t.level1 \in Parties(t)
          /\ t.cost \in Int /\ t.level2Cost \in Int /\ t.fee \in Int
      BY <2>2 DEF Parties
    <2>4. todo[p] = Settlement(t)
      BY <2>1 DEF Init, Entries
    <2> HIDE DEF t
    <2>5. Settlement(t) \in Seq([user : Parties(t), amount : Int])
      BY <2>3, SettlementTyped
    <2> QED
      BY <2>4, <2>5 DEF PartyChange, t
  <1>3. \A j \in Job : pc[j] = "new" /\ \A u \in User : holder[u] # j
    BY WalletAssumption DEF Init
  <1> QED
    BY <1>1, <1>2, <1>3 DEF LinesInv, Lines, Job, Dock
\* A step of j concerns j alone.
LEMMA LinesOthers ==
    ASSUME LinesInv, NEW j,
           \A i \in Job \ {j} :
              /\ pc'[i] = pc[i] /\ todo'[i] = todo[i]
              /\ \A u \in User : holder'[u] = i <=> holder[u] = i,
           j \in Job => Lines(j)'
    PROVE  LinesInv'
  <1> SUFFICES ASSUME NEW i \in Job PROVE Lines(i)'
    BY DEF LinesInv
  <1>1. CASE i = j
    BY <1>1
  <1>2. CASE i # j
    <2>1. i \in Pickup => Unlocked(i)' = Unlocked(i)
      <3>1. ASSUME NEW u \in Parties(Terms[i]), i \in Pickup
            PROVE  holder'[u] = i <=> holder[u] = i
        BY <1>2, <3>1, PartiesTyped DEF Dock
      <3> QED
        BY <3>1 DEF Unlocked
    <2>2. /\ pc'[i] = pc[i] /\ todo'[i] = todo[i]
          /\ \A u \in User : holder'[u] = i <=> holder[u] = i
      BY <1>2
    <2>3. Lines(i)
      BY DEF LinesInv
    <2>4. CASE i \in Pickup
      <3>1. Unlocked(i)' = Unlocked(i)
        BY <2>1, <2>4
      <3> HIDE DEF Unlocked
      <3> QED
        BY <2>2, <2>3, <2>4, <3>1 DEF Lines, PartyChange, Dock
    <2>5. CASE i \notin Pickup
      BY <2>2, <2>3, <2>5 DEF Lines
    <2> QED
      BY <2>4, <2>5
  <1> QED
    BY <1>1, <1>2

\* The end of a transaction.
LEMMA LinesUnlock ==
    ASSUME TypeOK, LinesInv, NEW j \in Job, NEW place, place \notin {"locking", "booking"},
           Unlock(j), Goto(j, place), UNCHANGED todo
    PROVE  LinesInv'
  <1>1. \A i \in Job \ {j} : pc'[i] = pc[i]
    BY DEF Goto, TypeOK
  <1>2. pc'[j] = place
    BY DEF Goto, TypeOK
  <1>3. j # Free /\ \A i \in Job : i # Free
    BY WalletAssumption
  <1>4. /\ \A u \in User : holder'[u] # j
        /\ \A i \in Job \ {j} : \A u \in User : holder'[u] = i <=> holder[u] = i
    BY <1>3 DEF Unlock, TypeOK
  <1>5. Lines(j)'
    BY <1>2, <1>4 DEF LinesInv, Lines, PartyChange
  <1> QED
    BY <1>1, <1>4, <1>5, LinesOthers

\* A step of j that leaves the locks alone.
LEMMA LinesMove ==
    ASSUME TypeOK, LinesInv, NEW j, NEW place, Goto(j, place),
           UNCHANGED <<holder, todo>>,
           j \in Job /\ j \notin Dock => place # "locking",
           j \in Pickup => place \notin {"locking", "booking"} \/ Lines(j)'
    PROVE  LinesInv'
  <1>1. \A i \in Job \ {j} : pc'[i] = pc[i]
    BY DEF Goto, TypeOK
  <1>2. j \in Job => Lines(j)'
    <2>1. ASSUME j \in Job PROVE pc'[j] = place
      BY <2>1 DEF Goto, TypeOK
    <2> QED
      BY <2>1 DEF LinesInv, Lines, PartyChange, Dock
  <1> QED
    BY <1>1, <1>2, LinesOthers

LEMMA TailShort ==
    ASSUME NEW S, NEW s \in Seq(S), s # <<>>, Len(s) <= 1
    PROVE  Tail(s) = <<>>
  <1> DEFINE r == Tail(s)
  <1>1. Len(s) \in Nat /\ Len(s) # 0
    OBVIOUS
  <1>2. Len(s) = 1
    BY <1>1
  <1>3. r \in Seq(S)
    OBVIOUS
  <1>4. Len(r) = Len(s) - 1
    OBVIOUS
  <1> HIDE DEF r
  <1>5. Len(r) = 0
    BY <1>2, <1>4
  <1>6. r = <<>>
    BY <1>3, <1>5
  <1> QED
    BY <1>6 DEF r

LEMMA LinesStep == TypeOK /\ LocksInv /\ LinesInv /\ [Next]_vars => LinesInv'
  <1> SUFFICES ASSUME TypeOK, LocksInv, LinesInv, [Next]_vars
               PROVE  LinesInv'
    OBVIOUS
  <1>1. ASSUME NEW j \in Job \cup Review, Begin(j)
        PROVE  LinesInv'
    <2>1. CASE BeginPickup(j)
      <3>1. /\ j \in Pickup /\ j \in Job /\ pc[j] = "new" /\ Goto(j, "locking")
            /\ UNCHANGED <<holder, todo>>
        BY <2>1 DEF BeginPickup, Job, Dock
      <3>2. pc'[j] = "locking"
        BY <3>1 DEF Goto, TypeOK
      <3>3. \A u \in User : holder[u] # j
        BY <3>1, WalletAssumption DEF LocksInv, UnderWay
      <3>4. Lines(j)'
        BY <3>1, <3>2, <3>3 DEF LinesInv, Lines, PartyChange, Dock
      <3> QED
        BY <3>1, <3>4, LinesMove DEF Dock
    <2>2. CASE ~BeginPickup(j)
      <3>1. PICK place : Goto(j, place) /\ place # "locking"
        BY <1>1, <2>2 DEF Begin, ReadOrder, BeginSingle, PreCheck, ReadAdvert, ReadRecord
      <3>2. UNCHANGED <<holder, todo>> /\ j \in Notice \cup Single \cup Delivery \cup Advert \cup Review
        BY <1>1, <2>2 DEF Begin, ReadOrder, BeginSingle, PreCheck, ReadAdvert, ReadRecord
      <3>3. j \notin Pickup
        BY <3>2, WalletAssumption DEF Dock, Job
      <3> QED
        BY <3>1, <3>2, <3>3, LinesMove
    <2> QED
      BY <2>1, <2>2
  <1>2. ASSUME NEW j \in Job, LockParty(j)
        PROVE  LinesInv'
    <2> DEFINE v == NextParty(j)
    <2>1. /\ j \in Pickup /\ pc[j] = "locking" /\ Unlocked(j) # {}
          /\ holder[v] = Free /\ holder' = [holder EXCEPT ![v] = j]
          /\ UNCHANGED <<pc, todo>>
      BY <1>2 DEF LockParty
    <2>2. v \in Unlocked(j) /\ v \in User /\ \A x \in Unlocked(j) : v <= x
      BY <2>1, NextPartyLeast
    <2>3. Unlocked(j) \subseteq User
      BY <2>1, PartiesTyped DEF Unlocked, Dock
    <2> HIDE DEF v
    <2>4. /\ holder'[v] = j /\ \A u \in User \ {v} : holder'[u] = holder[u]
      BY <2>1, <2>2 DEF TypeOK
    <2>5. Unlocked(j)' = Unlocked(j) \ {v}
      BY <2>1, <2>3, <2>4, PartiesTyped DEF Unlocked, Dock
    <2>6. ASSUME NEW u \in User, holder'[u] = j, NEW x \in Unlocked(j) \ {v}
          PROVE  u < x
      <3>1. CASE u = v
        <4>1. v <= x /\ v # x /\ v \in Nat /\ x \in Nat
          BY <2>2, <2>3, <2>6, WalletAssumption
        <4> QED
          BY <3>1, <4>1
      <3>2. CASE u # v
        BY <2>1, <2>4, <2>6, <3>2 DEF LinesInv, Lines
      <3> QED
        BY <3>1, <3>2
    <2>7. Lines(j)'
      BY <2>1, <2>5, <2>6 DEF LinesInv, Lines, PartyChange, Dock
    <2>8. \A i \in Job : i # Free
      BY WalletAssumption
    <2>9. \A i \in Job \ {j} : \A u \in User : holder'[u] = i <=> holder[u] = i
      BY <2>1, <2>2, <2>4, <2>8
    <2> QED
      BY <2>1, <2>7, <2>9, LinesOthers
  <1>3. ASSUME NEW j \in Job, CheckParties(j)
        PROVE  LinesInv'
    <2>1. j \in Pickup /\ Unlocked(j) = {} /\ UNCHANGED todo
      BY <1>3 DEF CheckParties
    <2>2. CASE Goto(j, "booking") /\ UNCHANGED holder
      <3>1. pc'[j] = "booking"
        BY <2>2 DEF Goto, TypeOK
      <3>2. Lines(j)'
        BY <2>1, <2>2, <3>1 DEF LinesInv, Lines, PartyChange, Unlocked, Dock
      <3> QED
        BY <2>1, <2>2, <3>2, LinesMove DEF Dock
    <2>3. CASE Goto(j, "refused") /\ Unlock(j)
      BY <2>1, <2>3, LinesUnlock
    <2> QED
      BY <1>3, <2>2, <2>3 DEF CheckParties
  <1>4. ASSUME NEW j \in Job, Book(j)
        PROVE  LinesInv'
    <2> DEFINE v == NextUser(j)
    <2>1. /\ holder[v] \in {Free, j} /\ pc[j] = "booking" /\ todo[j] # <<>>
          /\ holder' = [holder EXCEPT ![v] = j]
          /\ todo' = [todo EXCEPT ![j] = Tail(@)]
          /\ UNCHANGED pc
      BY <1>4 DEF Book, CanBook, Write
    <2> HIDE DEF v
    <2>2. todo[j] \in Seq(Change) /\ todo'[j] = Tail(todo[j])
      BY <2>1 DEF TypeOK
    <2>3. \A i \in Job \ {j} : todo'[i] = todo[i]
      BY <2>1 DEF TypeOK
    <2>4. \A i \in Job : i # Free
      BY WalletAssumption
    <2>5. \A i \in Job \ {j} : \A u \in User : holder'[u] = i <=> holder[u] = i
      BY <2>1, <2>4 DEF TypeOK
    <2>6. CASE j \notin Dock
      <3>1. Len(todo[j]) <= 1
        BY <2>6 DEF LinesInv, Lines
      <3>a. \A s \in Seq(Change) : s # <<>> /\ Len(s) <= 1 => Tail(s) = <<>>
        BY TailShort
      <3>2. todo'[j] = <<>>
        BY <2>1, <2>2, <3>1, <3>a
      <3>3. pc'[j] = "booking" /\ j \notin Pickup
        BY <2>1, <2>6 DEF Dock
      <3> QED
        BY <2>1, <2>3, <2>5, <3>2, <3>3, LinesOthers DEF Lines
    <2>7. CASE j \in Dock
      <3>1. ASSUME j \in Pickup PROVE todo'[j] \in Seq(PartyChange(j)) /\ Unlocked(j)' = {}
        <4>1. todo[j] \in Seq(PartyChange(j)) /\ Unlocked(j) = {}
          BY <2>1, <3>1 DEF LinesInv, Lines
        <4>2. Tail(todo[j]) \in Seq(PartyChange(j))
          BY <2>1, <4>1
        <4>3. \A u \in Parties(Terms[j]) : holder[u] = j
          BY <4>1 DEF Unlocked
        <4>4. \A u \in Parties(Terms[j]) : holder'[u] = j
          BY <2>1, <2>7, <4>3, PartiesTyped DEF TypeOK
        <4> QED
          BY <2>2, <4>2, <4>4 DEF Unlocked
      <3>2. Lines(j)'
        BY <2>1, <2>7, <3>1 DEF Lines, PartyChange
      <3> QED
        BY <2>1, <2>3, <2>5, <3>2, LinesOthers
    <2> QED
      BY <2>6, <2>7
  <1>5. ASSUME NEW j \in Job, Commit(j)
        PROVE  LinesInv'
    BY <1>5, LinesUnlock DEF Commit
  <1>6. ASSUME NEW j \in Job, Refuse(j) \/ Abort(j) \/ Victim(j)
        PROVE  LinesInv'
    <2>1. PICK place \in {"refused", "failed"} : Undo(j, place)
      BY <1>6 DEF Refuse, Abort, Victim
    <2> QED
      BY <2>1, LinesUnlock DEF Undo
  <1>7. ASSUME NEW j \in Job, CutOff(j)
        PROVE  LinesInv'
    <2>1. j \in Delivery /\ Goto(j, "cut") /\ UNCHANGED <<holder, todo>>
      BY <1>7 DEF CutOff
    <2> QED
      BY <2>1, LinesMove
  <1>8. ASSUME NEW r \in Review, WriteVerdict(r)
        PROVE  LinesInv'
    <2>1. r \notin Job /\ Goto(r, "done") /\ UNCHANGED <<holder, todo>>
      BY <1>8, WalletAssumption DEF WriteVerdict
    <2> QED
      BY <2>1, LinesMove
  <1>9. CASE UNCHANGED vars
    BY <1>9 DEF vars, LinesInv, Lines, PartyChange, Unlocked
  <1> QED
    BY <1>1, <1>2, <1>3, <1>4, <1>5, <1>6, <1>7, <1>8, <1>9 DEF Next, Continue

\* Who waits without being a delivery, and is waited for, is a pickup that
\* locks; the row it waits for is above all it holds.
LEMMA WaiterLocks ==
    ASSUME TypeOK, LinesInv, NEW j \in Job, j \notin Delivery, Waits(j),
           NEW u \in User, holder[u] = j
    PROVE  /\ j \in Pickup /\ Unlocked(j) # {}
           /\ WaitsFor(j) = holder[NextParty(j)]
           /\ NextParty(j) \in User /\ u < NextParty(j)
  <1>1. CASE j \notin Dock
    <2>1. pc[j] # "locking" /\ todo[j] = <<>>
      BY <1>1 DEF LinesInv, Lines
    <2>2. WaitsFor(j) = Free
      BY <2>1 DEF WaitsFor
    <2> QED
      BY <2>2 DEF Waits
  <1>2. CASE j \in Dock
    <2>1. j \in Pickup
      BY <1>2 DEF Dock
    <2>2. pc[j] = "locking"
      <3>1. ASSUME pc[j] = "booking", todo[j] # <<>>
            PROVE  holder[NextUser(j)] = j
        <4>1. todo[j] \in Seq(PartyChange(j)) /\ Unlocked(j) = {}
          BY <2>1, <3>1 DEF LinesInv, Lines
        <4>2. Head(todo[j]) \in PartyChange(j)
          BY <3>1, <4>1
        <4> QED
          BY <4>1, <4>2 DEF PartyChange, NextUser, Unlocked
      <3>2. WaitsFor(j) \notin {Free, j}
        BY DEF Waits
      <3> QED
        BY <3>1, <3>2 DEF WaitsFor
    <2>3. Unlocked(j) # {} /\ WaitsFor(j) = holder[NextParty(j)]
      BY <2>2 DEF WaitsFor, Waits
    <2>4. NextParty(j) \in Unlocked(j) /\ NextParty(j) \in User
      BY <2>1, <2>3, NextPartyLeast
    <2> QED
      BY <2>1, <2>2, <2>3, <2>4 DEF LinesInv, Lines
  <1> QED
    BY <1>1, <1>2

LEMMA NoPickupCircle ==
    ASSUME TypeOK, LinesInv PROVE DeadlocksNeedDeliveries
  <1> SUFFICES ASSUME NEW S \in Circles, S \cap Delivery = {} PROVE FALSE
    BY DEF DeadlocksNeedDeliveries
  <1>1. /\ S # {} /\ \A j \in S : j \in Job /\ j \notin Delivery /\ Waits(j)
        /\ \A j \in S : \E k \in S : WaitsFor(k) = j
    BY DEF Circles
  <1>2. \A j \in S : \E u \in User : holder[u] = j
    <2> SUFFICES ASSUME NEW j \in S PROVE \E u \in User : holder[u] = j
      OBVIOUS
    <2>1. PICK k \in S : WaitsFor(k) = j
      BY <1>1
    <2>2. k \in Job /\ WaitsFor(k) # Free
      BY <1>1 DEF Waits
    <2>3. CASE pc[k] = "booking" /\ todo[k] # <<>> /\ WaitsFor(k) = holder[NextUser(k)]
      <3>1. todo[k] \in Seq(Change)
        BY <2>2 DEF TypeOK
      <3>2. Head(todo[k]) \in Change
        BY <2>3, <3>1
      <3>3. NextUser(k) \in User
        BY <3>2 DEF NextUser, Change
      <3> QED
        BY <2>1, <2>3, <3>3
    <2>4. CASE pc[k] = "locking" /\ Unlocked(k) # {} /\ WaitsFor(k) = holder[NextParty(k)]
      <3>1. k \in Dock
        BY <2>2, <2>4 DEF LinesInv, Lines
      <3>2. k \in Pickup
        BY <1>1, <3>1 DEF Dock
      <3> QED
        BY <2>1, <2>4, <3>2, NextPartyLeast
    <2> QED
      BY <2>2, <2>3, <2>4 DEF WaitsFor
  <1>3. \A j \in S : /\ NextParty(j) \in User /\ WaitsFor(j) = holder[NextParty(j)]
                     /\ \A u \in User : holder[u] = j => u < NextParty(j)
    BY <1>1, <1>2, WaiterLocks
  <1>0. User \subseteq Nat
    BY WalletAssumption
  <1>4. PICK j \in S : \A k \in S : NextParty(j) <= NextParty(k)
    <2> DEFINE rows == {NextParty(j) : j \in S}
    <2>1. rows \subseteq Nat
      BY <1>0, <1>3
    <2>2. rows # {}
      BY <1>1
    <2>3. PICK x \in rows : \A y \in rows : x <= y
      <3> HIDE DEF rows
      <3> QED
        BY <2>1, <2>2, LeastNat
    <2>4. PICK j \in S : x = NextParty(j)
      BY <2>3
    <2> QED
      BY <2>3, <2>4
  <1>5. PICK k \in S : WaitsFor(k) = j
    BY <1>1
  <1>6. NextParty(k) < NextParty(j)
    BY <1>3, <1>5
  <1>7. NextParty(j) \in Nat /\ NextParty(k) \in Nat /\ NextParty(j) <= NextParty(k)
    BY <1>0, <1>3, <1>4
  <1> QED
    BY <1>6, <1>7

\* Whatever requests there are, a deadlock of the balance rows has a dock
\* delivery in it: pickups lock in the order of the ids, and all others lock
\* one row and wait for no second.
THEOREM DeadlocksHaveDeliveries == Spec => []DeadlocksNeedDeliveries
  <1>1. Init => LocksInv /\ LinesInv
    BY LinesInit DEF Init, LocksInv
  <1>2. TypeOK /\ LocksInv /\ LinesInv /\ [Next]_vars => LinesInv'
    BY LinesStep
  <1>3. TypeOK /\ LinesInv => DeadlocksNeedDeliveries
    BY NoPickupCircle
  <1> QED
    BY <1>1, <1>2, <1>3, TypeCorrect, LocksStep, PTL DEF Spec
-----------------------------------------------------------------------------
(* What entries add up to, and the bank.                                   *)
LEMMA PartTyped ==
    ASSUME NEW s \in Seq(Change), NEW i, NEW u
    PROVE  Part(s, i, u) \in Int
  <1>1. ASSUME i \in DOMAIN s PROVE s[i] \in Change
    BY <1>1
  <1> QED
    BY <1>1 DEF Part, Change

LEMMA NetTyped ==
    ASSUME NEW s \in Seq(Change), NEW u
    PROVE  NetOf(s, u) \in Int
  BY PartTyped DEF NetOf

\* The first entry and the rest.
LEMMA NetTail ==
    ASSUME NEW s \in Seq(Change), NEW u, s # <<>>, Len(s) <= 5
    PROVE  NetOf(s, u) = (IF Head(s).user = u THEN Head(s).amount ELSE 0) + NetOf(Tail(s), u)
  <1> DEFINE r == Tail(s)
  <1>1. /\ r \in Seq(Change) /\ Len(s) \in 1..5 /\ Len(r) = Len(s) - 1
        /\ DOMAIN s = 1..Len(s) /\ DOMAIN r = 1..Len(r)
        /\ Head(s) = s[1] /\ \A i \in 1..Len(r) : r[i] = s[i + 1]
    <2>0. Len(s) \in Nat /\ Len(s) # 0
      OBVIOUS
    <2>4. Len(s) \in 1..5
      <3>1. \A n \in Nat : n # 0 /\ n <= 5 => n \in 1..5
        OBVIOUS
      <3> QED
        BY <2>0, <3>1
    <2>5. r \in Seq(Change)
      OBVIOUS
    <2>6. Len(r) = Len(s) - 1
      OBVIOUS
    <2>7. Head(s) = s[1]
      OBVIOUS
    <2>1. r \in Seq(Change) /\ Len(s) \in 1..5 /\ Len(r) = Len(s) - 1 /\ Head(s) = s[1]
      BY <2>4, <2>5, <2>6, <2>7
    <2>2. \A i \in 1..Len(r) : r[i] = s[i + 1]
      OBVIOUS
    <2> HIDE DEF r
    <2>3. DOMAIN s = 1..Len(s) /\ DOMAIN r = 1..Len(r)
      BY <2>1
    <2> QED
      BY <2>1, <2>2, <2>3
  <1> HIDE DEF r
  <1>2. \A i \in 1..4 : i \in DOMAIN r <=> i + 1 \in DOMAIN s
    BY <1>1
  <1>3. \A i \in 1..4 : Part(r, i, u) = Part(s, i + 1, u)
    BY <1>1, <1>2 DEF Part
  <1>4. /\ Part(r, 1, u) = Part(s, 2, u) /\ Part(r, 2, u) = Part(s, 3, u)
        /\ Part(r, 3, u) = Part(s, 4, u) /\ Part(r, 4, u) = Part(s, 5, u)
    <2>1. 1 + 1 = 2 /\ 2 + 1 = 3 /\ 3 + 1 = 4 /\ 4 + 1 = 5 /\ {1, 2, 3, 4} \subseteq 1..4
      OBVIOUS
    <2> QED
      BY <1>3, <2>1
  <1>5. Part(r, 5, u) = 0
    <2>1. 5 \notin DOMAIN r
      BY <1>1
    <2> QED
      BY <2>1 DEF Part
  <1>6. Part(s, 1, u) = IF Head(s).user = u THEN Head(s).amount ELSE 0
    BY <1>1 DEF Part
  <1>7. /\ Part(s, 1, u) \in Int /\ Part(s, 2, u) \in Int /\ Part(s, 3, u) \in Int
        /\ Part(s, 4, u) \in Int /\ Part(s, 5, u) \in Int
    BY PartTyped
  <1>8. NetOf(r, u) = Part(s, 2, u) + Part(s, 3, u) + Part(s, 4, u) + Part(s, 5, u)
    BY <1>4, <1>5, <1>7 DEF NetOf
  <1>9. \A p1, p2, p3, p4, p5 \in Int : p1 + p2 + p3 + p4 + p5 = p1 + (p2 + p3 + p4 + p5)
    OBVIOUS
  <1>10. NetOf(s, u) = Part(s, 1, u) + NetOf(r, u)
    BY <1>7, <1>8, <1>9 DEF NetOf
  <1> QED
    BY <1>6, <1>10 DEF r

LEMMA NetNone == ASSUME NEW u PROVE NetOf(<<>>, u) = 0
  BY DEF NetOf, Part

LEMMA NetOne ==
    ASSUME NEW e \in Change, NEW u
    PROVE  NetOf(<<e>>, u) = IF e.user = u THEN e.amount ELSE 0
  <1> DEFINE s == <<e>>
  <1>1. s \in Seq(Change) /\ s # <<>> /\ Len(s) <= 5 /\ Head(s) = e /\ Tail(s) = <<>>
    OBVIOUS
  <1>2. e.amount \in Int
    BY DEF Change
  <1> HIDE DEF s
  <1>3. NetOf(s, u) = (IF e.user = u THEN e.amount ELSE 0) + NetOf(<<>>, u)
    BY <1>1, NetTail
  <1>4. NetOf(s, u) = IF e.user = u THEN e.amount ELSE 0
    BY <1>2, <1>3, NetNone
  <1> QED
    BY <1>4 DEF s

\* A settlement has at most five entries.
LEMMA EntryShort ==
    ASSUME NEW u \in User, NEW a \in Int
    PROVE  Entry(u, a) \in Seq(Change) /\ Len(Entry(u, a)) <= 1
  <1>1. Len(<<>>) = 0 /\ \A e : Len(<<e>>) = 1
    OBVIOUS
  <1>2. Len(Entry(u, a)) = 0 \/ Len(Entry(u, a)) = 1
    BY <1>1 DEF Entry
  <1>3. Len(Entry(u, a)) <= 1
    BY <1>2, 0 <= 1, 1 <= 1
  <1> QED
    BY <1>3, EntryTyped

LEMMA EntriesShort ==
    ASSUME NEW j \in Job
    PROVE  Entries(j) \in Seq(Change) /\ Len(Entries(j)) <= 5
  <1>1. CASE j \in Dock
    <2> DEFINE t == Terms[j]
    <2>1. /\ t.dealer \in User /\ t.level1 \in User /\ t.owner \in User
          /\ t.cost \in Int /\ t.level2Cost \in Int /\ t.fee \in Int
      BY <1>1, WalletAssumption DEF Offer
    <2> HIDE DEF t
    <2>2. Price(t) \in Int
      BY <2>1 DEF Price
    <2>3. -t.cost \in Int /\ -t.fee \in Int /\ -Price(t) \in Int
      BY <2>1, <2>2
    <2> DEFINE Brief(s, n) == s \in Seq(Change) /\ Len(s) <= n
    <2>4. ASSUME NEW s, NEW r, NEW m \in Nat, NEW n \in Nat, Brief(s, m), Brief(r, n)
          PROVE  Brief(s \o r, m + n)
      <3>1. s \o r \in Seq(Change) /\ Len(s \o r) = Len(s) + Len(r) /\ Len(s) \in Nat /\ Len(r) \in Nat
        BY <2>4
      <3> QED
        BY <2>4, <3>1
    <2>5. /\ Brief(Entry(t.owner, t.cost), 1) /\ Brief(Entry(t.level1, t.level2Cost), 1)
          /\ Brief(Entry(t.level1, -t.cost), 1) /\ Brief(Entry(t.dealer, -Price(t)), 1)
          /\ Brief(Entry(t.dealer, -t.fee), 1) /\ Brief(Entry(t.owner, -t.fee), 1)
      BY <2>1, <2>2, <2>3, EntryShort
    <2> HIDE DEF Brief
    <2>6. Brief(Income(t), 3)
      <3>1. CASE t.level = 1
        <4>1. Brief(Income(t), 1)
          BY <2>5, <3>1 DEF Income
        <4> QED
          BY <4>1 DEF Brief
      <3>2. CASE t.level # 1
        <4>1. Brief(Entry(t.level1, t.level2Cost) \o Entry(t.level1, -t.cost), 2)
          <5>1. Brief(Entry(t.level1, t.level2Cost) \o Entry(t.level1, -t.cost), 1 + 1)
            BY <2>4, <2>5
          <5> QED
            BY <5>1
        <4>2. Brief(Entry(t.level1, t.level2Cost) \o Entry(t.level1, -t.cost) \o Entry(t.owner, t.cost), 2 + 1)
          BY <2>4, <2>5, <4>1
        <4> QED
          BY <3>2, <4>2 DEF Income
      <3> QED
        BY <3>1, <3>2
    <2>7. Brief(Settlement(t), 5)
      <3>1. CASE t.feePayer = "distributor"
        <4>1. Brief(Entry(t.dealer, -Price(t)) \o Income(t), 1 + 3)
          BY <2>4, <2>5, <2>6
        <4>2. Brief(Entry(t.dealer, -Price(t)) \o Income(t) \o Entry(t.owner, -t.fee), 4 + 1)
          BY <2>4, <2>5, <4>1
        <4> QED
          BY <3>1, <4>2 DEF Settlement
      <3>2. CASE t.feePayer # "distributor"
        <4>1. Brief(Entry(t.dealer, -Price(t)) \o Entry(t.dealer, -t.fee), 1 + 1)
          BY <2>4, <2>5
        <4>2. Brief(Entry(t.dealer, -Price(t)) \o Entry(t.dealer, -t.fee) \o Income(t), 2 + 3)
          BY <2>4, <2>6, <4>1
        <4> QED
          BY <3>2, <4>2 DEF Settlement
      <3> QED
        BY <3>1, <3>2
    <2> QED
      BY <1>1, <2>7 DEF Entries, t, Brief
  <1>2. CASE j \notin Dock
    <2>1. \E e \in Change : Entries(j) = <<e>>
      BY <1>2, WalletAssumption DEF Entries, Change, Job
    <2> QED
      BY <2>1
  <1> QED
    BY <1>1, <1>2

(* What a job has moved under its locks, with what it has yet to book, is  *)
(* what it books.                                                          *)
Moved(j, u) == IF holder[u] = j THEN Value(u) - balance[u] ELSE 0

Balances(j) ==
    /\ Len(todo[j]) <= 5
    /\ j \notin Advert /\ pc[j] \in {"new", "locking", "booking", "cut"} =>
         \A u \in User : Moved(j, u) + NetOf(todo[j], u) = NetOf(Entries(j), u)

Balanced == \A j \in Job : Balances(j)

LEMMA MovedTyped ==
    ASSUME TypeOK, NEW j, NEW u \in User
    PROVE  Moved(j, u) \in Int
  <1>1. Value(u) \in Int /\ balance[u] \in Int
    BY ValueTyped DEF TypeOK
  <1> QED
    BY <1>1 DEF Moved

LEMMA MovedStays ==
    ASSUME NEW j, NEW u, holder'[u] = j <=> holder[u] = j,
           holder[u] = j => written'[u] = written[u] /\ balance'[u] = balance[u]
    PROVE  Moved(j, u)' = Moved(j, u)
  BY DEF Moved, Value

LEMMA BalancedInit == Init => Balanced
  <1> SUFFICES ASSUME Init, NEW j \in Job PROVE Balances(j)
    BY DEF Balanced
  <1>1. todo[j] = Entries(j) /\ Len(Entries(j)) <= 5 /\ Entries(j) \in Seq(Change)
    BY EntriesShort DEF Init
  <1>2. \A u \in User : Moved(j, u) = 0
    BY WalletAssumption DEF Init, Moved
  <1>3. \A u \in User : NetOf(Entries(j), u) \in Int
    BY <1>1, NetTyped
  <1> QED
    BY <1>1, <1>2, <1>3 DEF Balances

\* A step of j concerns j alone.
LEMMA BalancedOthers ==
    ASSUME Balanced, NEW j,
           \A i \in Job \ {j} :
              /\ pc'[i] = pc[i] /\ todo'[i] = todo[i]
              /\ \A u \in User : /\ holder'[u] = i <=> holder[u] = i
                                 /\ holder[u] = i => written'[u] = written[u] /\ balance'[u] = balance[u],
           j \in Job => Balances(j)'
    PROVE  Balanced'
  <1> SUFFICES ASSUME NEW i \in Job, i # j PROVE Balances(i)'
    BY DEF Balanced
  <1>1. pc'[i] = pc[i] /\ todo'[i] = todo[i]
    OBVIOUS
  <1>2. \A u \in User : Moved(i, u)' = Moved(i, u)
    BY MovedStays
  <1>3. \A u \in User : NetOf(todo[i], u)' = NetOf(todo[i], u)
    BY <1>1 DEF NetOf, Part
  <1>4. \A u : NetOf(Entries(i), u)' = NetOf(Entries(i), u)
    BY DEF NetOf, Part, Entries, Settlement, Income, Price, Entry
  <1> QED
    BY <1>1, <1>2, <1>3, <1>4 DEF Balanced, Balances

\* The end of a transaction.
LEMMA BalancedUnlock ==
    ASSUME TypeOK, Balanced, NEW j \in Job,
           NEW place, place \notin {"new", "locking", "booking", "cut"},
           Unlock(j), Goto(j, place), UNCHANGED todo,
           \A u \in User : holder[u] # j => balance'[u] = balance[u]
    PROVE  Balanced'
  <1>1. \A i \in Job \ {j} : pc'[i] = pc[i]
    BY DEF Goto, TypeOK
  <1>2. pc'[j] = place
    BY DEF Goto, TypeOK
  <1>3. \A i \in Job : i # Free
    BY WalletAssumption
  <1>4. \A i \in Job \ {j} : \A u \in User :
          /\ holder'[u] = i <=> holder[u] = i
          /\ holder[u] = i => written'[u] = written[u] /\ balance'[u] = balance[u]
    BY <1>3 DEF Unlock
  <1>5. Balances(j)'
    BY <1>2 DEF Balanced, Balances
  <1> QED
    BY <1>1, <1>4, <1>5, BalancedOthers

\* A step of j that leaves locks and balances alone.
LEMMA BalancedMove ==
    ASSUME TypeOK, Balanced, NEW j, NEW place, Goto(j, place),
           j \in Job => pc[j] \in {"new", "locking", "booking", "cut"},
           UNCHANGED <<holder, written, balance, todo>>
    PROVE  Balanced'
  <1>1. \A i \in Job \ {j} : pc'[i] = pc[i]
    BY DEF Goto, TypeOK
  <1>2. ASSUME j \in Job PROVE Balances(j)'
    <2>1. \A u \in User : Moved(j, u)' = Moved(j, u)
      BY MovedStays
    <2>2. \A u \in User : NetOf(todo[j], u)' = NetOf(todo[j], u)
      BY DEF NetOf, Part
    <2>3. \A u : NetOf(Entries(j), u)' = NetOf(Entries(j), u)
      BY DEF NetOf, Part, Entries, Settlement, Income, Price, Entry
    <2> QED
      BY <1>2, <2>1, <2>2, <2>3 DEF Balanced, Balances
  <1> QED
    BY <1>1, <1>2, BalancedOthers

\* An entry is moved from what is to come to what has been.
LEMMA BalancedBook ==
    ASSUME TypeOK, LocksInv, Balanced, NEW j \in Job, Book(j)
    PROVE  Balanced'
  <1>a. todo[j] \in Seq(Change) /\ todo[j] # <<>>
    BY DEF TypeOK, Book, CanBook
  <1>3. Head(todo[j]) \in Change
    BY <1>a
  <1>4. PICK v \in User, a \in Int : v = NextUser(j) /\ a = Head(todo[j]).amount
    BY <1>3 DEF NextUser, Change
  <1> DEFINE f == [job |-> j, before |-> Base(j), after |-> Base(j) + a]
  <1>1. /\ holder[v] \in {Free, j} /\ pc[j] = "booking" /\ todo[j] # <<>>
        /\ holder' = [holder EXCEPT ![v] = j]
        /\ written' = [written EXCEPT ![v] = Append(@, f)]
        /\ todo' = [todo EXCEPT ![j] = Tail(@)]
        /\ UNCHANGED <<pc, balance>>
    BY <1>4 DEF Book, CanBook, Write, tables
  <1>2. todo'[j] = Tail(todo[j]) /\ Len(todo[j]) <= 5
    BY <1>1 DEF TypeOK, Balanced, Balances
  <1>5. f.after = Base(j) + a
    OBVIOUS
  <1>6. j \notin Advert => Base(j) = Value(v)
    BY <1>4 DEF Base
  <1>7. v = Head(todo[j]).user
    BY <1>4 DEF NextUser
  <1> HIDE DEF f
  <1>8. \A i \in Job \ {j} : todo'[i] = todo[i]
    BY <1>1 DEF TypeOK
  <1>9. \A i \in Job : i # Free
    BY WalletAssumption
  <1>10. \A i \in Job \ {j} : \A u \in User :
           /\ holder'[u] = i <=> holder[u] = i
           /\ holder[u] = i => written'[u] = written[u] /\ balance'[u] = balance[u]
    BY <1>1, <1>4, <1>9 DEF TypeOK
  <1>11. Len(todo'[j]) <= 5
    BY <1>1, <1>2, <1>a
  <1>12. ASSUME j \notin Advert, NEW u \in User
         PROVE  Moved(j, u)' + NetOf(todo[j], u)' = NetOf(Entries(j), u)
    <2>1. Moved(j, u) + NetOf(todo[j], u) = NetOf(Entries(j), u)
      BY <1>1, <1>12 DEF Balanced, Balances
    <2>2. NetOf(todo[j], u) = (IF v = u THEN a ELSE 0) + NetOf(Tail(todo[j]), u)
      BY <1>1, <1>2, <1>4, <1>7, <1>a, NetTail
    <2>3. NetOf(todo[j], u)' = NetOf(Tail(todo[j]), u)
      BY <1>2 DEF NetOf, Part
    <2>4. Tail(todo[j]) \in Seq(Change)
      BY <1>a
    <2>5. NetOf(Tail(todo[j]), u) \in Int /\ Moved(j, u) \in Int
      BY <2>4, NetTyped, MovedTyped
    <2>6. CASE u = v
      <3>1. holder'[v] = j /\ written'[v] = Append(written[v], f) /\ written[v] \in Seq(Flow)
        BY <1>1, <1>4 DEF TypeOK
      <3>2. Value(v)' = f.after
        <4>1. \A s \in Seq(Flow) : /\ Append(s, f) # <<>> /\ Len(Append(s, f)) = Len(s) + 1
                                   /\ Append(s, f)[Len(s) + 1] = f
          OBVIOUS
        <4>2. written'[v] # <<>> /\ Last(written'[v]) = f
          BY <3>1, <4>1 DEF Last
        <4> QED
          BY <4>2 DEF Value
      <3>3. Value(v) \in Int /\ balance[v] \in Int
        BY <1>4, ValueTyped DEF TypeOK
      <3>4. Moved(j, v)' = Value(v) + a - balance[v]
        BY <1>1, <1>5, <1>6, <1>12, <3>1, <3>2, <3>3 DEF Moved
      <3>5. Moved(j, v) = Value(v) - balance[v]
        <4>1. CASE holder[v] = j
          BY <4>1 DEF Moved
        <4>2. CASE holder[v] # j
          <5>1. holder[v] = Free
            BY <1>1, <4>2
          <5>2. written[v] = <<>>
            BY <1>4, <5>1 DEF LocksInv
          <5>3. Value(v) = balance[v]
            BY <5>2 DEF Value
          <5> QED
            BY <3>3, <4>2, <5>3 DEF Moved
        <4> QED
          BY <4>1, <4>2
      <3> QED
        BY <1>4, <2>1, <2>2, <2>3, <2>5, <2>6, <3>3, <3>4, <3>5
    <2>7. CASE u # v
      <3>1. Moved(j, u)' = Moved(j, u)
        <4>1. holder'[u] = holder[u] /\ written'[u] = written[u] /\ balance'[u] = balance[u]
          BY <1>1, <1>4, <2>7 DEF TypeOK
        <4> QED
          BY <4>1, MovedStays
      <3> QED
        BY <2>1, <2>2, <2>3, <2>5, <2>7, <3>1
    <2> QED
      BY <2>6, <2>7
  <1>13. \A u : NetOf(Entries(j), u)' = NetOf(Entries(j), u)
    BY DEF NetOf, Part, Entries, Settlement, Income, Price, Entry
  <1>14. Balances(j)'
    BY <1>11, <1>12, <1>13 DEF Balances
  <1> QED
    BY <1>1, <1>8, <1>10, <1>14, BalancedOthers

LEMMA BalancedStep == TypeOK /\ LocksInv /\ Balanced /\ [Next]_vars => Balanced'
  <1> SUFFICES ASSUME TypeOK, LocksInv, Balanced, [Next]_vars
               PROVE  Balanced'
    OBVIOUS
  <1>1. ASSUME NEW j \in Job \cup Review, Begin(j)
        PROVE  Balanced'
    <2>1. PICK place : Goto(j, place)
      BY <1>1 DEF Begin, ReadOrder, BeginSingle, PreCheck, BeginPickup, ReadAdvert, ReadRecord
    <2>2. pc[j] = "new" /\ UNCHANGED <<holder, written, balance, todo>>
      BY <1>1 DEF Begin, ReadOrder, BeginSingle, PreCheck, BeginPickup, ReadAdvert, ReadRecord, tables
    <2> QED
      BY <2>1, <2>2, BalancedMove
  <1>2. ASSUME NEW j \in Job, LockParty(j)
        PROVE  Balanced'
    <2>2. PICK v \in User : v = NextParty(j)
      BY <1>2, NextPartyLeast DEF LockParty
    <2>1. /\ j \in Pickup /\ pc[j] = "locking" /\ Unlocked(j) # {}
          /\ holder[v] = Free /\ holder' = [holder EXCEPT ![v] = j]
          /\ UNCHANGED <<written, balance, pc, todo>>
      BY <1>2, <2>2 DEF LockParty, tables
    <2>3. holder'[v] = j /\ \A u \in User \ {v} : holder'[u] = holder[u]
      BY <2>1, <2>2 DEF TypeOK
    <2>4. \A i \in Job : i # Free
      BY WalletAssumption
    <2>5. \A i \in Job \ {j} : \A u \in User : holder'[u] = i <=> holder[u] = i
      BY <2>1, <2>2, <2>3, <2>4
    <2>6. Moved(j, v)' = Moved(j, v)
      <3>1. written[v] = <<>> /\ balance[v] \in Int
        BY <2>1, <2>2 DEF LocksInv, TypeOK
      <3>2. Value(v)' = balance[v]
        BY <2>1, <3>1 DEF Value
      <3>3. Moved(j, v) = 0
        BY <2>1, <2>4 DEF Moved
      <3>4. Moved(j, v)' = 0
        BY <2>1, <3>1, <3>2 DEF Moved
      <3> QED
        BY <3>3, <3>4
    <2>7. \A u \in User : Moved(j, u)' = Moved(j, u)
      BY <2>1, <2>3, <2>6, MovedStays
    <2>8. \A u \in User : NetOf(todo[j], u)' = NetOf(todo[j], u)
      BY <2>1 DEF NetOf, Part
    <2>9. \A u : NetOf(Entries(j), u)' = NetOf(Entries(j), u)
      BY DEF NetOf, Part, Entries, Settlement, Income, Price, Entry
    <2>10. Balances(j)'
      BY <2>1, <2>7, <2>8, <2>9 DEF Balanced, Balances
    <2> QED
      BY <2>1, <2>5, <2>10, BalancedOthers
  <1>3. ASSUME NEW j \in Job, CheckParties(j)
        PROVE  Balanced'
    <2>1. pc[j] = "locking" /\ UNCHANGED <<balance, todo>>
      BY <1>3 DEF CheckParties, tables
    <2>2. CASE Goto(j, "booking") /\ UNCHANGED <<holder, written>>
      BY <2>1, <2>2, BalancedMove
    <2>3. CASE Goto(j, "refused") /\ Unlock(j)
      BY <2>1, <2>3, BalancedUnlock
    <2> QED
      BY <1>3, <2>2, <2>3 DEF CheckParties
  <1>4. ASSUME NEW j \in Job, Commit(j)
        PROVE  Balanced'
    <2>1. Unlock(j) /\ Goto(j, "done") /\ UNCHANGED todo
      BY <1>4 DEF Commit
    <2>2. \A u \in User : holder[u] # j => balance'[u] = balance[u]
      BY <1>4 DEF Commit, Publish
    <2> QED
      BY <2>1, <2>2, BalancedUnlock
  <1>5. ASSUME NEW j \in Job, Refuse(j) \/ Abort(j) \/ Victim(j)
        PROVE  Balanced'
    <2>1. PICK place \in {"refused", "failed"} : Undo(j, place)
      BY <1>5 DEF Refuse, Abort, Victim
    <2> QED
      BY <2>1, BalancedUnlock DEF Undo, tables
  <1>6. ASSUME NEW j \in Job, CutOff(j)
        PROVE  Balanced'
    <2>1. pc[j] = "booking" /\ Goto(j, "cut") /\ UNCHANGED <<holder, written, balance, todo>>
      BY <1>6 DEF CutOff, tables
    <2> QED
      BY <2>1, BalancedMove
  <1>7. ASSUME NEW r \in Review, WriteVerdict(r)
        PROVE  Balanced'
    <2>1. r \notin Job /\ Goto(r, "done") /\ UNCHANGED <<holder, written, balance, todo>>
      BY <1>7, WalletAssumption DEF WriteVerdict
    <2> QED
      BY <2>1, BalancedMove
  <1>8. CASE UNCHANGED vars
    <2> DEFINE none == CHOOSE x : x \notin Job
    <2>1. UNCHANGED <<holder, written, balance, pc, todo>>
      BY <1>8 DEF vars, tables
    <2>2. PICK r : r \notin Job
      BY WalletAssumption
    <2> QED
      BY <2>1, <2>2, BalancedOthers
  <1> QED
    BY <1>1, <1>2, <1>3, <1>4, <1>5, <1>6, <1>7, <1>8, BalancedBook DEF Next, Continue
-----------------------------------------------------------------------------
(* The bank: a commit makes a transfer that was not made before; no other  *)
(* step moves money.                                                       *)
BankInv ==
    /\ \A j \in Job : pc[j] # "cut"
    /\ \A j \in Dock : agentOrder[j] # "none" => pc[j] = "done"

\* Only a commit books, and what is done stays done.
LEMMA OnlyCommits ==
    ASSUME TypeOK, [Next]_vars
    PROVE  \/ \E j \in Job : Commit(j)
           \/ /\ UNCHANGED <<balance, flows, recharge, agentOrder>>
              /\ \A j \in Job : pc'[j] = "done" <=> pc[j] = "done"
  <1> DEFINE Still == /\ UNCHANGED <<balance, flows, recharge, agentOrder>>
                      /\ \A j \in Job : pc'[j] = "done" <=> pc[j] = "done"
  <1>1. ASSUME NEW j, NEW place, Goto(j, place), j \notin Job \/ (pc[j] # "done" /\ place # "done"),
               UNCHANGED <<balance, flows, recharge, agentOrder>>
        PROVE  Still
    BY <1>1 DEF Goto, TypeOK
  <1> HIDE DEF Still
  <1>2. ASSUME NEW j, Begin(j)
        PROVE  Still
    <2>1. PICK place : Goto(j, place) /\ place # "done"
      BY <1>2 DEF Begin, ReadOrder, BeginSingle, PreCheck, BeginPickup, ReadAdvert, ReadRecord
    <2>2. pc[j] = "new" /\ UNCHANGED <<balance, flows, recharge, agentOrder>>
      BY <1>2 DEF Begin, ReadOrder, BeginSingle, PreCheck, BeginPickup, ReadAdvert, ReadRecord, tables
    <2> QED
      BY <1>1, <2>1, <2>2
  <1>3. ASSUME NEW j \in Job, CheckParties(j) \/ Refuse(j) \/ CutOff(j) \/ Abort(j) \/ Victim(j)
        PROVE  Still
    <2>1. PICK place : Goto(j, place) /\ place # "done"
      BY <1>3 DEF CheckParties, CutOff, Refuse, Abort, Victim, Undo
    <2>2. pc[j] # "done"
      <3>1. Waits(j) => pc[j] # "done"
        BY WalletAssumption DEF Waits, WaitsFor
      <3>2. Victim(j) => Waits(j)
        BY DEF Victim, Circles
      <3> QED
        BY <1>3, <3>1, <3>2 DEF CheckParties, CutOff, Refuse, CanBook, Abort, UnderWay
    <2>3. UNCHANGED <<balance, flows, recharge, agentOrder>>
      BY <1>3 DEF CheckParties, CutOff, Refuse, Abort, Victim, Undo, tables
    <2> QED
      BY <1>1, <2>1, <2>2, <2>3
  <1>4. ASSUME NEW j, LockParty(j) \/ Book(j)
        PROVE  Still
    BY <1>4 DEF LockParty, Book, tables, Still
  <1>5. ASSUME NEW r \in Review, WriteVerdict(r)
        PROVE  Still
    <2>1. r \notin Job /\ Goto(r, "done") /\ UNCHANGED <<balance, flows, recharge, agentOrder>>
      BY <1>5, WalletAssumption DEF WriteVerdict
    <2> QED
      BY <1>1, <2>1
  <1>6. ASSUME UNCHANGED vars
        PROVE  Still
    BY <1>6 DEF vars, tables, Still
  <1>7. (\E j \in Job : Commit(j)) \/ Still
    <2>1. CASE \E j \in Job \cup Review : Begin(j)
      BY <1>2, <2>1
    <2>2. CASE \E j \in Job : Continue(j) \/ CutOff(j) \/ Abort(j) \/ Victim(j)
      BY <1>3, <1>4, <2>2 DEF Continue
    <2>3. CASE \E r \in Review : WriteVerdict(r)
      BY <1>5, <2>3
    <2> QED
      BY <1>6, <2>1, <2>2, <2>3 DEF Next
  <1> QED
    BY <1>7 DEF Still

LEMMA BankInvStep ==
    ASSUME ~LockTimeouts
    PROVE  TypeOK /\ BankInv /\ [Next]_vars => BankInv'
  <1> SUFFICES ASSUME TypeOK, BankInv, [Next]_vars
               PROVE  BankInv'
    OBVIOUS
  <1>1. ASSUME NEW j \in Job PROVE pc'[j] # "cut"
    <2>1. ASSUME NEW i, NEW place, Goto(i, place), place # "cut"
          PROVE  pc'[j] # "cut"
      BY <2>1 DEF Goto, TypeOK, BankInv
    <2>2. ASSUME NEW i, Begin(i) PROVE pc'[j] # "cut"
      <3>1. PICK place : Goto(i, place) /\ place # "cut"
        BY <2>2 DEF Begin, ReadOrder, BeginSingle, PreCheck, BeginPickup, ReadAdvert, ReadRecord
      <3> QED
        BY <2>1, <3>1
    <2>3. ASSUME NEW i, CheckParties(i) \/ Refuse(i) \/ CutOff(i) \/ Abort(i) \/ Victim(i) \/ Commit(i)
                          \/ WriteVerdict(i)
          PROVE  pc'[j] # "cut"
      <3>1. PICK place : Goto(i, place) /\ place # "cut"
        BY <2>3 DEF CheckParties, Refuse, CutOff, Abort, Victim, Undo, Commit, WriteVerdict
      <3> QED
        BY <2>1, <3>1
    <2>4. ASSUME UNCHANGED pc PROVE pc'[j] # "cut"
      BY <2>4 DEF BankInv
    <2> QED
      BY <2>2, <2>3, <2>4 DEF Next, Continue, LockParty, Book, vars
  <1>2. ASSUME NEW d \in Dock, agentOrder'[d] # "none" PROVE pc'[d] = "done"
    <2>1. d \in Job
      BY DEF Job
    <2>2. ASSUME NEW j \in Job, Commit(j) PROVE pc'[d] = "done"
      <3>1. CASE j = d
        BY <2>1, <2>2, <3>1 DEF Commit, Goto, TypeOK
      <3>2. CASE j # d
        <4>1. agentOrder'[d] = agentOrder[d] /\ pc'[d] = pc[d]
          BY <2>1, <2>2, <3>2 DEF Commit, Record, Goto, TypeOK
        <4> QED
          BY <1>2, <4>1 DEF BankInv
      <3> QED
        BY <3>1, <3>2
    <2>3. ASSUME UNCHANGED agentOrder, pc'[d] = "done" <=> pc[d] = "done" PROVE pc'[d] = "done"
      BY <1>2, <2>3 DEF BankInv
    <2> QED
      BY <2>1, <2>2, <2>3, OnlyCommits
  <1> QED
    BY <1>1, <1>2 DEF BankInv

\* The transfer of a job.
TransferOf(j) == IF j \in Notice THEN OrderOf[j] ELSE j

NetAmount == [t \in Order \cup Single \cup Dock |-> [u \in User |->
                IF t \in Dock THEN NetOf(Settlement(Terms[t]), u)
                ELSE IF Request[t].user = u THEN Request[t].amount ELSE 0]]

LEMMA TransferTyped ==
    ASSUME NEW j \in Job \ Advert
    PROVE  /\ TransferOf(j) \in Order \cup Single \cup Dock
           /\ \A u \in User : NetAmount[TransferOf(j)][u] = NetOf(Entries(j), u)
  <1>1. CASE j \in Dock
    <2>1. j \notin Notice
      BY <1>1, WalletAssumption
    <2> QED
      BY <1>1, <2>1 DEF TransferOf, NetAmount, Entries
  <1>2. CASE j \notin Dock
    <2> DEFINE t == TransferOf(j)
    <2>1. /\ t \in Order \cup Single /\ t \notin Dock
          /\ Request[t] \in Change /\ Entries(j) = <<Request[t]>>
      BY <1>2, WalletAssumption DEF TransferOf, Entries, Change, Job
    <2> HIDE DEF t
    <2>2. \A u \in User : NetOf(Entries(j), u) = IF Request[t].user = u THEN Request[t].amount ELSE 0
      BY <2>1, NetOne
    <2>3. \A u \in User : NetAmount[t][u] = IF Request[t].user = u THEN Request[t].amount ELSE 0
      BY <2>1 DEF NetAmount
    <2> QED
      BY <2>1, <2>2, <2>3 DEF t
  <1> QED
    BY <1>1, <1>2

\* What a commit adds to the bookings.
LEMMA CommitBooks ==
    ASSUME TypeOK, NoticesInv, OrdersInv, BankInv, NEW j \in Job \ Advert, Commit(j)
    PROVE  TransferOf(j) \notin Bookings /\ Bookings' = Bookings \cup {TransferOf(j)}
  <1>1. /\ pc[j] = "booking" /\ \A i \in Job : pc'[i] = IF i = j THEN "done" ELSE pc[i]
        /\ recharge' = IF j \in Notice THEN [recharge EXCEPT ![OrderOf[j]] = "paid"] ELSE recharge
        /\ agentOrder' = IF j \in Dock THEN [agentOrder EXCEPT ![j] = "settled"] ELSE agentOrder
    BY DEF Commit, Complete, Record, Goto, TypeOK, BankInv
  <1>2. /\ Single \subseteq Job /\ Dock \subseteq Job /\ Notice \subseteq Job
        /\ Order \cap Job = {} /\ Notice \cap Single = {} /\ Dock \cap Single = {} /\ Dock \cap Notice = {}
    BY WalletAssumption DEF Job
  <1>3. CASE j \in Notice
    <2>1. OrderOf[j] \in Order /\ recharge[OrderOf[j]] = "pending" /\ TransferOf(j) = OrderOf[j]
      BY <1>1, <1>3, WalletAssumption DEF OrdersInv, TransferOf
    <2>2. \A o \in Order : recharge'[o] = IF o = OrderOf[j] THEN "paid" ELSE recharge[o]
      BY <1>1, <1>3, <2>1 DEF TypeOK
    <2>3. agentOrder' = agentOrder /\ \A i \in Single : pc'[i] = pc[i]
      BY <1>1, <1>2, <1>3
    <2>4. {o \in Order : recharge'[o] = "paid"} = {o \in Order : recharge[o] = "paid"} \cup {OrderOf[j]}
      BY <2>1, <2>2
    <2>5. {i \in Single : pc'[i] = "done"} = {i \in Single : pc[i] = "done"}
      BY <2>3
    <2>6. OrderOf[j] \notin Bookings
      BY <1>2, <2>1 DEF Bookings
    <2> QED
      BY <2>1, <2>3, <2>4, <2>5, <2>6 DEF Bookings
  <1>4. CASE j \in Dock
    <2>1. j \notin Notice /\ TransferOf(j) = j /\ j \notin Order /\ j \notin Single
      BY <1>2, <1>4 DEF TransferOf
    <2>2. agentOrder[j] = "none"
      BY <1>1, <1>4 DEF BankInv, TypeOK
    <2>3. \A i \in Dock : agentOrder'[i] = IF i = j THEN "settled" ELSE agentOrder[i]
      BY <1>1, <1>4 DEF TypeOK
    <2>4. recharge' = recharge /\ \A i \in Single : pc'[i] = pc[i]
      BY <1>1, <1>2, <2>1
    <2>5. {i \in Dock : agentOrder'[i] = "settled"} = {i \in Dock : agentOrder[i] = "settled"} \cup {j}
      BY <1>4, <2>3
    <2>6. {i \in Single : pc'[i] = "done"} = {i \in Single : pc[i] = "done"}
      BY <2>4
    <2>7. j \notin Bookings
      BY <2>1, <2>2 DEF Bookings
    <2> QED
      BY <2>1, <2>4, <2>5, <2>6, <2>7 DEF Bookings
  <1>5. CASE j \in Single
    <2>1. j \notin Notice /\ TransferOf(j) = j /\ j \notin Order /\ j \notin Dock
      BY <1>2, <1>5 DEF TransferOf
    <2>2. recharge' = recharge /\ agentOrder' = agentOrder
      BY <1>1, <2>1
    <2>3. {i \in Single : pc'[i] = "done"} = {i \in Single : pc[i] = "done"} \cup {j}
      BY <1>1, <1>2, <1>5
    <2>4. j \notin Bookings
      BY <1>1, <2>1 DEF Bookings
    <2> QED
      BY <2>1, <2>2, <2>3, <2>4 DEF Bookings
  <1> QED
    BY <1>3, <1>4, <1>5 DEF Job

\* ... and to the balances.
LEMMA CommitPays ==
    ASSUME TypeOK, LocksInv, Balanced, BankInv, NEW j \in Job \ Advert, Commit(j)
    PROVE  balance' = [u \in User |-> balance[u] + NetOf(Entries(j), u)]
  <1>1. pc[j] = "booking" /\ todo[j] = <<>>
    BY DEF Commit, Complete, BankInv
  <1>2. ASSUME NEW u \in User
        PROVE  (IF holder[u] = j THEN Value(u) ELSE balance[u]) = balance[u] + NetOf(Entries(j), u)
    <2>1. Moved(j, u) + NetOf(todo[j], u) = NetOf(Entries(j), u)
      BY <1>1 DEF Balanced, Balances
    <2>2. NetOf(todo[j], u) = 0
      BY <1>1, NetNone
    <2>3. Moved(j, u) \in Int /\ Value(u) \in Int /\ balance[u] \in Int
      BY MovedTyped, ValueTyped DEF TypeOK
    <2>4. Moved(j, u) = NetOf(Entries(j), u)
      BY <2>1, <2>2, <2>3
    <2> QED
      BY <2>3, <2>4 DEF Moved
  <1> QED
    BY <1>2 DEF Commit, Publish

LEMMA BankStep ==
    ASSUME Advert = {}, TypeOK, LocksInv, NoticesInv, OrdersInv, Balanced, BankInv, [Next]_vars
    PROVE  [TheBank!Next]_(TheBank!vars)
  <1>1. ASSUME NEW j \in Job, Commit(j)
        PROVE  TheBank!Next
    <2>1. j \in Job \ Advert
      OBVIOUS
    <2>2. TransferOf(j) \in Order \cup Single \cup Dock
      BY <2>1, TransferTyped
    <2>3. TransferOf(j) \notin Bookings /\ Bookings' = Bookings \cup {TransferOf(j)}
      BY <1>1, <2>1, CommitBooks
    <2>4. balance' = [u \in User |-> balance[u] + NetAmount[TransferOf(j)][u]]
      BY <1>1, <2>1, CommitPays, TransferTyped
    <2>5. TheBank!Make(TransferOf(j))
      BY <2>3, <2>4 DEF TheBank!Make, NetAmount
    <2> QED
      BY <2>2, <2>5 DEF TheBank!Next
  <1>2. ASSUME UNCHANGED <<balance, flows, recharge, agentOrder>>,
               \A j \in Job : pc'[j] = "done" <=> pc[j] = "done"
        PROVE  UNCHANGED TheBank!vars
    <2>1. {i \in Single : pc'[i] = "done"} = {i \in Single : pc[i] = "done"}
      BY <1>2 DEF Job
    <2>2. Bookings' = Bookings
      BY <1>2, <2>1 DEF Bookings
    <2> QED
      BY <1>2, <2>2 DEF TheBank!vars
  <1> QED
    BY <1>1, <1>2, OnlyCommits

\* If the notices of an order come one at a time, no wait for a row ends in
\* an error and nobody pays for an advert, the wallet is a bank: each
\* recharge, withdrawal, renewal, adjustment and settlement is made once,
\* whole, in one step, or never, however the transactions overlap, wait for
\* one another, fail or are rolled back.
THEOREM WalletImplementsBank ==
    ASSUME ~Overlap, ~LockTimeouts, Advert = {}
    PROVE  Spec => ImplementsBank
  <1> DEFINE IInv == LocksInv /\ NoticesInv /\ OrdersInv /\ Balanced /\ BankInv
  <1>1. Init => IInv
    <2>1. Init => LocksInv /\ OrdersInv /\ BankInv
      BY WalletAssumption DEF Init, LocksInv, OrdersInv, BankInv, Job
    <2> QED
      BY <2>1, NoticesInit, BalancedInit
  <1>2. TypeOK /\ IInv /\ [Next]_vars => IInv'
    BY LocksStep, NoticesStep, OrdersStep, BalancedStep, BankInvStep
  <1>3. Init => TheBank!Init
    <2> SUFFICES ASSUME Init PROVE balance = Opening /\ Bookings = {}
      BY DEF TheBank!Init
    <2>1. Single \subseteq Job
      BY DEF Job
    <2> QED
      BY <2>1 DEF Init, Bookings
  <1>4. TypeOK /\ IInv /\ [Next]_vars => [TheBank!Next]_(TheBank!vars)
    BY BankStep
  <1> HIDE DEF IInv
  <1> QED
    BY <1>1, <1>2, <1>3, <1>4, TypeCorrect, PTL DEF Spec, ImplementsBank, TheBank!Spec
-----------------------------------------------------------------------------
(* Overdrafts.  A settlement is five entries, some of which may be zero    *)
(* and are then not booked; what is to come is always the rest of these.   *)
R5(w, a) == Entry(w[5], a[5])
R4(w, a) == Entry(w[4], a[4]) \o R5(w, a)
R3(w, a) == Entry(w[3], a[3]) \o R4(w, a)
R2(w, a) == Entry(w[2], a[2]) \o R3(w, a)
R1(w, a) == Entry(w[1], a[1]) \o R2(w, a)
Rests(w, a) == {R1(w, a), R2(w, a), R3(w, a), R4(w, a), R5(w, a), <<>>}

For(w, a, i, u) == IF w[i] = u THEN a[i] ELSE 0

LEMMA EntryFirst ==
    ASSUME NEW w \in User, NEW a \in Int, NEW s \in Seq(Change)
    PROVE  /\ Entry(w, a) \o s \in Seq(Change)
           /\ Len(Entry(w, a) \o s) <= Len(s) + 1
           /\ a = 0 => Entry(w, a) \o s = s
           /\ a # 0 => /\ Entry(w, a) \o s # <<>> /\ Tail(Entry(w, a) \o s) = s
                       /\ Head(Entry(w, a) \o s) = [user |-> w, amount |-> a]
  <1>0. Len(s) <= Len(s) + 1 /\ Len(s) + 1 <= Len(s) + 1
    <2>1. Len(s) \in Nat
      OBVIOUS
    <2> QED
      BY <2>1
  <1>1. CASE a = 0
    <2>1. Entry(w, a) = <<>>
      BY <1>1 DEF Entry
    <2>2. <<>> \o s = s
      OBVIOUS
    <2>3. Entry(w, a) \o s = s
      BY <2>1, <2>2
    <2> QED
      BY <1>0, <1>1, <2>3
  <1>2. CASE a # 0
    <2> DEFINE e == [user |-> w, amount |-> a]
    <2>1. Entry(w, a) = <<e>> /\ e \in Change
      BY <1>2 DEF Entry, Change
    <2> HIDE DEF e
    <2> DEFINE r == <<e>> \o s
    <2>2. r \in Seq(Change) /\ Len(r) = Len(s) + 1
      BY <2>1
    <2>3. r # <<>> /\ Head(r) = e
      BY <2>1
    <2>4. Tail(r) = s
      BY <2>1
    <2> HIDE DEF r
    <2>5. Entry(w, a) \o s = r
      BY <2>1 DEF r
    <2>6. Len(r) <= Len(s) + 1
      BY <1>0, <2>2
    <2> QED
      BY <1>2, <2>2, <2>3, <2>4, <2>5, <2>6 DEF e
  <1> QED
    BY <1>1, <1>2

LEMMA EntryNet ==
    ASSUME NEW w \in User, NEW a \in Int, NEW s \in Seq(Change), Len(s) <= 4, NEW u
    PROVE  NetOf(Entry(w, a) \o s, u) = (IF w = u THEN a ELSE 0) + NetOf(s, u)
  <1> DEFINE r == Entry(w, a) \o s
  <1>1. NetOf(s, u) \in Int
    BY NetTyped
  <1>2. CASE a = 0
    <2>1. r = s
      BY <1>2, EntryFirst
    <2> HIDE DEF r
    <2>2. NetOf(r, u) = 0 + NetOf(s, u)
      BY <1>1, <2>1
    <2> QED
      BY <1>2, <2>2 DEF r
  <1>3. CASE a # 0
    <2>1. /\ r \in Seq(Change) /\ Len(r) <= Len(s) + 1 /\ r # <<>> /\ Tail(r) = s
          /\ Head(r) = [user |-> w, amount |-> a]
      BY <1>3, EntryFirst
    <2> HIDE DEF r
    <2>2. Len(r) <= 5
      <3>1. Len(r) \in Nat /\ Len(s) \in Nat
        BY <2>1
      <3> QED
        BY <2>1, <3>1
    <2>3. NetOf(r, u) = (IF Head(r).user = u THEN Head(r).amount ELSE 0) + NetOf(Tail(r), u)
      BY <2>1, <2>2, NetTail
    <2>4. Head(r).user = w /\ Head(r).amount = a
      BY <2>1
    <2>5. NetOf(r, u) = (IF w = u THEN a ELSE 0) + NetOf(s, u)
      BY <2>1, <2>3, <2>4
    <2> QED
      BY <2>5 DEF r
  <1> QED
    BY <1>2, <1>3

LEMMA RestsTyped ==
    ASSUME NEW w, NEW a, \A i \in 1..5 : w[i] \in User /\ a[i] \in Int
    PROVE  /\ R1(w, a) \in Seq(Change) /\ R2(w, a) \in Seq(Change) /\ R3(w, a) \in Seq(Change)
           /\ R4(w, a) \in Seq(Change) /\ R5(w, a) \in Seq(Change)
           /\ Len(R2(w, a)) <= 4 /\ Len(R3(w, a)) <= 3 /\ Len(R4(w, a)) <= 2 /\ Len(R5(w, a)) <= 1
  <1>0. \A i \in {1, 2, 3, 4, 5} : w[i] \in User /\ a[i] \in Int
    OBVIOUS
  <1>1. \A m, n \in Nat : \A k \in Nat : k <= n + 1 /\ n <= m => k <= m + 1
    OBVIOUS
  <1>2. \A s \in Seq(Change) : Len(s) \in Nat
    OBVIOUS
  <1>5. R5(w, a) \in Seq(Change) /\ Len(R5(w, a)) <= 1
    BY <1>0, EntryShort DEF R5
  <1>4. R4(w, a) \in Seq(Change) /\ Len(R4(w, a)) <= 1 + 1
    BY <1>0, <1>1, <1>2, <1>5, EntryFirst DEF R4
  <1>3. R3(w, a) \in Seq(Change) /\ Len(R3(w, a)) <= 2 + 1
    BY <1>0, <1>1, <1>2, <1>4, EntryFirst DEF R3
  <1>6. R2(w, a) \in Seq(Change) /\ Len(R2(w, a)) <= 3 + 1
    BY <1>0, <1>1, <1>2, <1>3, EntryFirst DEF R2
  <1>7. R1(w, a) \in Seq(Change)
    BY <1>0, <1>6, EntryFirst DEF R1
  <1> QED
    BY <1>3, <1>4, <1>5, <1>6, <1>7

LEMMA RestsShort ==
    ASSUME NEW w, NEW a, \A i \in 1..5 : w[i] \in User /\ a[i] \in Int
    PROVE  /\ Len(R2(w, a)) <= 4 /\ Len(R3(w, a)) <= 4 /\ Len(R4(w, a)) <= 4 /\ Len(R5(w, a)) <= 4
  <1>1. \A s \in Seq(Change) : Len(s) \in Nat
    OBVIOUS
  <1>2. \A n \in Nat : (n <= 3 => n <= 4) /\ (n <= 2 => n <= 4) /\ (n <= 1 => n <= 4)
    OBVIOUS
  <1>3. Len(R3(w, a)) \in Nat /\ Len(R4(w, a)) \in Nat /\ Len(R5(w, a)) \in Nat
    BY <1>1, RestsTyped
  <1> QED
    BY <1>2, <1>3, RestsTyped

LEMMA RestsNet ==
    ASSUME NEW w, NEW a, \A i \in 1..5 : w[i] \in User /\ a[i] \in Int, NEW u
    PROVE  /\ NetOf(R5(w, a), u) = For(w, a, 5, u)
           /\ NetOf(R4(w, a), u) = For(w, a, 4, u) + NetOf(R5(w, a), u)
           /\ NetOf(R3(w, a), u) = For(w, a, 3, u) + NetOf(R4(w, a), u)
           /\ NetOf(R2(w, a), u) = For(w, a, 2, u) + NetOf(R3(w, a), u)
           /\ NetOf(R1(w, a), u) = For(w, a, 1, u) + NetOf(R2(w, a), u)
  <1>0. \A i \in {1, 2, 3, 4, 5} : w[i] \in User /\ a[i] \in Int
    OBVIOUS
  <1>2. /\ Len(R2(w, a)) <= 4 /\ Len(R3(w, a)) <= 4 /\ Len(R4(w, a)) <= 4 /\ Len(R5(w, a)) <= 4
    BY RestsShort
  <1> DEFINE First(v, b, s) == NetOf(Entry(v, b) \o s, u) = (IF v = u THEN b ELSE 0) + NetOf(s, u)
  <1>3. \A v \in User, b \in Int, s \in Seq(Change) : Len(s) <= 4 => First(v, b, s)
    BY EntryNet
  <1> HIDE DEF First
  <1>4. /\ First(w[1], a[1], R2(w, a)) /\ First(w[2], a[2], R3(w, a))
        /\ First(w[3], a[3], R4(w, a)) /\ First(w[4], a[4], R5(w, a))
    BY <1>0, <1>2, <1>3, RestsTyped
  <1>5. NetOf(R5(w, a), u) = For(w, a, 5, u)
    <2>1. Entry(w[5], a[5]) \o <<>> = Entry(w[5], a[5])
      BY <1>0, EntryTyped
    <2>2. <<>> \in Seq(Change) /\ Len(<<>>) <= 4
      OBVIOUS
    <2>3. First(w[5], a[5], <<>>)
      BY <1>0, <1>3, <2>2
    <2>4. a[5] \in Int
      BY <1>0
    <2> QED
      BY <2>1, <2>3, <2>4, NetNone DEF R5, For, First
  <1> QED
    BY <1>4, <1>5 DEF R1, R2, R3, R4, For, First

LEMMA EntryTail ==
    ASSUME NEW w \in User, NEW a \in Int, NEW s \in Seq(Change), NEW S,
           s \in S, s # <<>> => Tail(s) \in S, Entry(w, a) \o s # <<>>
    PROVE  Tail(Entry(w, a) \o s) \in S
  <1>1. CASE a = 0
    BY <1>1, EntryFirst
  <1>2. CASE a # 0
    BY <1>2, EntryFirst
  <1> QED
    BY <1>1, <1>2

LEMMA RestsTail ==
    ASSUME NEW w, NEW a, \A i \in 1..5 : w[i] \in User /\ a[i] \in Int,
           NEW s \in Rests(w, a), s # <<>>
    PROVE  Tail(s) \in Rests(w, a)
  <1>0. \A i \in {1, 2, 3, 4, 5} : w[i] \in User /\ a[i] \in Int
    OBVIOUS
  <1> DEFINE S == Rests(w, a)
  <1>1. /\ R1(w, a) \in S /\ R2(w, a) \in S /\ R3(w, a) \in S /\ R4(w, a) \in S
        /\ R5(w, a) \in S /\ <<>> \in S
    BY DEF Rests
  <1>2. s \in {R1(w, a), R2(w, a), R3(w, a), R4(w, a), R5(w, a), <<>>}
    BY DEF Rests
  <1> HIDE DEF S
  <1>5. R5(w, a) # <<>> => Tail(R5(w, a)) \in S
    <2>1. \A e : Tail(<<e>>) = <<>>
      OBVIOUS
    <2> QED
      BY <1>1, <2>1 DEF R5, Entry
  <1>6. R4(w, a) # <<>> => Tail(R4(w, a)) \in S
    BY <1>0, <1>1, <1>5, RestsTyped, EntryTail DEF R4
  <1>7. R3(w, a) # <<>> => Tail(R3(w, a)) \in S
    BY <1>0, <1>1, <1>6, RestsTyped, EntryTail DEF R3
  <1>8. R2(w, a) # <<>> => Tail(R2(w, a)) \in S
    BY <1>0, <1>1, <1>7, RestsTyped, EntryTail DEF R2
  <1>9. R1(w, a) # <<>> => Tail(R1(w, a)) \in S
    BY <1>0, <1>1, <1>8, RestsTyped, EntryTail DEF R1
  <1> QED
    BY <1>2, <1>5, <1>6, <1>7, <1>8, <1>9 DEF S

\* The five entries of a settlement; those of a pickup's forecast have the
\* fee last.
Who(t) == IF t.feePayer = "distributor" THEN <<t.dealer, t.level1, t.level1, t.owner, t.owner>>
          ELSE <<t.dealer, t.dealer, t.level1, t.level1, t.owner>>

Resale(t) == IF t.level = 1 THEN 0 ELSE t.level2Cost
Purchase(t) == IF t.level = 1 THEN 0 ELSE -t.cost

Much(t) == IF t.feePayer = "distributor" THEN <<-Price(t), Resale(t), Purchase(t), t.cost, -t.fee>>
           ELSE <<-Price(t), -t.fee, Resale(t), Purchase(t), t.cost>>

LEMMA ConcatAssoc ==
    ASSUME NEW S, NEW r \in Seq(S), NEW s \in Seq(S), NEW t \in Seq(S)
    PROVE  (r \o s) \o t = r \o (s \o t)
  OBVIOUS

LEMMA ConcatNone == ASSUME NEW S, NEW r \in Seq(S) PROVE <<>> \o r = r
  OBVIOUS

LEMMA TermsTyped ==
    ASSUME NEW j \in Dock
    PROVE  LET t == Terms[j] IN
           /\ t.dealer \in User /\ t.level1 \in User /\ t.owner \in User /\ t.level \in {1, 2}
           /\ t.cost \in Nat /\ t.level2Cost \in Nat /\ t.fee \in Nat /\ Price(t) \in Nat
           /\ t.feePayer \in {"dealer", "distributor", "unset"}
           /\ Resale(t) \in Int /\ Purchase(t) \in Int
           /\ \A i \in 1..5 : Who(t)[i] \in User /\ Much(t)[i] \in Int
  <1> DEFINE t == Terms[j]
  <1>1. /\ t.dealer \in User /\ t.level1 \in User /\ t.owner \in User /\ t.level \in {1, 2}
        /\ t.cost \in Nat /\ t.level2Cost \in Nat /\ t.fee \in Nat
        /\ t.feePayer \in {"dealer", "distributor", "unset"}
    BY WalletAssumption DEF Offer
  <1> HIDE DEF t
  <1>2. Price(t) \in Nat /\ Resale(t) \in Int /\ Purchase(t) \in Int
    BY <1>1 DEF Price, Resale, Purchase
  <1>3. -Price(t) \in Int /\ -t.fee \in Int /\ t.cost \in Int
    BY <1>1, <1>2
  <1>4. \A i \in 1..5 : i \in {1, 2, 3, 4, 5}
    OBVIOUS
  <1>5. \A i \in 1..5 : Who(t)[i] \in User
    BY <1>1, <1>4 DEF Who
  <1>6. \A i \in 1..5 : Much(t)[i] \in Int
    BY <1>2, <1>3, <1>4 DEF Much
  <1> QED
    BY <1>1, <1>2, <1>5, <1>6 DEF t

\* A settlement is its five entries.
LEMMA IncomePieces ==
    ASSUME NEW j \in Dock
    PROVE  LET t == Terms[j] IN
           Income(t) = Entry(t.level1, Resale(t)) \o (Entry(t.level1, Purchase(t)) \o Entry(t.owner, t.cost))
  <1> DEFINE t == Terms[j]
  <1>1. /\ t.level1 \in User /\ t.owner \in User /\ Resale(t) \in Int /\ Purchase(t) \in Int
        /\ t.cost \in Int
    BY TermsTyped
  <1> HIDE DEF t
  <1>2. /\ Entry(t.level1, Resale(t)) \in Seq(Change) /\ Entry(t.level1, Purchase(t)) \in Seq(Change)
        /\ Entry(t.owner, t.cost) \in Seq(Change)
    BY <1>1, EntryTyped
  <1>3. CASE t.level = 1
    <2>1. Entry(t.level1, Resale(t)) = <<>> /\ Entry(t.level1, Purchase(t)) = <<>>
      BY <1>3 DEF Entry, Resale, Purchase
    <2>2. Income(t) = Entry(t.owner, t.cost)
      BY <1>3 DEF Income
    <2> QED
      BY <1>2, <2>1, <2>2, ConcatNone DEF t
  <1>4. CASE t.level # 1
    <2>1. Income(t) = (Entry(t.level1, Resale(t)) \o Entry(t.level1, Purchase(t))) \o Entry(t.owner, t.cost)
      BY <1>4 DEF Income, Resale, Purchase
    <2> QED
      BY <1>2, <2>1, ConcatAssoc DEF t
  <1> QED
    BY <1>3, <1>4

\* The forecast has the fee last, whoever bears it.
Forecast(t) ==
    <<t.dealer, t.level1, t.level1, t.owner, IF t.feePayer = "dealer" THEN t.dealer ELSE t.owner>>

Amount(t) == <<-Price(t), Resale(t), Purchase(t), t.cost, -t.fee>>

LEMMA SettlementPieces ==
    ASSUME NEW j \in Dock
    PROVE  LET t == Terms[j] IN
           /\ Settlement(t) = R1(Who(t), Much(t))
           /\ \A u : Delta(t, u) = NetOf(R1(Forecast(t), Amount(t)), u)
           /\ \A i \in 1..5 : Forecast(t)[i] \in User /\ Amount(t)[i] \in Int
  <1> DEFINE t == Terms[j]
             payer == IF t.feePayer = "dealer" THEN t.dealer ELSE t.owner
             A == Entry(t.dealer, -Price(t))
             B == Entry(t.level1, Resale(t))
             C == Entry(t.level1, Purchase(t))
             D == Entry(t.owner, t.cost)
             Fee(u) == Entry(u, -t.fee)
             Cat(x, y) == x \o y
  <1>1. /\ t.dealer \in User /\ t.level1 \in User /\ t.owner \in User
        /\ t.cost \in Int /\ t.fee \in Int /\ Price(t) \in Int
        /\ Resale(t) \in Int /\ Purchase(t) \in Int
    BY TermsTyped
  <1>2. Income(t) = Cat(B, Cat(C, D))
    BY IncomePieces
  <1> HIDE DEF t
  <1>3. -Price(t) \in Int /\ -t.fee \in Int /\ payer \in User
    BY <1>1
  <1> HIDE DEF payer
  <1>4. /\ A \in Seq(Change) /\ B \in Seq(Change) /\ C \in Seq(Change) /\ D \in Seq(Change)
        /\ \A u \in User : Fee(u) \in Seq(Change)
    BY <1>1, <1>3, EntryTyped
  \* The definitions as concatenations of the pieces.
  <1>5. t.feePayer = "distributor" =>
          /\ Settlement(t) = Cat(Cat(A, Income(t)), Fee(t.owner))
          /\ R1(Who(t), Much(t)) = Cat(A, Cat(B, Cat(C, Cat(D, Fee(t.owner)))))
    BY DEF Settlement, Who, Much, R1, R2, R3, R4, R5
  <1>6. t.feePayer # "distributor" =>
          /\ Settlement(t) = Cat(Cat(A, Fee(t.dealer)), Income(t))
          /\ R1(Who(t), Much(t)) = Cat(A, Cat(Fee(t.dealer), Cat(B, Cat(C, D))))
    BY DEF Settlement, Who, Much, R1, R2, R3, R4, R5
  <1>7. /\ \A u : Delta(t, u) = NetOf(Cat(Cat(A, Income(t)), Fee(payer)), u)
        /\ R1(Forecast(t), Amount(t)) = Cat(A, Cat(B, Cat(C, Cat(D, Fee(payer)))))
    BY DEF Delta, payer, Forecast, Amount, R1, R2, R3, R4, R5
  <1>8. \A x, y \in Seq(Change) : Cat(x, y) \in Seq(Change)
    BY Concatenated
  <1>9. \A x, y, z \in Seq(Change) : Cat(Cat(x, y), z) = Cat(x, Cat(y, z))
    BY ConcatAssoc
  <1> HIDE DEF A, B, C, D, Fee, Cat
  <1>10. Cat(C, D) \in Seq(Change) /\ Cat(B, Cat(C, D)) \in Seq(Change)
    BY <1>4, <1>8
  <1>11. ASSUME NEW u \in User
         PROVE  /\ Cat(Cat(A, Income(t)), Fee(u)) = Cat(A, Cat(B, Cat(C, Cat(D, Fee(u)))))
                /\ Cat(Cat(A, Fee(u)), Income(t)) = Cat(A, Cat(Fee(u), Cat(B, Cat(C, D))))
    <2>1. Cat(Cat(A, Income(t)), Fee(u)) = Cat(A, Cat(Cat(B, Cat(C, D)), Fee(u)))
      BY <1>2, <1>4, <1>9, <1>10
    <2>2. Cat(Cat(B, Cat(C, D)), Fee(u)) = Cat(B, Cat(Cat(C, D), Fee(u)))
      BY <1>4, <1>9, <1>10
    <2>3. Cat(Cat(C, D), Fee(u)) = Cat(C, Cat(D, Fee(u)))
      BY <1>4, <1>9
    <2>4. Cat(Cat(A, Fee(u)), Income(t)) = Cat(A, Cat(Fee(u), Cat(B, Cat(C, D))))
      BY <1>2, <1>4, <1>9, <1>10
    <2> QED
      BY <2>1, <2>2, <2>3, <2>4
  <1>12. Settlement(t) = R1(Who(t), Much(t))
    BY <1>1, <1>5, <1>6, <1>11
  <1>13. \A u : Delta(t, u) = NetOf(R1(Forecast(t), Amount(t)), u)
    BY <1>3, <1>7, <1>11
  <1>14. ASSUME NEW i \in 1..5 PROVE Forecast(t)[i] \in User /\ Amount(t)[i] \in Int
    <2>1. i \in {1, 2, 3, 4, 5}
      OBVIOUS
    <2> QED
      BY <1>1, <1>3, <2>1 DEF Forecast, Amount, payer
  <1> QED
    BY <1>12, <1>13, <1>14 DEF t

\* What u gets or pays, entry by entry.
LEMMA NetSum ==
    ASSUME NEW w, NEW a, \A i \in 1..5 : w[i] \in User /\ a[i] \in Int, NEW u
    PROVE  /\ \A i \in 1..5 : For(w, a, i, u) \in Int
           /\ NetOf(R5(w, a), u) = For(w, a, 5, u)
           /\ NetOf(R4(w, a), u) = For(w, a, 4, u) + For(w, a, 5, u)
           /\ NetOf(R3(w, a), u) = For(w, a, 3, u) + For(w, a, 4, u) + For(w, a, 5, u)
           /\ NetOf(R2(w, a), u) = For(w, a, 2, u) + For(w, a, 3, u) + For(w, a, 4, u) + For(w, a, 5, u)
           /\ NetOf(R1(w, a), u) = For(w, a, 1, u) + For(w, a, 2, u) + For(w, a, 3, u)
                                     + For(w, a, 4, u) + For(w, a, 5, u)
  <1>1. \A i \in 1..5 : For(w, a, i, u) \in Int
    BY DEF For
  <1>2. /\ For(w, a, 1, u) \in Int /\ For(w, a, 2, u) \in Int /\ For(w, a, 3, u) \in Int
        /\ For(w, a, 4, u) \in Int /\ For(w, a, 5, u) \in Int
    BY <1>1
  <1> QED
    BY <1>1, <1>2, RestsNet

\* What is checked is what is settled, if the card says who bears the fee.
LEMMA DeltaIsNet ==
    ASSUME NEW j \in Dock, Terms[j].feePayer # "unset", NEW u
    PROVE  Delta(Terms[j], u) = NetOf(Settlement(Terms[j]), u)
  <1> DEFINE t == Terms[j]
             w == Who(t)
             a == Much(t)
             v == Forecast(t)
             b == Amount(t)
  <1>1. /\ Settlement(t) = R1(w, a) /\ Delta(t, u) = NetOf(R1(v, b), u)
        /\ \A i \in 1..5 : v[i] \in User /\ b[i] \in Int
    BY SettlementPieces
  <1>2. t.feePayer \in {"dealer", "distributor"} /\ \A i \in 1..5 : w[i] \in User /\ a[i] \in Int
    BY TermsTyped
  <1>3. CASE t.feePayer = "distributor"
    BY <1>1, <1>3 DEF Who, Forecast, Much, Amount
  <1>4. CASE t.feePayer = "dealer"
    <2>1. /\ For(w, a, 1, u) = For(v, b, 1, u) /\ For(w, a, 2, u) = For(v, b, 5, u)
          /\ For(w, a, 3, u) = For(v, b, 2, u) /\ For(w, a, 4, u) = For(v, b, 3, u)
          /\ For(w, a, 5, u) = For(v, b, 4, u)
      BY <1>4 DEF For, Who, Forecast, Much, Amount
    <2> HIDE DEF t, w, a, v, b
    <2>2. NetOf(R1(w, a), u) = For(w, a, 1, u) + For(w, a, 2, u) + For(w, a, 3, u)
                                 + For(w, a, 4, u) + For(w, a, 5, u)
      BY <1>2, NetSum
    <2>3. NetOf(R1(v, b), u) = For(v, b, 1, u) + For(v, b, 2, u) + For(v, b, 3, u)
                                 + For(v, b, 4, u) + For(v, b, 5, u)
      BY <1>1, NetSum
    <2>4. /\ For(v, b, 1, u) \in Int /\ For(v, b, 2, u) \in Int /\ For(v, b, 3, u) \in Int
          /\ For(v, b, 4, u) \in Int /\ For(v, b, 5, u) \in Int
      <3>1. \A i \in 1..5 : For(v, b, i, u) \in Int
        BY <1>1, NetSum
      <3> QED
        BY <3>1
    <2>5. NetOf(R1(v, b), u) = NetOf(R1(w, a), u)
      BY <2>1, <2>2, <2>3, <2>4
    <2> QED
      BY <1>1, <2>5 DEF t
  <1> QED
    BY <1>2, <1>3, <1>4

\* Without a bearer of the fee the check of a pickup ascribes it to the owner,
\* and the settlement takes it from the dealer: the others get no less.
LEMMA DeltaBelowNet ==
    ASSUME NEW j \in Dock, Terms[j].feePayer = "unset", NEW u, u # Terms[j].dealer
    PROVE  Delta(Terms[j], u) <= NetOf(Settlement(Terms[j]), u)
  <1> DEFINE t == Terms[j]
             w == Who(t)
             a == Much(t)
             v == Forecast(t)
             b == Amount(t)
  <1>1. /\ Settlement(t) = R1(w, a) /\ Delta(t, u) = NetOf(R1(v, b), u)
        /\ \A i \in 1..5 : v[i] \in User /\ b[i] \in Int
    BY SettlementPieces
  <1>2. (\A i \in 1..5 : w[i] \in User /\ a[i] \in Int) /\ t.fee \in Nat
    BY TermsTyped
  <1>3. /\ For(w, a, 1, u) = For(v, b, 1, u) /\ For(w, a, 2, u) = 0
        /\ For(w, a, 3, u) = For(v, b, 2, u) /\ For(w, a, 4, u) = For(v, b, 3, u)
        /\ For(w, a, 5, u) = For(v, b, 4, u) /\ For(v, b, 5, u) = (IF u = t.owner THEN -t.fee ELSE 0)
    BY DEF For, Who, Forecast, Much, Amount
  <1>4. For(v, b, 5, u) <= 0
    BY <1>2, <1>3
  <1> HIDE DEF t, w, a, v, b
  <1>5. NetOf(R1(w, a), u) = For(w, a, 1, u) + For(w, a, 2, u) + For(w, a, 3, u)
                               + For(w, a, 4, u) + For(w, a, 5, u)
    BY <1>2, NetSum
  <1>6. NetOf(R1(v, b), u) = For(v, b, 1, u) + For(v, b, 2, u) + For(v, b, 3, u)
                               + For(v, b, 4, u) + For(v, b, 5, u)
    BY <1>1, NetSum
  <1>7. \A i \in 1..5 : For(v, b, i, u) \in Int
    BY <1>1, NetSum
  <1>8. /\ For(v, b, 1, u) \in Int /\ For(v, b, 2, u) \in Int /\ For(v, b, 3, u) \in Int
        /\ For(v, b, 4, u) \in Int /\ For(v, b, 5, u) \in Int
    BY <1>7
  <1>9. NetOf(R1(v, b), u) <= NetOf(R1(w, a), u)
    BY <1>3, <1>4, <1>5, <1>6, <1>8
  <1> QED
    BY <1>1, <1>9 DEF t

\* Who books pays, at any time, no more than the dealer's price and fee; but
\* for the owner and a fee above the price, and for a first level that passes
\* the goods on for less than it pays.
LEMMA DealerPays ==
    ASSUME NEW j \in Dock, NEW u, ~(u = Terms[j].level1 /\ Undersold(Terms[j])),
           NEW s \in Rests(Who(Terms[j]), Much(Terms[j])),
           ~(u = Terms[j].owner /\ Terms[j].fee > Terms[j].cost)
    PROVE  NetOf(Settlement(Terms[j]), u) - NetOf(s, u)
             >= -(IF u = Terms[j].dealer THEN Charged(Terms[j]) ELSE 0)
  <1> DEFINE t == Terms[j]
             w == Who(t)
             a == Much(t)
             F(i) == For(w, a, i, u)
             least == -(IF u = t.dealer THEN Charged(t) ELSE 0)
  <1>1. Settlement(t) = R1(w, a) /\ \A i \in 1..5 : w[i] \in User /\ a[i] \in Int
    BY SettlementPieces, TermsTyped
  <1>2. /\ t.level \in {1, 2} /\ t.cost \in Nat /\ t.level2Cost \in Nat /\ t.fee \in Nat
        /\ Price(t) \in Nat
        /\ Resale(t) \in Int /\ Purchase(t) \in Int
    BY TermsTyped
  <1>3. /\ Resale(t) >= 0 /\ (u = t.level1 => Resale(t) + Purchase(t) >= 0)
        /\ u = t.owner => t.fee <= t.cost
    BY <1>2 DEF Resale, Purchase, Undersold
  <1>4. t.feePayer = "distributor" =>
          /\ F(1) = (IF u = t.dealer THEN -Price(t) ELSE 0)
          /\ F(2) = (IF u = t.level1 THEN Resale(t) ELSE 0)
          /\ F(3) = (IF u = t.level1 THEN Purchase(t) ELSE 0)
          /\ F(4) = (IF u = t.owner THEN t.cost ELSE 0)
          /\ F(5) = (IF u = t.owner THEN -t.fee ELSE 0)
          /\ Charged(t) = Price(t) + 0
    BY DEF For, Who, Much, Charged
  <1>5. t.feePayer # "distributor" =>
          /\ F(1) = (IF u = t.dealer THEN -Price(t) ELSE 0)
          /\ F(2) = (IF u = t.dealer THEN -t.fee ELSE 0)
          /\ F(3) = (IF u = t.level1 THEN Resale(t) ELSE 0)
          /\ F(4) = (IF u = t.level1 THEN Purchase(t) ELSE 0)
          /\ F(5) = (IF u = t.owner THEN t.cost ELSE 0)
          /\ Charged(t) = Price(t) + t.fee
    BY DEF For, Who, Much, Charged
  <1> HIDE DEF t, w, a
  <1>6. F(1) \in Int /\ F(2) \in Int /\ F(3) \in Int /\ F(4) \in Int /\ F(5) \in Int
    <2>1. \A i \in 1..5 : F(i) \in Int
      BY <1>1, NetSum
    <2> QED
      BY <2>1
  <1>7. /\ NetOf(R5(w, a), u) = F(5) /\ NetOf(R4(w, a), u) = F(4) + F(5)
        /\ NetOf(R3(w, a), u) = F(3) + F(4) + F(5) /\ NetOf(R2(w, a), u) = F(2) + F(3) + F(4) + F(5)
        /\ NetOf(R1(w, a), u) = F(1) + F(2) + F(3) + F(4) + F(5)
    BY <1>1, NetSum
  <1> HIDE DEF F
  <1>8. /\ 0 >= least /\ F(1) >= least /\ F(1) + F(2) >= least /\ F(1) + F(2) + F(3) >= least
        /\ F(1) + F(2) + F(3) + F(4) >= least /\ F(1) + F(2) + F(3) + F(4) + F(5) >= least
    <2>1. CASE t.feePayer = "distributor"
      BY <1>2, <1>3, <1>4, <2>1
    <2>2. CASE t.feePayer # "distributor"
      <3>1. 0 >= least /\ F(1) >= least /\ F(1) + F(2) >= least
        BY <1>2, <1>5, <2>2
      <3>2. F(3) >= 0 /\ F(3) + F(4) >= 0 /\ F(5) >= 0
        BY <1>2, <1>3, <1>5, <2>2
      <3>3. least \in Int
        BY <1>2, <1>5, <2>2
      <3> HIDE DEF least
      <3> QED
        BY <1>6, <3>1, <3>2, <3>3
    <2> QED
      BY <1>2, <2>1, <2>2
  <1>9. s \in {R1(w, a), R2(w, a), R3(w, a), R4(w, a), R5(w, a), <<>>}
    BY DEF Rests, t, w, a
  <1>10. NetOf(<<>>, u) = 0
    BY NetNone
  <1>11. NetOf(R1(w, a), u) - NetOf(s, u) >= least
    <2>0. least \in Int
      <3>1. Charged(t) \in Int
        BY <1>2 DEF Charged
      <3> QED
        BY <3>1
    <2> HIDE DEF least
    <2>1. CASE s = R1(w, a)
      BY <1>6, <1>7, <1>8, <2>0, <2>1
    <2>2. CASE s = R2(w, a)
      BY <1>6, <1>7, <1>8, <2>0, <2>2
    <2>3. CASE s = R3(w, a)
      BY <1>6, <1>7, <1>8, <2>0, <2>3
    <2>4. CASE s = R4(w, a)
      BY <1>6, <1>7, <1>8, <2>0, <2>4
    <2>5. CASE s = R5(w, a)
      BY <1>6, <1>7, <1>8, <2>0, <2>5
    <2>6. CASE s = <<>>
      <3> DEFINE total == F(1) + F(2) + F(3) + F(4) + F(5)
      <3>1. NetOf(R1(w, a), u) = total /\ NetOf(s, u) = 0 /\ total >= least
        BY <1>7, <1>8, <1>10, <2>6
      <3>2. total \in Int
        BY <1>6
      <3> HIDE DEF total
      <3> QED
        BY <2>0, <3>1, <3>2
    <2> QED
      BY <1>9, <2>1, <2>2, <2>3, <2>4, <2>5, <2>6
  <1> QED
    BY <1>1, <1>11 DEF t

\* Who changes a balance adds a flow.
LEMMA FlowsGrow ==
    ASSUME TypeOK, NEW k \in Job, Commit(k), NEW u \in User
    PROVE  /\ Len(flows'[u]) >= Len(flows[u])
           /\ Len(flows'[u]) = Len(flows[u]) => balance'[u] = balance[u]
  <1> DEFINE more == IF k \in Advert /\ u = Payer(k) THEN <<Receipt(k)>> ELSE <<>>
  <1>1. flows[u] \in Seq(Flow) /\ written[u] \in Seq(Flow)
    BY DEF TypeOK
  <1>2. more \in Seq(Flow)
    <2>1. \A f \in Flow : <<f>> \in Seq(Flow)
      OBVIOUS
    <2> QED
      BY <2>1, ReceiptTyped
  <1>3. /\ flows'[u] = (IF holder[u] = k THEN flows[u] \o written[u] ELSE flows[u]) \o more
        /\ balance'[u] = IF holder[u] = k THEN Value(u) ELSE balance[u]
    BY DEF Commit, Publish
  <1> HIDE DEF more
  <1>4. \A r, s \in Seq(Flow) : /\ r \o s \in Seq(Flow) /\ Len(r \o s) = Len(r) + Len(s)
                                /\ Len(r) \in Nat /\ Len(s) \in Nat
    OBVIOUS
  <1>5. CASE holder[u] = k
    <2> DEFINE r == flows[u] \o written[u]
    <2>1. r \in Seq(Flow) /\ Len(r) = Len(flows[u]) + Len(written[u])
      BY <1>1, <1>4
    <2> HIDE DEF r
    <2>2. flows'[u] = r \o more
      BY <1>3, <1>5 DEF r
    <2>3. Len(flows'[u]) = Len(flows[u]) + Len(written[u]) + Len(more)
      BY <1>2, <1>4, <2>1, <2>2
    <2>4. Len(flows[u]) \in Nat /\ Len(written[u]) \in Nat /\ Len(more) \in Nat
      BY <1>1, <1>2, <1>4
    <2>5. Len(written[u]) = 0 => written[u] = <<>>
      BY <1>1
    <2>6. written[u] = <<>> => balance'[u] = balance[u]
      BY <1>3 DEF Value
    <2> DEFINE n == Len(flows[u])
               m == Len(written[u])
               l == Len(more)
               all == Len(flows'[u])
    <2>9. all = n + m + l /\ n \in Nat /\ m \in Nat /\ l \in Nat
      BY <2>3, <2>4
    <2> HIDE DEF n, m, l, all
    <2>10. all >= n /\ (all = n => m = 0)
      BY <2>9
    <2>7. Len(flows'[u]) = Len(flows[u]) => Len(written[u]) = 0
      BY <2>10 DEF n, m, all
    <2>8. Len(flows'[u]) >= Len(flows[u])
      BY <2>10 DEF n, all
    <2> QED
      BY <2>5, <2>6, <2>7, <2>8
  <1>6. CASE holder[u] # k
    <2>1. Len(flows'[u]) = Len(flows[u]) + Len(more) /\ balance'[u] = balance[u]
      BY <1>1, <1>2, <1>3, <1>4, <1>6
    <2>2. Len(flows[u]) \in Nat /\ Len(more) \in Nat
      BY <1>1, <1>2, <1>4
    <2> QED
      BY <2>1, <2>2
  <1> QED
    BY <1>5, <1>6

(* A delivery under way has been checked: unless the dealer's flows have   *)
(* grown since, the balance is what the check found enough.                *)
Checked(d) ==
    LET dealer == Terms[d].dealer IN
    /\ ~Undersold(quoted[d])
    /\ Len(flows[dealer]) >= seen[d]
    /\ Len(flows[dealer]) = seen[d] => balance[dealer] >= Required(quoted[d])

DeliveriesInv ==
    \A d \in Delivery :
        /\ todo[d] \in Rests(Who(Terms[d]), Much(Terms[d]))
        /\ pc[d] \in {"booking", "cut"} => Checked(d)

LEMMA DeliveriesInit == Init => DeliveriesInv
  <1> SUFFICES ASSUME Init, NEW d \in Delivery
               PROVE  todo[d] \in Rests(Who(Terms[d]), Much(Terms[d])) /\ pc[d] = "new"
    BY DEF DeliveriesInv
  <1>1. d \in Dock /\ d \in Job
    BY DEF Dock, Job
  <1> QED
    BY <1>1, SettlementPieces DEF Init, Entries, Rests

\* A delivery gets to the booking by its check.
LEMMA OnlyChecked ==
    ASSUME TypeOK, [Next]_vars, NEW d \in Delivery, pc'[d] \in {"booking", "cut"}
    PROVE  PreCheck(d) \/ (pc[d] \in {"booking", "cut"} /\ seen'[d] = seen[d] /\ quoted'[d] = quoted[d])
  <1>0. /\ d \in Job /\ d \notin Notice /\ d \notin Single /\ d \notin Advert /\ d \notin Pickup
        /\ d \notin Review
    BY WalletAssumption DEF Job, Dock
  <1> DEFINE Recalls == seen'[d] = seen[d] /\ quoted'[d] = quoted[d]
             Goal == PreCheck(d) \/ (pc[d] \in {"booking", "cut"} /\ Recalls)
  <1>1. ASSUME NEW j, NEW place, Goto(j, place), j # d \/ place \notin {"booking", "cut"},
               Recalls
        PROVE  Goal
    BY <1>0, <1>1 DEF Goto, TypeOK
  <1>2. ASSUME NEW j, Begin(j)
        PROVE  Goal
    <2>1. CASE PreCheck(j)
      <3>1. CASE j = d
        BY <2>1, <3>1
      <3>2. CASE j # d
        <4>1. Recalls /\ \E place : Goto(j, place)
          BY <2>1, <3>2 DEF PreCheck, SeeFlows, TypeOK
        <4> QED
          BY <1>1, <3>2, <4>1
      <3> QED
        BY <3>1, <3>2
    <2>2. CASE ~PreCheck(j)
      <3>1. j # d /\ \E place : Goto(j, place)
        BY <1>0, <1>2, <2>2 DEF Begin, ReadOrder, BeginSingle, BeginPickup, ReadAdvert, ReadRecord
      <3>2. Recalls
        BY <1>2, <2>2, <3>1 DEF Begin, ReadOrder, SeeFlows, BeginSingle, BeginPickup, ReadAdvert, ReadRecord,
                                progress, TypeOK
      <3> QED
        BY <1>1, <3>1, <3>2
    <2> QED
      BY <2>1, <2>2
  <1>3. ASSUME NEW j, CheckParties(j) \/ Refuse(j) \/ Commit(j) \/ Abort(j) \/ Victim(j) \/ WriteVerdict(j)
        PROVE  Goal
    <2>1. PICK place : Goto(j, place) /\ (j # d \/ place \notin {"booking", "cut"})
      BY <1>0, <1>3 DEF CheckParties, Refuse, Commit, Abort, Victim, Undo, WriteVerdict
    <2>2. Recalls
      BY <1>3 DEF CheckParties, Refuse, Commit, Abort, Victim, Undo, WriteVerdict, progress
    <2> QED
      BY <1>1, <2>1, <2>2
  <1>4. ASSUME NEW j, CutOff(j)
        PROVE  Goal
    <2>1. Goto(j, "cut") /\ Recalls /\ pc[j] = "booking"
      BY <1>4 DEF CutOff, progress
    <2>2. CASE j = d
      BY <2>1, <2>2
    <2>3. CASE j # d
      BY <1>1, <2>1, <2>3
    <2> QED
      BY <2>2, <2>3
  <1>5. ASSUME UNCHANGED <<pc, seen, quoted>>
        PROVE  Goal
    BY <1>5
  <1>6. ASSUME NEW j, LockParty(j) \/ Book(j)
        PROVE  Goal
    BY <1>5, <1>6 DEF LockParty, Book, progress
  <1> HIDE DEF Goal
  <1>7. Goal
    <2>1. CASE \E j \in Job \cup Review : Begin(j)
      BY <1>2, <2>1
    <2>2. CASE \E j \in Job : Continue(j) \/ CutOff(j) \/ Abort(j) \/ Victim(j)
      BY <1>3, <1>4, <1>6, <2>2 DEF Continue
    <2>3. CASE \E r \in Review : WriteVerdict(r)
      BY <1>3, <2>3
    <2>4. CASE UNCHANGED vars
      BY <1>5, <2>4 DEF vars, progress
    <2> QED
      BY <2>1, <2>2, <2>3, <2>4 DEF Next
  <1> QED
    BY <1>7 DEF Goal

LEMMA DeliveriesStep == TypeOK /\ DeliveriesInv /\ [Next]_vars => DeliveriesInv'
  <1> SUFFICES ASSUME TypeOK, DeliveriesInv, [Next]_vars, NEW d \in Delivery
               PROVE  /\ todo'[d] \in Rests(Who(Terms[d]), Much(Terms[d]))
                      /\ pc'[d] \in {"booking", "cut"} => Checked(d)'
    BY DEF DeliveriesInv, Rests, Who, Much, R1, R2, R3, R4, R5, Entry, Price, Resale, Purchase
  <1>0. d \in Dock /\ d \in Job
    BY DEF Dock, Job
  <1>1. todo'[d] \in Rests(Who(Terms[d]), Much(Terms[d]))
    <2>1. CASE UNCHANGED todo
      BY <2>1 DEF DeliveriesInv
    <2>2. CASE \E j \in Job : Book(j)
      <3>1. PICK j \in Job : Book(j)
        BY <2>2
      <3>2. todo' = [todo EXCEPT ![j] = Tail(@)] /\ todo[j] # <<>>
        BY <3>1 DEF Book, CanBook, Write
      <3>3. CASE d = j
        <4>1. todo'[d] = Tail(todo[d]) /\ todo[d] # <<>>
          BY <1>0, <3>2, <3>3 DEF TypeOK
        <4>2. \A i \in 1..5 : Who(Terms[d])[i] \in User /\ Much(Terms[d])[i] \in Int
          BY <1>0, TermsTyped
        <4> QED
          BY <4>1, <4>2, RestsTail DEF DeliveriesInv
      <3>4. CASE d # j
        BY <1>0, <3>2, <3>4 DEF TypeOK, DeliveriesInv
      <3> QED
        BY <3>3, <3>4
    <2>3. ~(\E j \in Job : Book(j)) => UNCHANGED todo
      BY DEF Next, Begin, Continue, ReadOrder, BeginSingle, PreCheck, BeginPickup, ReadAdvert, ReadRecord,
             LockParty, CheckParties, Refuse, Commit, CutOff, Abort, Victim, Undo, WriteVerdict, vars
    <2> QED
      BY <2>1, <2>2, <2>3
  <1>2. ASSUME pc'[d] \in {"booking", "cut"} PROVE Checked(d)'
    <2> DEFINE dealer == Terms[d].dealer
    <2>1. dealer \in User
      BY <1>0, TermsTyped
    <2>6. \A t \in Offer : Required(t) \in Int
      BY DEF Offer, Required, Price
    <2>7. Required(quoted[d]) \in Int
      BY <2>6 DEF TypeOK
    <2>8. \A t : (Undersold(t)' <=> Undersold(t)) /\ Required(t)' = Required(t)
      BY DEF Undersold, Required, Price
    <2> HIDE DEF dealer
    <2>2. /\ flows[dealer] \in Seq(Flow) /\ flows'[dealer] \in Seq(Flow)
          /\ balance[dealer] \in Int /\ seen[d] \in Nat
      BY <2>1, TypeStep DEF TypeOK
    <2>3. Len(flows[dealer]) \in Nat /\ Len(flows'[dealer]) \in Nat
      BY <2>2
    <2>4. CASE PreCheck(d)
      <3>1. UNCHANGED <<balance, flows>> /\ seen'[d] = Len(flows[dealer])
        BY <2>4 DEF PreCheck, SeeFlows, tables, TypeOK, dealer
      <3>2. PICK t \in Quotes[d] :
              /\ Goto(d, IF Undersold(t) \/ balance[t.dealer] < Required(t) THEN "refused" ELSE "booking")
              /\ quoted' = [quoted EXCEPT ![d] = t]
        BY <2>4 DEF PreCheck
      <3>3. t \in Offer /\ t.dealer = dealer /\ quoted'[d] = t
        BY <3>2, WalletAssumption DEF TypeOK, dealer
      <3>4. ~(Undersold(t) \/ balance[dealer] < Required(t))
        <4>1. CASE Undersold(t) \/ balance[dealer] < Required(t)
          <5>1. Goto(d, "refused")
            BY <3>2, <3>3, <4>1
          <5> QED
            BY <1>0, <1>2, <5>1 DEF Goto, TypeOK
        <4> QED
          BY <4>1
      <3>5. Required(t) \in Int
        BY <2>6, <3>3
      <3>6. ~Undersold(t) /\ balance[dealer] >= Required(t)
        BY <2>2, <3>4, <3>5
      <3>7. ~Undersold(quoted'[d]) /\ balance'[dealer] >= Required(quoted'[d])
        BY <3>1, <3>3, <3>6
      <3>8. Len(flows'[dealer]) >= seen'[d]
        BY <2>3, <3>1
      <3> QED
        BY <2>8, <3>7, <3>8 DEF Checked, dealer
    <2>5. CASE pc[d] \in {"booking", "cut"} /\ seen'[d] = seen[d] /\ quoted'[d] = quoted[d]
      <3>1. Checked(d)
        BY <2>5 DEF DeliveriesInv
      <3>2. /\ Len(flows'[dealer]) >= Len(flows[dealer])
            /\ Len(flows'[dealer]) = Len(flows[dealer]) => balance'[dealer] = balance[dealer]
        <4>1. CASE UNCHANGED <<balance, flows>>
          BY <2>3, <4>1
        <4>2. CASE \E k \in Job : Commit(k)
          BY <2>1, <4>2, FlowsGrow
        <4> QED
          BY <4>1, <4>2, OnlyCommits
      <3>3. /\ ~Undersold(quoted[d]) /\ Len(flows'[dealer]) >= seen[d]
            /\ Len(flows'[dealer]) = seen[d] => balance'[dealer] >= Required(quoted[d])
        BY <2>2, <2>3, <2>7, <3>1, <3>2 DEF Checked, dealer
      <3>4. /\ ~Undersold(quoted'[d]) /\ Len(flows'[dealer]) >= seen'[d]
            /\ Len(flows'[dealer]) = seen'[d] => balance'[dealer] >= Required(quoted'[d])
        BY <2>5, <3>3
      <3> QED
        BY <2>8, <3>4 DEF Checked, dealer
    <2> QED
      BY <1>2, <2>4, <2>5, OnlyChecked
  <1> QED
    BY <1>1, <1>2

(* A row that an adjustment, a renewal or a withdrawal has locked is not   *)
(* below zero; one that an advert has locked is its receiver's.            *)
Rows(u) ==
    /\ holder[u] \in Single => Value(u) >= 0
    /\ \A a \in Advert : holder[u] = a =>
         u = Request[a].user /\ Value(u) = basis[a][u] + Request[a].amount

RowsInv == \A u \in User : Rows(u)

LEMMA RowsStep == TypeOK /\ LocksInv /\ AdvertsInv /\ RowsInv /\ [Next]_vars => RowsInv'
  <1> SUFFICES ASSUME TypeOK, LocksInv, AdvertsInv, RowsInv, [Next]_vars, NEW u \in User
               PROVE  Rows(u)'
    BY DEF RowsInv
  <1>1. ASSUME holder'[u] = holder[u],
               holder[u] # Free => written'[u] = written[u] /\ balance'[u] = balance[u],
               \A a \in Advert : holder[u] = a => basis'[a] = basis[a]
        PROVE  Rows(u)'
    <2>1. Free \notin Single /\ Free \notin Advert
      BY WalletAssumption DEF Job
    <2>2. holder[u] # Free => Value(u)' = Value(u)
      BY <1>1 DEF Value
    <2> QED
      BY <1>1, <2>1, <2>2 DEF RowsInv, Rows
  <1>2. ASSUME holder'[u] \notin Single, holder'[u] \notin Advert
        PROVE  Rows(u)'
    BY <1>2 DEF Rows
  <1>3. ASSUME NEW j, Unlock(j), basis' = basis, holder[u] # j => balance'[u] = balance[u]
        PROVE  Rows(u)'
    <2>1. CASE holder[u] = j
      <3>1. holder'[u] = Free
        BY <1>3, <2>1 DEF Unlock
      <3> QED
        BY <1>2, <3>1, WalletAssumption DEF Job
    <2>2. CASE holder[u] # j
      <3>1. holder'[u] = holder[u] /\ written'[u] = written[u]
        BY <1>3, <2>2 DEF Unlock
      <3> QED
        BY <1>1, <1>3, <2>2, <3>1
    <2> QED
      BY <2>1, <2>2
  <1>4. ASSUME UNCHANGED <<holder, written, balance, basis>>
        PROVE  Rows(u)'
    BY <1>1, <1>4
  <1>5. ASSUME NEW j, Begin(j)
        PROVE  Rows(u)'
    <2>1. UNCHANGED <<holder, written, balance>>
      BY <1>5 DEF Begin, ReadOrder, BeginSingle, PreCheck, BeginPickup, ReadAdvert, ReadRecord, tables
    <2>2. CASE ReadAdvert(j)
      <3>1. pc[j] = "new" /\ \A a \in Advert \ {j} : basis'[a] = basis[a]
        BY <2>2 DEF ReadAdvert, TypeOK
      <3>2. j # Free => holder[u] # j
        BY <3>1 DEF LocksInv, UnderWay
      <3>3. \A a \in Advert : a # Free
        BY WalletAssumption DEF Job
      <3> QED
        BY <1>1, <2>1, <3>1, <3>2, <3>3
    <2>3. CASE ~ReadAdvert(j)
      <3>1. basis' = basis
        BY <1>5, <2>3 DEF Begin, ReadOrder, BeginSingle, PreCheck, BeginPickup, ReadRecord, progress
      <3> QED
        BY <1>4, <2>1, <3>1
    <2> QED
      BY <2>2, <2>3
  <1>6. ASSUME NEW j \in Job, LockParty(j)
        PROVE  Rows(u)'
    <2>1. /\ j \in Pickup /\ holder' = [holder EXCEPT ![NextParty(j)] = j]
          /\ UNCHANGED <<written, balance, basis>>
      BY <1>6 DEF LockParty, tables, progress
    <2>2. holder'[u] = holder[u] \/ holder'[u] = j
      BY <2>1 DEF TypeOK
    <2>3. j \notin Single /\ j \notin Advert
      BY <2>1, WalletAssumption DEF Dock
    <2> QED
      BY <1>1, <1>2, <2>1, <2>2, <2>3
  <1>7. ASSUME NEW j \in Job, Book(j)
        PROVE  Rows(u)'
    <2>1. todo[j] \in Seq(Change) /\ todo[j] # <<>>
      BY <1>7 DEF TypeOK, Book, CanBook
    <2>2. Head(todo[j]) \in Change
      BY <2>1
    <2>3. PICK v \in User, a \in Int : v = NextUser(j) /\ a = Head(todo[j]).amount
      BY <2>2 DEF NextUser, Change
    <2> DEFINE f == [job |-> j, before |-> Base(j), after |-> Base(j) + a]
    <2>4. /\ holder' = [holder EXCEPT ![v] = j]
          /\ written' = [written EXCEPT ![v] = Append(@, f)]
          /\ UNCHANGED <<balance, basis>>
          /\ j \in Single => Value(v) + a >= 0
      BY <1>7, <2>3 DEF Book, CanBook, Covered, Write, tables, progress
    <2>5. f.after = Base(j) + a
      OBVIOUS
    <2> HIDE DEF f
    <2>6. CASE u = v
      <3>1. holder'[v] = j /\ written'[v] = Append(written[v], f) /\ written[v] \in Seq(Flow)
        BY <2>3, <2>4 DEF TypeOK
      <3>2. \A s \in Seq(Flow) : /\ Append(s, f) # <<>> /\ Len(Append(s, f)) = Len(s) + 1
                                 /\ Append(s, f)[Len(s) + 1] = f
        OBVIOUS
      <3>3. written'[v] # <<>> /\ Last(written'[v]) = f
        BY <3>1, <3>2 DEF Last
      <3>4. Value(v)' = Base(j) + a
        BY <2>5, <3>3 DEF Value
      <3>5. CASE j \in Single
        <4>1. Base(j) = Value(v) /\ \A b \in Advert : j # b
          BY <2>3, <3>5, WalletAssumption DEF Base
        <4>2. Value(v)' >= 0
          BY <2>4, <3>4, <3>5, <4>1
        <4> QED
          BY <2>6, <3>1, <4>1, <4>2 DEF Rows
      <3>6. CASE j \in Advert
        <4>1. todo[j] = <<Request[j]>>
          BY <2>1, <3>6 DEF AdvertsInv
        <4>2. Head(todo[j]) = Request[j]
          BY <4>1
        <4>3. v = Request[j].user /\ a = Request[j].amount /\ Base(j) = basis[j][v] /\ j \notin Single
          BY <2>3, <3>6, <4>2, WalletAssumption DEF NextUser, Base
        <4> QED
          BY <2>4, <2>6, <3>1, <3>4, <4>3 DEF Rows
      <3> QED
        BY <1>2, <2>6, <3>1, <3>5, <3>6
    <2>7. CASE u # v
      <3>1. holder'[u] = holder[u] /\ written'[u] = written[u]
        BY <2>3, <2>4, <2>7 DEF TypeOK
      <3> QED
        BY <1>1, <2>4, <3>1
    <2> QED
      BY <2>6, <2>7
  <1>8. ASSUME NEW j, Commit(j)
        PROVE  Rows(u)'
    <2>1. Unlock(j) /\ basis' = basis /\ (holder[u] # j => balance'[u] = balance[u])
      BY <1>8 DEF Commit, Publish, progress
    <2> QED
      BY <1>3, <2>1
  <1>9. ASSUME NEW j, CheckParties(j) \/ Refuse(j) \/ Abort(j) \/ Victim(j)
        PROVE  Rows(u)'
    <2>1. Unlock(j) \/ UNCHANGED <<holder, written>>
      BY <1>9 DEF CheckParties, Refuse, Abort, Victim, Undo
    <2>2. balance' = balance /\ basis' = basis
      BY <1>9 DEF CheckParties, Refuse, Abort, Victim, Undo, tables, progress
    <2> QED
      BY <1>3, <1>4, <2>1, <2>2
  <1>10. ASSUME NEW j, CutOff(j) \/ WriteVerdict(j)
         PROVE  Rows(u)'
    BY <1>4, <1>10 DEF CutOff, WriteVerdict, tables, progress
  <1>11. CASE \E j \in Job \cup Review : Begin(j)
    BY <1>5, <1>11
  <1>12. CASE \E j \in Job : Continue(j) \/ CutOff(j) \/ Abort(j) \/ Victim(j)
    BY <1>6, <1>7, <1>8, <1>9, <1>10, <1>12 DEF Continue
  <1>13. CASE \E r \in Review : WriteVerdict(r)
    BY <1>10, <1>13
  <1>14. CASE UNCHANGED vars
    BY <1>4, <1>14 DEF vars, tables, progress
  <1> QED
    BY <1>11, <1>12, <1>13, <1>14 DEF Next

(* A pickup that books has all its rows, and everyone can pay.             *)
Affordable(p) ==
    \A u \in Parties(Terms[p]) : Delta(Terms[p], u) < 0 => balance[u] + Delta(Terms[p], u) >= 0

PickupsInv ==
    \A p \in Pickup : pc[p] # "cut" /\ (pc[p] = "booking" => Affordable(p))

\* A pickup gets to the booking by its check.
LEMMA OnlyAffordable ==
    ASSUME TypeOK, [Next]_vars, NEW p \in Pickup, pc'[p] \in {"booking", "cut"}
    PROVE  (CheckParties(p) /\ pc'[p] = "booking" /\ Short(p) = {}) \/ pc[p] = pc'[p]
  <1>0. /\ p \in Job /\ p \notin Notice /\ p \notin Single /\ p \notin Advert /\ p \notin Delivery
        /\ p \notin Review
    BY WalletAssumption DEF Job, Dock
  <1> DEFINE Goal == (CheckParties(p) /\ pc'[p] = "booking" /\ Short(p) = {}) \/ pc[p] = pc'[p]
  <1>1. ASSUME NEW j, NEW place, Goto(j, place), j # p \/ place \notin {"booking", "cut"}
        PROVE  Goal
    BY <1>0, <1>1 DEF Goto, TypeOK
  <1>2. ASSUME CheckParties(p)
        PROVE  Goal
    <2>1. CASE Short(p) = {}
      <3>1. Goto(p, "booking")
        BY <1>2, <2>1 DEF CheckParties
      <3> QED
        BY <1>0, <1>2, <2>1, <3>1 DEF Goto, TypeOK
    <2>2. CASE Short(p) # {}
      <3>1. Goto(p, "refused")
        BY <1>2, <2>2 DEF CheckParties
      <3> QED
        BY <1>1, <3>1
    <2> QED
      BY <2>1, <2>2
  <1>3. ASSUME NEW j, \/ Begin(j) \/ (CheckParties(j) /\ j # p) \/ Refuse(j) \/ Commit(j) \/ Abort(j)
                      \/ Victim(j) \/ WriteVerdict(j) \/ CutOff(j)
        PROVE  Goal
    <2>1. PICK place : Goto(j, place) /\ (j # p \/ place \notin {"booking", "cut"})
      BY <1>0, <1>3 DEF Begin, ReadOrder, BeginSingle, PreCheck, BeginPickup, ReadAdvert, ReadRecord,
              CheckParties, Refuse, Commit, Abort, Victim, Undo, WriteVerdict, CutOff
    <2> QED
      BY <1>1, <2>1
  <1>4. ASSUME UNCHANGED pc
        PROVE  Goal
    BY <1>4
  <1>5. ASSUME NEW j, LockParty(j) \/ Book(j)
        PROVE  Goal
    BY <1>4, <1>5 DEF LockParty, Book
  <1> HIDE DEF Goal
  <1>6. Goal
    <2>1. CASE \E j \in Job \cup Review : Begin(j)
      BY <1>3, <2>1
    <2>2. CASE \E j \in Job : Continue(j) \/ CutOff(j) \/ Abort(j) \/ Victim(j)
      BY <1>2, <1>3, <1>5, <2>2 DEF Continue
    <2>3. CASE \E r \in Review : WriteVerdict(r)
      BY <1>3, <2>3
    <2>4. CASE UNCHANGED vars
      BY <1>4, <2>4 DEF vars
    <2> QED
      BY <2>1, <2>2, <2>3, <2>4 DEF Next
  <1> QED
    BY <1>6 DEF Goal

LEMMA DeltaTyped ==
    ASSUME NEW j \in Dock, NEW u
    PROVE  Delta(Terms[j], u) \in Int
  <1> DEFINE w == Forecast(Terms[j])
             a == Amount(Terms[j])
  <1>1. /\ Delta(Terms[j], u) = NetOf(R1(w, a), u)
        /\ \A i \in 1..5 : w[i] \in User /\ a[i] \in Int
    BY SettlementPieces
  <1> HIDE DEF w, a
  <1> QED
    BY <1>1, RestsTyped, NetTyped

LEMMA PickupsStep == TypeOK /\ LinesInv /\ PickupsInv /\ [Next]_vars => PickupsInv'
  <1> SUFFICES ASSUME TypeOK, LinesInv, PickupsInv, [Next]_vars, NEW p \in Pickup
               PROVE  /\ pc'[p] # "cut"
                      /\ pc'[p] = "booking" => Affordable(p)'
    BY DEF PickupsInv
  <1>0. p \in Dock /\ p \in Job
    BY DEF Dock, Job
  <1>1. pc'[p] # "cut"
    BY OnlyAffordable DEF PickupsInv
  <1>2. ASSUME \A u \in Parties(Terms[p]) : balance'[u] = balance[u], Affordable(p)
        PROVE  Affordable(p)'
    <2>1. \A u : Delta(Terms[p], u)' = Delta(Terms[p], u)
      BY DEF Delta, NetOf, Part, Entry, Price, Income
    <2>2. Parties(Terms[p])' = Parties(Terms[p])
      BY DEF Parties
    <2> QED
      BY <1>2, <2>1, <2>2 DEF Affordable
  <1>3. ASSUME pc'[p] = "booking" PROVE Affordable(p)'
    <2>1. CASE CheckParties(p) /\ Short(p) = {}
      <3>1. balance' = balance
        BY <2>1 DEF CheckParties, tables
      <3>2. Affordable(p)
        <4>1. ASSUME NEW u \in Parties(Terms[p])
              PROVE  balance[u] \in Int /\ Delta(Terms[p], u) \in Int
          BY <1>0, <4>1, PartiesTyped, DeltaTyped DEF TypeOK
        <4>2. \A u \in Parties(Terms[p]) : ~(Delta(Terms[p], u) < 0 /\ balance[u] + Delta(Terms[p], u) < 0)
          BY <2>1 DEF Short
        <4> QED
          BY <4>1, <4>2 DEF Affordable
      <3> QED
        BY <1>2, <3>1, <3>2
    <2>2. CASE pc[p] = "booking"
      <3>1. Affordable(p)
        BY <2>2 DEF PickupsInv
      <3>2. ASSUME NEW u \in Parties(Terms[p]) PROVE balance'[u] = balance[u]
        <4>1. u \in User /\ holder[u] = p
          BY <1>0, <2>2, <3>2, PartiesTyped DEF LinesInv, Lines, Unlocked
        <4>2. ASSUME NEW k \in Job, Commit(k) PROVE balance'[u] = balance[u]
          <5>1. k # p
            BY <1>0, <1>3, <4>2 DEF Commit, Goto, TypeOK
          <5> QED
            BY <4>1, <4>2, <5>1 DEF Commit, Publish
        <4> QED
          BY <4>2, OnlyCommits
      <3> QED
        BY <1>2, <3>1, <3>2
    <2> QED
      BY <1>3, <2>1, <2>2, OnlyAffordable
  <1> QED
    BY <1>1, <1>3

(* Who commits below zero.                                                 *)
DebtInv ==
    /\ LocksInv /\ AdvertsInv /\ NoticesInv /\ LinesInv /\ Balanced
    /\ DeliveriesInv /\ RowsInv /\ PickupsInv

LEMMA NetOutside ==
    ASSUME NEW j \in Dock, NEW u, u \notin Parties(Terms[j])
    PROVE  NetOf(Settlement(Terms[j]), u) = 0
  <1> DEFINE t == Terms[j]
             w == Who(t)
             a == Much(t)
  <1>1. Settlement(t) = R1(w, a) /\ \A i \in 1..5 : w[i] \in User /\ a[i] \in Int
    BY SettlementPieces, TermsTyped
  <1>2. /\ For(w, a, 1, u) = 0 /\ For(w, a, 2, u) = 0 /\ For(w, a, 3, u) = 0
        /\ For(w, a, 4, u) = 0 /\ For(w, a, 5, u) = 0
    <2>1. /\ u # t.dealer /\ u # t.owner /\ (t.level = 2 => u # t.level1) /\ t.level \in {1, 2}
      BY TermsTyped DEF Parties
    <2>2. u = t.level1 => Resale(t) = 0 /\ Purchase(t) = 0
      BY <2>1 DEF Resale, Purchase
    <2> QED
      BY <2>1, <2>2 DEF For, Who, Much
  <1> HIDE DEF t, w, a
  <1>3. NetOf(R1(w, a), u) = 0
    BY <1>1, <1>2, NetSum
  <1> QED
    BY <1>1, <1>3 DEF t

LEMMA DebtStep ==
    ASSUME TypeOK, DebtInv, [Next]_vars,
           NEW u \in User, balance'[u] < balance[u], balance'[u] < 0
    PROVE  \E j \in Dock \cup Advert :
              /\ pc[j] # "done" /\ pc'[j] = "done"
              /\ \/ j \in Delivery /\ Uncovered(j, u)
                 \/ j \in Pickup /\ u = Terms[j].dealer /\ Terms[j].feePayer = "unset"
                 \/ j \in Advert /\ u = Request[j].user /\ basis[j][u] < 0
  <1>1. PICK j \in Job : Commit(j)
    <2>1. balance' # balance
      BY DEF TypeOK
    <2> QED
      BY <2>1, OnlyCommits
  <1>2. /\ balance[u] \in Int /\ Value(u) \in Int
        /\ pc[j] # "done" /\ pc'[j] = "done"
    BY <1>1, ValueTyped DEF TypeOK, Commit, Complete, Goto
  <1>3. holder[u] = j /\ balance'[u] = Value(u)
    BY <1>1, <1>2 DEF Commit, Publish
  <1>4. Value(u) < balance[u] /\ Value(u) < 0
    BY <1>3
  <1>5. /\ Notice \cap Single = {} /\ Delivery \cap Pickup = {} /\ Dock \cap Single = {}
        /\ Advert \cap (Notice \cup Single \cup Dock) = {} /\ Dock \cap Notice = {}
        /\ Delivery \subseteq Dock /\ Pickup \subseteq Dock
    BY WalletAssumption DEF Dock
  <1> DEFINE later == NetOf(todo[j], u)
             all == NetOf(Entries(j), u)
  <1>6. later \in Int /\ all \in Int
    BY EntriesTyped, NetTyped DEF TypeOK
  <1>7. ASSUME j \notin Advert
        PROVE  Value(u) - balance[u] + later = all
    <2>1. pc[j] \in {"booking", "cut"}
      BY <1>1 DEF Commit, Complete
    <2>2. Moved(j, u) + later = all
      BY <1>7, <2>1 DEF DebtInv, Balanced, Balances
    <2> QED
      BY <1>3, <2>2 DEF Moved
  <1>8. pc[j] # "cut" => later = 0
    BY <1>1, NetNone DEF Commit, Complete
  <1>9. CASE j \in Notice
    <2>1. Entries(j) = <<Request[OrderOf[j]]>> /\ Request[OrderOf[j]] \in Change
          /\ Request[OrderOf[j]].amount > 0
      BY <1>5, <1>9, WalletAssumption DEF Entries, Change
    <2>2. Request[OrderOf[j]].amount \in Int
      BY <2>1 DEF Change
    <2>3. all >= 0
      BY <2>1, <2>2, NetOne
    <2>4. later = 0 /\ j \notin Advert
      BY <1>5, <1>8, <1>9 DEF DebtInv, NoticesInv
    <2> HIDE DEF later, all
    <2> QED
      BY <1>2, <1>4, <1>6, <1>7, <2>3, <2>4
  <1>10. CASE j \in Single
    <2>1. Value(u) >= 0
      BY <1>3, <1>10 DEF DebtInv, RowsInv, Rows
    <2> QED
      BY <1>2, <1>4, <2>1
  <1>11. CASE j \in Advert
    <2>1. u = Request[j].user /\ Value(u) = basis[j][u] + Request[j].amount
      BY <1>3, <1>11 DEF DebtInv, RowsInv, Rows
    <2>2. Request[j].amount \in Int /\ Request[j].amount > 0 /\ basis[j][u] \in Int
      BY <1>11, WalletAssumption DEF TypeOK
    <2>3. basis[j][u] < 0
      BY <1>4, <2>1, <2>2
    <2> QED
      BY <1>2, <1>11, <2>1, <2>3
  <1>12. CASE j \in Pickup
    <2>1. pc[j] # "cut" /\ j \notin Advert /\ j \in Dock /\ Entries(j) = Settlement(Terms[j])
      BY <1>5, <1>12 DEF DebtInv, PickupsInv, Entries
    <2>2. pc[j] = "booking"
      BY <1>1, <2>1 DEF Commit, Complete
    <2>3. all = Value(u) - balance[u]
      <3> HIDE DEF later, all
      <3> QED
        BY <1>2, <1>6, <1>7, <1>8, <2>1
    <2>4. u \in Parties(Terms[j])
      <3>1. all # 0
        BY <1>2, <1>4, <2>3
      <3> QED
        BY <2>1, <3>1, NetOutside
    <2>5. CASE u = Terms[j].dealer /\ Terms[j].feePayer = "unset"
      BY <1>2, <1>12, <2>1, <2>5
    <2>6. CASE ~(u = Terms[j].dealer /\ Terms[j].feePayer = "unset")
      <3>1. Delta(Terms[j], u) <= all /\ Delta(Terms[j], u) \in Int
        <4>1. CASE Terms[j].feePayer # "unset"
          <5>1. Delta(Terms[j], u) = all
            BY <2>1, <4>1, DeltaIsNet
          <5> HIDE DEF all
          <5> QED
            BY <1>6, <5>1
        <4>2. CASE Terms[j].feePayer = "unset"
          <5>1. Delta(Terms[j], u) <= all
            BY <2>1, <2>6, <4>2, DeltaBelowNet
          <5> QED
            BY <2>1, <5>1, DeltaTyped
        <4> QED
          BY <4>1, <4>2
      <3> HIDE DEF all
      <3>2. Delta(Terms[j], u) < 0 => balance[u] + Delta(Terms[j], u) >= 0
        BY <1>12, <2>2, <2>4 DEF DebtInv, PickupsInv, Affordable
      <3> QED
        BY <1>2, <1>4, <1>6, <2>3, <3>1, <3>2
    <2> QED
      BY <2>5, <2>6
  <1>13. CASE j \in Delivery
    <2> DEFINE t == Terms[j]
    <2>1. j \notin Advert /\ j \in Dock /\ Entries(j) = Settlement(t)
      BY <1>5, <1>13 DEF Entries
    <2>2. todo[j] \in Rests(Who(t), Much(t)) /\ Checked(j)
      BY <1>1, <1>13 DEF DebtInv, DeliveriesInv, Commit, Complete
    <2>3. all - later = Value(u) - balance[u]
      <3> HIDE DEF later, all
      <3> QED
        BY <1>2, <1>6, <1>7, <2>1
    <2>4. SUFFICES Uncovered(j, u)
      BY <1>2, <1>13, <2>1
    <2>5. CASE u = t.owner /\ t.fee > t.cost
      BY <2>5 DEF Uncovered
    <2>6. CASE u = t.level1 /\ Undersold(t)
      BY <2>2, <2>6 DEF Checked, Uncovered
    <2>7. CASE ~(u = t.owner /\ t.fee > t.cost) /\ ~(u = t.level1 /\ Undersold(t))
      <3>1. all - later >= -(IF u = t.dealer THEN Charged(t) ELSE 0)
        BY <2>1, <2>2, <2>7, DealerPays
      <3>2. /\ Charged(t) \in Int /\ Required(quoted[j]) \in Int
            /\ Len(flows[u]) \in Nat /\ seen[j] \in Nat
        <4>1. Charged(t) \in Int
          BY <2>1, TermsTyped DEF Charged
        <4>2. flows[u] \in Seq(Flow)
          BY DEF TypeOK
        <4>3. \A o \in Offer : Required(o) \in Int
          BY DEF Offer, Required, Price
        <4>4. quoted[j] \in Offer
          BY <1>13 DEF TypeOK
        <4> QED
          BY <1>13, <4>1, <4>2, <4>3, <4>4 DEF TypeOK
      <3>3. u = t.dealer
        BY <1>2, <1>4, <2>3, <3>1
      <3>4. ~(balance[u] >= Charged(t))
        <4> HIDE DEF all, later, t
        <4> QED
          BY <1>2, <1>4, <1>6, <2>3, <3>1, <3>2, <3>3
      <3>5. /\ Len(flows[u]) >= seen[j]
            /\ Len(flows[u]) = seen[j] => balance[u] >= Required(quoted[j])
        BY <2>2, <3>3 DEF Checked
      <3>6. Len(flows[u]) > seen[j] \/ Charged(t) > Required(quoted[j])
        <4> HIDE DEF all, later, t
        <4> QED
          BY <1>2, <3>2, <3>4, <3>5
      <3> QED
        BY <3>3, <3>6 DEF Uncovered
    <2> QED
      BY <2>5, <2>6, <2>7
  <1> QED
    BY <1>9, <1>10, <1>11, <1>12, <1>13 DEF Job, Dock

\* No recharge, adjustment, renewal or withdrawal takes an account below
\* zero, and a pickup only its dealer's, with a fee that nobody was named to
\* bear.  A delivery takes the owner there by a fee above the price; the dealer
\* if somebody has moved the dealer's money since the check before the goods,
\* or if the settlement charges more than the check asked for; and the first
\* level if the prices were edited in between.  It does nothing more when it is
\* cut off between two entries.  An advert writes back a balance that was below
\* zero when it was read.
THEOREM OverdraftsExplained == Spec => OverdraftExplained
  <1>1. Init => DebtInv
    <2>1. Init => LocksInv /\ RowsInv /\ PickupsInv
      BY WalletAssumption DEF Init, LocksInv, RowsInv, Rows, PickupsInv, Job, Dock
    <2> QED
      BY <2>1, AdvertsInit, NoticesInit, LinesInit, BalancedInit, DeliveriesInit DEF DebtInv
  <1>2. TypeOK /\ DebtInv /\ [Next]_vars => DebtInv'
    BY LocksStep, AdvertsStep, NoticesStep, LinesStep, BalancedStep, DeliveriesStep, RowsStep, PickupsStep
       DEF DebtInv
  <1> DEFINE Explained ==
        \A u \in User : balance'[u] < balance[u] /\ balance'[u] < 0 =>
          \E j \in Dock \cup Advert :
             /\ pc[j] # "done" /\ pc'[j] = "done"
             /\ \/ j \in Delivery /\ Uncovered(j, u)
                \/ j \in Pickup /\ u = Terms[j].dealer /\ Terms[j].feePayer = "unset"
                \/ j \in Advert /\ u = Request[j].user /\ basis[j][u] < 0
  <1>3. TypeOK /\ DebtInv /\ [Next]_vars => [Explained]_vars
    BY DebtStep
  <1> HIDE DEF Explained
  <1>4. Spec => [][Explained]_vars
    BY <1>1, <1>2, <1>3, TypeCorrect, PTL DEF Spec
  <1> QED
    BY <1>4 DEF OverdraftExplained, Explained
-----------------------------------------------------------------------------
(* Settlements.  What u gets and pays in a sequence of entries.            *)
LEMMA MineTyped ==
    ASSUME NEW s \in Seq(Change), NEW i, NEW u
    PROVE  Mine(s, i, u) \in Seq(Int)
  <1>1. ASSUME i \in DOMAIN s PROVE s[i].amount \in Int
    <2>1. s[i] \in Change
      BY <1>1
    <2> QED
      BY <2>1 DEF Change
  <1>2. <<>> \in Seq(Int) /\ \A a \in Int : <<a>> \in Seq(Int)
    OBVIOUS
  <1> QED
    BY <1>1, <1>2 DEF Mine

LEMMA DuesTyped ==
    ASSUME NEW s \in Seq(Change), NEW u
    PROVE  Dues(s, u) \in Seq(Int)
  BY MineTyped, Concatenated DEF Dues

LEMMA DuesNone == ASSUME NEW u PROVE Dues(<<>>, u) = <<>>
  <1>1. \A i : Mine(<<>>, i, u) = <<>>
    BY DEF Mine
  <1>2. <<>> \o <<>> = <<>>
    OBVIOUS
  <1> QED
    BY <1>1, <1>2 DEF Dues

\* The first entry and the rest.
LEMMA DuesTail ==
    ASSUME NEW s \in Seq(Change), NEW u, s # <<>>, Len(s) <= 5
    PROVE  Dues(s, u) = (IF Head(s).user = u THEN <<Head(s).amount>> ELSE <<>>) \o Dues(Tail(s), u)
  <1> DEFINE r == Tail(s)
             Cat(x, y) == x \o y
  <1>1. /\ Len(s) \in 1..5 /\ Head(s) = s[1]
        /\ DOMAIN s = 1..Len(s) /\ DOMAIN r = 1..(Len(s) - 1)
        /\ \A i \in 1..(Len(s) - 1) : r[i] = s[i + 1]
    <2>1. Len(s) \in Nat /\ Len(s) # 0
      OBVIOUS
    <2>2. Len(s) \in 1..5
      <3>1. \A n \in Nat : n # 0 /\ n <= 5 => n \in 1..5
        OBVIOUS
      <3> QED
        BY <2>1, <3>1
    <2>3. r \in Seq(Change) /\ Len(r) = Len(s) - 1 /\ Head(s) = s[1]
      OBVIOUS
    <2>4. \A i \in 1..Len(r) : r[i] = s[i + 1]
      OBVIOUS
    <2> HIDE DEF r
    <2>5. DOMAIN s = 1..Len(s) /\ DOMAIN r = 1..Len(r)
      BY <2>3
    <2> QED
      BY <2>2, <2>3, <2>4, <2>5
  <1> HIDE DEF r
  <1>2. \A i \in 1..4 : i \in DOMAIN r <=> i + 1 \in DOMAIN s
    BY <1>1
  <1>3. \A i \in 1..4 : Mine(r, i, u) = Mine(s, i + 1, u)
    BY <1>1, <1>2 DEF Mine
  <1>4. /\ Mine(r, 1, u) = Mine(s, 2, u) /\ Mine(r, 2, u) = Mine(s, 3, u)
        /\ Mine(r, 3, u) = Mine(s, 4, u) /\ Mine(r, 4, u) = Mine(s, 5, u)
    <2>1. 1 + 1 = 2 /\ 2 + 1 = 3 /\ 3 + 1 = 4 /\ 4 + 1 = 5 /\ {1, 2, 3, 4} \subseteq 1..4
      OBVIOUS
    <2> QED
      BY <1>3, <2>1
  <1>5. Mine(r, 5, u) = <<>>
    <2>1. 5 \notin DOMAIN r
      BY <1>1
    <2> QED
      BY <2>1 DEF Mine
  <1>6. Mine(s, 1, u) = IF Head(s).user = u THEN <<Head(s).amount>> ELSE <<>>
    BY <1>1 DEF Mine
  <1>7. Cat(Mine(s, 5, u), <<>>) = Mine(s, 5, u)
    BY MineTyped
  <1>8. /\ Dues(s, u) = Cat(Mine(s, 1, u), Cat(Mine(s, 2, u), Cat(Mine(s, 3, u),
                            Cat(Mine(s, 4, u), Mine(s, 5, u)))))
        /\ Dues(r, u) = Cat(Mine(r, 1, u), Cat(Mine(r, 2, u), Cat(Mine(r, 3, u),
                            Cat(Mine(r, 4, u), Mine(r, 5, u)))))
    BY DEF Dues
  <1> HIDE DEF Cat
  <1>9. Dues(s, u) = Cat(Mine(s, 1, u), Dues(r, u))
    BY <1>4, <1>5, <1>7, <1>8
  <1> QED
    BY <1>6, <1>9 DEF r, Cat

\* What is to come from the i-th entry on, and the entries of u, counted.
Rest(w, a, i) == <<R1(w, a), R2(w, a), R3(w, a), R4(w, a), R5(w, a)>>[i]

Counts(w, a, i, u) == IF w[i] = u /\ a[i] # 0 THEN 1 ELSE 0

LEMMA EntryDues ==
    ASSUME NEW w \in User, NEW a \in Int, NEW s \in Seq(Change), Len(s) <= 4, NEW u
    PROVE  Len(Dues(Entry(w, a) \o s, u)) = (IF w = u /\ a # 0 THEN 1 ELSE 0) + Len(Dues(s, u))
  <1> DEFINE r == Entry(w, a) \o s
  <1>1. Dues(s, u) \in Seq(Int)
    BY DuesTyped
  <1>2. Len(Dues(s, u)) \in Nat /\ 0 + Len(Dues(s, u)) = Len(Dues(s, u))
    BY <1>1
  <1>3. CASE a = 0
    <2>1. r = s
      BY <1>3, EntryFirst
    <2> HIDE DEF r
    <2> QED
      BY <1>2, <1>3, <2>1 DEF r
  <1>4. CASE a # 0
    <2>1. /\ r \in Seq(Change) /\ Len(r) <= Len(s) + 1 /\ r # <<>> /\ Tail(r) = s
          /\ Head(r) = [user |-> w, amount |-> a]
      BY <1>4, EntryFirst
    <2> HIDE DEF r
    <2>2. Len(r) <= 5
      <3>1. Len(r) \in Nat /\ Len(s) \in Nat
        BY <2>1
      <3> QED
        BY <2>1, <3>1
    <2>5. Dues(r, u) = (IF Head(r).user = u THEN <<Head(r).amount>> ELSE <<>>) \o Dues(Tail(r), u)
      BY <2>1, <2>2, DuesTail
    <2>6. Head(r).user = w /\ Head(r).amount = a
      BY <2>1
    <2>3. Dues(r, u) = (IF w = u THEN <<a>> ELSE <<>>) \o Dues(s, u)
      BY <2>1, <2>5, <2>6
    <2>4. \A d \in Seq(Int) : Len(<<a>> \o d) = 1 + Len(d) /\ <<>> \o d = d
      OBVIOUS
    <2> QED
      BY <1>1, <1>2, <1>4, <2>3, <2>4 DEF r
  <1> QED
    BY <1>3, <1>4

LEMMA RestsDues ==
    ASSUME NEW w, NEW a, \A i \in 1..5 : w[i] \in User /\ a[i] \in Int, NEW u
    PROVE  /\ Len(Dues(R5(w, a), u)) = Counts(w, a, 5, u)
           /\ Len(Dues(R4(w, a), u)) = Counts(w, a, 4, u) + Len(Dues(R5(w, a), u))
           /\ Len(Dues(R3(w, a), u)) = Counts(w, a, 3, u) + Len(Dues(R4(w, a), u))
           /\ Len(Dues(R2(w, a), u)) = Counts(w, a, 2, u) + Len(Dues(R3(w, a), u))
           /\ Len(Dues(R1(w, a), u)) = Counts(w, a, 1, u) + Len(Dues(R2(w, a), u))
  <1>0. \A i \in {1, 2, 3, 4, 5} : w[i] \in User /\ a[i] \in Int
    OBVIOUS
  <1>2. /\ Len(R2(w, a)) <= 4 /\ Len(R3(w, a)) <= 4 /\ Len(R4(w, a)) <= 4 /\ Len(R5(w, a)) <= 4
    BY RestsShort
  <1> DEFINE First(v, b, s) ==
        Len(Dues(Entry(v, b) \o s, u)) = (IF v = u /\ b # 0 THEN 1 ELSE 0) + Len(Dues(s, u))
  <1>3. \A v \in User, b \in Int, s \in Seq(Change) : Len(s) <= 4 => First(v, b, s)
    BY EntryDues
  <1> HIDE DEF First
  <1>4. /\ First(w[1], a[1], R2(w, a)) /\ First(w[2], a[2], R3(w, a))
        /\ First(w[3], a[3], R4(w, a)) /\ First(w[4], a[4], R5(w, a))
    BY <1>0, <1>2, <1>3, RestsTyped
  <1>5. Len(Dues(R5(w, a), u)) = Counts(w, a, 5, u)
    <2>1. Entry(w[5], a[5]) \o <<>> = Entry(w[5], a[5])
      BY <1>0, EntryTyped
    <2>2. <<>> \in Seq(Change) /\ Len(<<>>) = 0 /\ 0 <= 4
      OBVIOUS
    <2>3. First(w[5], a[5], <<>>)
      BY <1>0, <1>3, <2>2
    <2>4. Counts(w, a, 5, u) + 0 = Counts(w, a, 5, u)
      BY DEF Counts
    <2> QED
      BY <2>1, <2>2, <2>3, <2>4, DuesNone DEF R5, Counts, First
  <1> QED
    BY <1>4, <1>5 DEF R1, R2, R3, R4, Counts, First

\* The rest of a settlement begins with an entry that is not zero.
LEMMA EntryHead ==
    ASSUME NEW w \in User, NEW a \in Int, NEW s \in Seq(Change)
    PROVE  \/ a = 0 /\ Entry(w, a) \o s = s
           \/ a # 0 /\ Head(Entry(w, a) \o s).user = w
  BY EntryFirst

LEMMA RestsHead ==
    ASSUME NEW w, NEW a, \A i \in 1..5 : w[i] \in User /\ a[i] \in Int,
           NEW s \in Rests(w, a), s # <<>>
    PROVE  \E i \in 1..5 :
             /\ s = Rest(w, a, i)
             /\ a[i] # 0 /\ Head(s).user = w[i]
  <1>0. \A i \in {1, 2, 3, 4, 5} : w[i] \in User /\ a[i] \in Int
    OBVIOUS
  <1> DEFINE At(i, r) == s = r /\ a[i] # 0 /\ Head(s).user = w[i]
  <1> DEFINE First(v, b, r) == (b = 0 /\ Entry(v, b) \o r = r)
                                 \/ (b # 0 /\ Head(Entry(v, b) \o r).user = v)
  <1>4. \A v \in User, b \in Int, r \in Seq(Change) : First(v, b, r)
    BY EntryHead
  <1> HIDE DEF First
  <1>5. /\ First(w[1], a[1], R2(w, a)) /\ First(w[2], a[2], R3(w, a))
        /\ First(w[3], a[3], R4(w, a)) /\ First(w[4], a[4], R5(w, a))
    BY <1>0, <1>4, RestsTyped
  <1>1. /\ R1(w, a) = R2(w, a) \/ (a[1] # 0 /\ Head(R1(w, a)).user = w[1])
        /\ R2(w, a) = R3(w, a) \/ (a[2] # 0 /\ Head(R2(w, a)).user = w[2])
        /\ R3(w, a) = R4(w, a) \/ (a[3] # 0 /\ Head(R3(w, a)).user = w[3])
        /\ R4(w, a) = R5(w, a) \/ (a[4] # 0 /\ Head(R4(w, a)).user = w[4])
    BY <1>5 DEF R1, R2, R3, R4, First
  <1>2. R5(w, a) = <<>> \/ (a[5] # 0 /\ Head(R5(w, a)).user = w[5])
    <2>1. \A e : Head(<<e>>) = e
      OBVIOUS
    <2> QED
      BY <2>1 DEF R5, Entry
  <1>3. s \in {R1(w, a), R2(w, a), R3(w, a), R4(w, a), R5(w, a)}
    BY DEF Rests
  <1>6. \/ At(1, R1(w, a)) \/ At(2, R2(w, a)) \/ At(3, R3(w, a)) \/ At(4, R4(w, a)) \/ At(5, R5(w, a))
    BY <1>1, <1>2, <1>3
  <1> QED
    BY <1>6 DEF Rest

\* Which entries u has before and from a place on.
Earlier(w, a, i, u) == \E k \in 1..(i - 1) : w[k] = u /\ a[k] # 0
Later(w, a, i, u) == \E m \in i..5 : w[m] = u /\ a[m] # 0

LEMMA DuesSplit ==
    ASSUME NEW w, NEW a, \A i \in 1..5 : w[i] \in User /\ a[i] \in Int, NEW u, NEW i \in 1..5
    PROVE  /\ Len(Dues(Rest(w, a, i), u)) # 0 <=> Later(w, a, i, u)
           /\ Len(Dues(R1(w, a), u)) # Len(Dues(Rest(w, a, i), u)) <=> Earlier(w, a, i, u)
  <1> DEFINE Yes(k) == w[k] = u /\ a[k] # 0
             c(k) == Counts(w, a, k, u)
             L1 == Len(Dues(R1(w, a), u))
             L2 == Len(Dues(R2(w, a), u))
             L3 == Len(Dues(R3(w, a), u))
             L4 == Len(Dues(R4(w, a), u))
             L5 == Len(Dues(R5(w, a), u))
             L == Len(Dues(Rest(w, a, i), u))
  <1>1. /\ L5 = c(5) /\ L4 = c(4) + L5 /\ L3 = c(3) + L4 /\ L2 = c(2) + L3 /\ L1 = c(1) + L2
    BY RestsDues
  <1>2. \A k : c(k) = IF Yes(k) THEN 1 ELSE 0
    BY DEF Counts
  <1>3. i \in {1, 2, 3, 4, 5}
    OBVIOUS
  <1>4. /\ i = 1 => L = L1
        /\ i = 2 => L = L2
        /\ i = 3 => L = L3
        /\ i = 4 => L = L4
        /\ i = 5 => L = L5
    BY DEF Rest
  <1> HIDE DEF Yes, c, L1, L2, L3, L4, L5, L
  <1>6. \A k : c(k) \in {0, 1} /\ (c(k) # 0 <=> Yes(k))
    BY <1>2
  <1> DEFINE x1 == c(1)
             x2 == c(2)
             x3 == c(3)
             x4 == c(4)
             x5 == c(5)
  <1>7. /\ x1 \in {0, 1} /\ x2 \in {0, 1} /\ x3 \in {0, 1} /\ x4 \in {0, 1} /\ x5 \in {0, 1}
        /\ (x1 # 0 <=> Yes(1)) /\ (x2 # 0 <=> Yes(2)) /\ (x3 # 0 <=> Yes(3))
        /\ (x4 # 0 <=> Yes(4)) /\ (x5 # 0 <=> Yes(5))
    BY <1>6
  <1>8. L5 = x5 /\ L4 = x4 + L5 /\ L3 = x3 + L4 /\ L2 = x2 + L3 /\ L1 = x1 + L2
    BY <1>1
  <1> HIDE DEF x1, x2, x3, x4, x5
  <1>9. /\ L1 # 0 <=> (x1 # 0 \/ x2 # 0 \/ x3 # 0 \/ x4 # 0 \/ x5 # 0)
        /\ L2 # 0 <=> (x2 # 0 \/ x3 # 0 \/ x4 # 0 \/ x5 # 0)
        /\ L3 # 0 <=> (x3 # 0 \/ x4 # 0 \/ x5 # 0)
        /\ L4 # 0 <=> (x4 # 0 \/ x5 # 0)
        /\ L5 # 0 <=> x5 # 0
        /\ L1 # L2 <=> x1 # 0
        /\ L1 # L3 <=> (x1 # 0 \/ x2 # 0)
        /\ L1 # L4 <=> (x1 # 0 \/ x2 # 0 \/ x3 # 0)
        /\ L1 # L5 <=> (x1 # 0 \/ x2 # 0 \/ x3 # 0 \/ x4 # 0)
    BY <1>7, <1>8
  <1>5. /\ L # 0 <=> \E m \in i..5 : Yes(m)
        /\ L1 # L <=> \E k \in 1..(i - 1) : Yes(k)
    <2>1. CASE i = 1
      <3>1. 1..5 = {1, 2, 3, 4, 5} /\ 1..(1 - 1) = {}
        OBVIOUS
      <3> QED
        BY <1>4, <1>7, <1>9, <2>1, <3>1
    <2>2. CASE i = 2
      <3>1. 2..5 = {2, 3, 4, 5} /\ 1..(2 - 1) = {1}
        OBVIOUS
      <3> QED
        BY <1>4, <1>7, <1>9, <2>2, <3>1
    <2>3. CASE i = 3
      <3>1. 3..5 = {3, 4, 5} /\ 1..(3 - 1) = {1, 2}
        OBVIOUS
      <3> QED
        BY <1>4, <1>7, <1>9, <2>3, <3>1
    <2>4. CASE i = 4
      <3>1. 4..5 = {4, 5} /\ 1..(4 - 1) = {1, 2, 3}
        OBVIOUS
      <3> QED
        BY <1>4, <1>7, <1>9, <2>4, <3>1
    <2>5. CASE i = 5
      <3>1. 5..5 = {5} /\ 1..(5 - 1) = {1, 2, 3, 4}
        OBVIOUS
      <3> QED
        BY <1>4, <1>7, <1>9, <2>5, <3>1
    <2> QED
      BY <1>3, <2>1, <2>2, <2>3, <2>4, <2>5
  <1> QED
    BY <1>5 DEF Yes, L, L1, Later, Earlier

\* Where a settlement can be cut off, nobody has entries on both sides, and
\* the dealer none that are missing, unless none is booked.
LEMMA NoSplit ==
    ASSUME NEW j \in Dock, ~PaidBack(Terms[j]), NEW i \in 1..5,
           LET w == Who(Terms[j])
               a == Much(Terms[j])
           IN  a[i] # 0 /\ \A k \in 1..(i - 1) : ~(w[k] = w[i] /\ a[k] # 0),
           NEW k \in 1..(i - 1), Much(Terms[j])[k] # 0,
           NEW m \in i..5, Much(Terms[j])[m] # 0
    PROVE  Who(Terms[j])[m] # Who(Terms[j])[k] /\ Who(Terms[j])[m] # Terms[j].dealer
  <1> DEFINE t == Terms[j]
             w == Who(t)
             a == Much(t)
  <1>1. t.level \in {1, 2} /\ (t.level = 2 => t.dealer # t.owner)
    BY TermsTyped DEF PaidBack
  <1>2. /\ a[i] # 0 /\ a[k] # 0 /\ a[m] # 0 /\ \A n \in 1..(i - 1) : ~(w[n] = w[i] /\ a[n] # 0)
    OBVIOUS
  <1>3. CASE t.feePayer = "distributor"
    <2>1. w[1] = t.dealer /\ w[2] = t.level1 /\ w[3] = t.level1 /\ w[4] = t.owner /\ w[5] = t.owner
      BY <1>3 DEF Who
    <2>2. t.level = 1 => a[2] = 0 /\ a[3] = 0
      BY <1>3 DEF Much, Resale, Purchase
    <2> HIDE DEF t, w, a
    <2>3. i \in {1, 2, 3, 4, 5} /\ k \in {1, 2, 3, 4} /\ m \in {1, 2, 3, 4, 5} /\ k < i /\ i <= m
      OBVIOUS
    <2>4. w[m] # w[k] /\ w[m] # t.dealer
      BY <1>1, <1>2, <2>1, <2>2, <2>3
    <2> QED
      BY <2>4 DEF t, w
  <1>4. CASE t.feePayer # "distributor"
    <2>1. w[1] = t.dealer /\ w[2] = t.dealer /\ w[3] = t.level1 /\ w[4] = t.level1 /\ w[5] = t.owner
      BY <1>4 DEF Who
    <2>2. t.level = 1 => a[3] = 0 /\ a[4] = 0
      BY <1>4 DEF Much, Resale, Purchase
    <2> HIDE DEF t, w, a
    <2>3. i \in {1, 2, 3, 4, 5} /\ k \in {1, 2, 3, 4} /\ m \in {1, 2, 3, 4, 5} /\ k < i /\ i <= m
      OBVIOUS
    <2>4. w[m] # w[k] /\ w[m] # t.dealer
      BY <1>1, <1>2, <2>1, <2>2, <2>3
    <2> QED
      BY <2>4 DEF t, w
  <1> QED
    BY <1>3, <1>4

\* What a settlement that is cut off has booked: for each party everything
\* or nothing, and for the dealer everything if for anyone anything.
LEMMA CutWhole ==
    ASSUME NEW j \in Dock, ~PaidBack(Terms[j]),
           NEW s \in Rests(Who(Terms[j]), Much(Terms[j])), s # <<>>,
           NEW g, \A u \in User : g[u] \in Nat /\ g[u] + Len(Dues(s, u)) = Len(Due(j, u)),
           g[Head(s).user] = 0
    PROVE  \A u \in User : g[u] # 0 => Len(Dues(s, u)) = 0 /\ Len(Dues(s, Terms[j].dealer)) = 0
  <1> DEFINE t == Terms[j]
             w == Who(t)
             a == Much(t)
             Left(u) == Len(Dues(s, u))
             All(u) == Len(Due(j, u))
  <1>1. /\ \A i \in 1..5 : w[i] \in User /\ a[i] \in Int
        /\ t.dealer \in User
    BY TermsTyped
  <1>2. \A u : Due(j, u) = Dues(R1(w, a), u)
    <2>1. Entries(j) = R1(w, a)
      BY SettlementPieces DEF Entries
    <2> QED
      BY <2>1 DEF Due
  <1>3. s \in Seq(Change)
    <2>1. <<>> \in Seq(Change)
      OBVIOUS
    <2> QED
      BY <1>1, <2>1, RestsTyped DEF Rests
  <1>4. \A u : Left(u) \in Nat
    <2>1. \A d \in Seq(Int) : Len(d) \in Nat
      OBVIOUS
    <2> QED
      BY <1>3, <2>1, DuesTyped
  <1>5. PICK i \in 1..5 : /\ s = Rest(w, a, i)
                          /\ a[i] # 0 /\ Head(s).user = w[i]
    BY <1>1, RestsHead
  <1>6. \A u : /\ Left(u) # 0 <=> Later(w, a, i, u)
               /\ All(u) # Left(u) <=> Earlier(w, a, i, u)
    <2>0. \A n \in 1..5 : w[n] \in User /\ a[n] \in Int
      BY <1>1
    <2>1. ASSUME NEW u
          PROVE  /\ Len(Dues(Rest(w, a, i), u)) # 0 <=> Later(w, a, i, u)
                 /\ Len(Dues(R1(w, a), u)) # Len(Dues(Rest(w, a, i), u)) <=> Earlier(w, a, i, u)
      BY <2>0, DuesSplit
    <2>2. s = Rest(w, a, i)
      BY <1>5
    <2> HIDE DEF w, a
    <2> QED
      BY <1>2, <2>1, <2>2
  <1>7. \A k \in 1..(i - 1), m \in i..5 :
          /\ \A n \in 1..(i - 1) : ~(w[n] = w[i] /\ a[n] # 0)
          /\ a[k] # 0 /\ a[m] # 0
          => w[m] # w[k] /\ w[m] # t.dealer
    BY <1>5, NoSplit
  <1>8. \A u \in User : g[u] \in Nat /\ g[u] + Left(u) = All(u)
    OBVIOUS
  <1>9. w[i] \in User /\ g[w[i]] = 0
    BY <1>1, <1>5
  <1> HIDE DEF t, w, a, Left, All
  <1>10. \A u \in User : g[u] # 0 <=> All(u) # Left(u)
    BY <1>4, <1>8
  <1>11. \A n \in 1..(i - 1) : ~(w[n] = w[i] /\ a[n] # 0)
    BY <1>6, <1>9, <1>10 DEF Earlier
  <1>12. ASSUME NEW u \in User, g[u] # 0 PROVE Left(u) = 0 /\ Left(t.dealer) = 0
    <2>1. PICK k \in 1..(i - 1) : w[k] = u /\ a[k] # 0
      BY <1>6, <1>10, <1>12 DEF Earlier
    <2>2. \A m \in i..5 : a[m] # 0 => w[m] # u /\ w[m] # t.dealer
      BY <1>7, <1>11, <2>1
    <2> QED
      BY <1>1, <1>6, <2>2 DEF Later
  <1> QED
    BY <1>12 DEF Left, t

(* What the transaction of j has booked for u, and it adds up.             *)
Gains(s) == [i \in 1..Len(s) |-> s[i].after - s[i].before]

Gained(j, u) == IF holder[u] = j THEN Gains(written[u]) ELSE <<>>

LEMMA GainsTyped ==
    ASSUME NEW s \in Seq(Flow)
    PROVE  Gains(s) \in Seq(Int) /\ Len(Gains(s)) = Len(s)
  <1>1. Len(s) \in Nat /\ \A i \in 1..Len(s) : s[i] \in Flow
    OBVIOUS
  <1>2. \A i \in 1..Len(s) : s[i].after - s[i].before \in Int
    BY <1>1 DEF Flow
  <1>3. Gains(s) \in [1..Len(s) -> Int]
    BY <1>2 DEF Gains
  <1> QED
    BY <1>1, <1>3, LenProperties

LEMMA GainsNone == Gains(<<>>) = <<>>
  <1>1. <<>> \in Seq(Flow) /\ Len(<<>>) = 0 /\ \A d \in Seq(Int) : Len(d) = 0 => d = <<>>
    OBVIOUS
  <1> QED
    BY <1>1, GainsTyped

LEMMA GainsAppend ==
    ASSUME NEW s \in Seq(Flow), NEW f \in Flow
    PROVE  Gains(Append(s, f)) = Gains(s) \o <<f.after - f.before>>
  <1> DEFINE t == Append(s, f)
             a == f.after - f.before
             r == Gains(s) \o <<a>>
  <1>1. /\ t \in Seq(Flow) /\ Len(t) = Len(s) + 1 /\ Len(s) \in Nat
        /\ \A i \in 1..Len(s) : t[i] = s[i]
        /\ t[Len(s) + 1] = f
    OBVIOUS
  <1>2. a \in Int
    BY DEF Flow
  <1> HIDE DEF a, t
  <1>3. \A d \in Seq(Int) : /\ d \o <<a>> \in Seq(Int) /\ Len(d \o <<a>>) = Len(d) + 1
                            /\ \A i \in 1..Len(d) : (d \o <<a>>)[i] = d[i]
                            /\ (d \o <<a>>)[Len(d) + 1] = a
    BY <1>2
  <1>4. /\ r \in Seq(Int) /\ Len(r) = Len(s) + 1
        /\ \A i \in 1..Len(s) : r[i] = Gains(s)[i]
        /\ r[Len(s) + 1] = a
    BY <1>3, GainsTyped
  <1> HIDE DEF r
  <1>5. Gains(t) \in Seq(Int) /\ Len(Gains(t)) = Len(s) + 1
    BY <1>1, GainsTyped
  <1>6. ASSUME NEW i \in 1..(Len(s) + 1) PROVE Gains(t)[i] = r[i]
    <2>1. Gains(t)[i] = t[i].after - t[i].before
      BY <1>1 DEF Gains
    <2>2. CASE i = Len(s) + 1
      BY <1>1, <1>4, <2>1, <2>2 DEF a
    <2>3. CASE i # Len(s) + 1
      <3>1. i \in 1..Len(s)
        BY <1>1, <2>3
      <3>2. Gains(s)[i] = s[i].after - s[i].before
        BY <3>1 DEF Gains
      <3> QED
        BY <1>1, <1>4, <2>1, <3>1, <3>2
    <2> QED
      BY <2>2, <2>3
  <1>7. Gains(t) = r
    BY <1>4, <1>5, <1>6, SeqEqual
  <1> QED
    BY <1>7 DEF t, r, a

LEMMA GainedTyped ==
    ASSUME TypeOK, NEW j, NEW u \in User
    PROVE  Gained(j, u) \in Seq(Int)
  <1>1. <<>> \in Seq(Int)
    OBVIOUS
  <1> QED
    BY <1>1, GainsTyped DEF Gained, TypeOK

\* What j books in the account of u is booked there, and nothing else of j.
LEMMA CommitBooked ==
    ASSUME TypeOK, LocksInv, NEW j \in Dock, Commit(j), NEW u \in User, Own(j, u) = {}
    PROVE  \A x : x = Gained(j, u) => Booked(j, u, x)'
  <1> SUFFICES ASSUME NEW x, x = Gained(j, u) PROVE Booked(j, u, x)'
    OBVIOUS
  <1> DEFINE s == flows[u]
             r == IF holder[u] = j THEN written[u] ELSE <<>>
             t == flows'[u]
  <1>1. s \in Seq(Flow) /\ r \in Seq(Flow)
    BY DEF TypeOK
  <1>2. t = s \o r
    <2>1. j \notin Advert
      BY WalletAssumption
    <2>2. t = (IF holder[u] = j THEN s \o written[u] ELSE s) \o <<>>
      BY <2>1 DEF Commit, Publish
    <2>3. \A q \in Seq(Flow) : q \o <<>> = q
      OBVIOUS
    <2>4. written[u] \in Seq(Flow) /\ s \o written[u] \in Seq(Flow)
      BY <1>1, Concatenated DEF TypeOK
    <2> QED
      BY <1>1, <2>2, <2>3, <2>4
  <1>3. x = Gains(r)
    BY GainsNone DEF Gained
  <1>4. \A i \in 1..Len(r) : r[i].job = j
    BY DEF LocksInv
  <1>5. \A i \in 1..Len(s) : s[i].job # j
    BY <1>1 DEF Own
  <1> HIDE DEF s, r, t
  <1>6. /\ Len(s) \in Nat /\ Len(r) \in Nat /\ Len(t) = Len(s) + Len(r) /\ DOMAIN t = 1..(Len(s) + Len(r))
        /\ \A i \in 1..Len(s) : t[i] = s[i]
        /\ \A i \in 1..Len(r) : t[Len(s) + i] = r[i]
    <2>1. \A p, q \in Seq(Flow) :
            /\ Len(p) \in Nat /\ Len(q) \in Nat /\ Len(p \o q) = Len(p) + Len(q)
            /\ DOMAIN (p \o q) = 1..(Len(p) + Len(q))
            /\ \A i \in 1..Len(p) : (p \o q)[i] = p[i]
            /\ \A i \in 1..Len(q) : (p \o q)[Len(p) + i] = q[i]
      OBVIOUS
    <2> QED
      BY <1>1, <1>2, <2>1
  <1>7. Len(x) = Len(r) /\ \A i \in 1..Len(r) : x[i] = r[i].after - r[i].before
    BY <1>1, <1>3, GainsTyped DEF Gains
  <1> DEFINE n == Len(s)
             m == Len(r)
  <1>8. n \in Nat /\ m \in Nat
    BY <1>6
  <1>9. {i \in DOMAIN t : t[i].job = j} = (n + 1)..(n + m)
    <2>1. \A i \in 1..n : t[i].job # j
      BY <1>5, <1>6
    <2>2. ASSUME NEW i \in (n + 1)..(n + m) PROVE t[i].job = j
      <3> HIDE DEF n, m
      <3>1. i - n \in 1..m /\ n + (i - n) = i
        BY <1>8
      <3> QED
        BY <1>4, <1>6, <3>1 DEF n, m
    <2>3. DOMAIN t = 1..(n + m)
      BY <1>6
    <2> HIDE DEF n, m
    <2> QED
      BY <1>8, <2>1, <2>2, <2>3
  <1>10. n \in 0..Len(t)
    <2>1. Len(t) = n + m
      BY <1>6
    <2> HIDE DEF n, m
    <2> QED
      BY <1>8, <2>1
  <1>11. \A k \in 1..Len(x) : t[n + k].after - t[n + k].before = x[k]
    BY <1>6, <1>7
  <1>12. Len(x) = m
    BY <1>7
  <1> HIDE DEF n, m
  <1>13. \E n_1 \in 0..Len(t) :
           /\ {i \in DOMAIN t : t[i].job = j} = (n_1 + 1)..(n_1 + Len(x))
           /\ \A k \in 1..Len(x) : t[n_1 + k].after - t[n_1 + k].before = x[k]
    BY <1>9, <1>10, <1>11, <1>12
  <1> QED
    BY <1>13 DEF Booked, Own, t

\* What others append leaves the flows of j as they are.
LEMMA BookedStays ==
    ASSUME NEW j, NEW u, flows[u] \in Seq(Flow), NEW r \in Seq(Flow),
           flows'[u] = flows[u] \o r, \A i \in 1..Len(r) : r[i].job # j
    PROVE  \A x \in Seq(Int) : Booked(j, u, x) => Booked(j, u, x)'
  <1> SUFFICES ASSUME NEW x \in Seq(Int), Booked(j, u, x) PROVE Booked(j, u, x)'
    OBVIOUS
  <1> DEFINE s == flows[u]
             t == flows'[u]
             Of(q) == {i \in DOMAIN q : q[i].job = j}
  <1>1. /\ Len(s) \in Nat /\ Len(r) \in Nat /\ Len(t) = Len(s) + Len(r)
        /\ DOMAIN s = 1..Len(s) /\ DOMAIN t = 1..(Len(s) + Len(r))
        /\ \A i \in 1..Len(s) : t[i] = s[i]
        /\ \A i \in 1..Len(r) : t[Len(s) + i] = r[i]
    <2>1. \A p, q \in Seq(Flow) :
            /\ Len(p) \in Nat /\ Len(q) \in Nat /\ Len(p \o q) = Len(p) + Len(q)
            /\ DOMAIN p = 1..Len(p) /\ DOMAIN (p \o q) = 1..(Len(p) + Len(q))
            /\ \A i \in 1..Len(p) : (p \o q)[i] = p[i]
            /\ \A i \in 1..Len(q) : (p \o q)[Len(p) + i] = q[i]
      OBVIOUS
    <2> QED
      BY <2>1
  <1>2. PICK n \in 0..Len(s) : /\ Of(s) = (n + 1)..(n + Len(x))
                               /\ \A k \in 1..Len(x) : s[n + k].after - s[n + k].before = x[k]
    BY DEF Booked, Own
  <1> HIDE DEF s, t
  <1>3. Of(t) = Of(s)
    <2>1. ASSUME NEW i \in DOMAIN t, i \notin DOMAIN s PROVE t[i].job # j
      <3> DEFINE l == Len(s)
                 m == Len(r)
      <3>1. i \in 1..(l + m) /\ i \notin 1..l /\ l \in Nat /\ m \in Nat
        BY <1>1, <2>1
      <3>2. \A k \in 1..m : t[l + k].job # j
        BY <1>1
      <3> HIDE DEF l, m
      <3>3. i - l \in 1..m /\ l + (i - l) = i
        BY <3>1
      <3> QED
        BY <3>2, <3>3
    <2>2. \A i \in DOMAIN s : i \in DOMAIN t /\ t[i] = s[i]
      BY <1>1
    <2> QED
      BY <2>1, <2>2
  <1>4. n \in 0..Len(t)
    BY <1>1
  <1>5. ASSUME NEW k \in 1..Len(x) PROVE t[n + k].after - t[n + k].before = x[k]
    <2>1. n + k \in Of(s)
      <3> DEFINE l == Len(x)
      <3>1. l \in Nat /\ k \in 1..l /\ n \in Nat
        BY <1>1, <1>5
      <3>2. Of(s) = (n + 1)..(n + l)
        BY <1>2
      <3> HIDE DEF l, Of
      <3> QED
        BY <3>1, <3>2
    <2>2. t[n + k] = s[n + k]
      BY <1>1, <2>1
    <2> QED
      BY <1>2, <1>5, <2>2
  <1> HIDE DEF Of
  <1>6. \E n_1 \in 0..Len(t) :
           /\ Of(t) = (n_1 + 1)..(n_1 + Len(x))
           /\ \A k \in 1..Len(x) : t[n_1 + k].after - t[n_1 + k].before = x[k]
    BY <1>2, <1>3, <1>4, <1>5
  <1> QED
    BY <1>6 DEF Booked, Own, t, Of

\* What a dock job has booked and has yet to book is what is due, in this
\* order; where it is cut off it has not reached its next party.
Active == {"new", "locking", "booking", "cut"}

Owes(j) ==
    /\ pc[j] \in Active => \A u \in User : Gained(j, u) \o Dues(todo[j], u) = Due(j, u)
    /\ pc[j] = "cut" => j \in Delivery /\ todo[j] # <<>> /\ holder[NextUser(j)] # j

Owed == \A j \in Dock : Owes(j)

LEMMA DueConstant == \A j, u : Due(j, u)' = Due(j, u)
  BY DEF Due, Dues, Mine, Entries, Settlement, Income, Price, Entry

LEMMA DuesStay ==
    ASSUME NEW j, NEW u, todo'[j] = todo[j]
    PROVE  Dues(todo[j], u)' = Dues(todo[j], u)
  BY DEF Dues, Mine

LEMMA GainedStays ==
    ASSUME NEW j, NEW u, holder'[u] = j <=> holder[u] = j,
           holder[u] = j => written'[u] = written[u]
    PROVE  Gained(j, u)' = Gained(j, u)
  BY DEF Gained, Gains

LEMMA OwedInit == Init => Owed
  <1> SUFFICES ASSUME Init, NEW j \in Dock PROVE Owes(j)
    BY DEF Owed
  <1>1. j \in Job /\ j # Free
    BY WalletAssumption DEF Job
  <1>2. todo[j] = Entries(j) /\ pc[j] = "new"
    BY <1>1 DEF Init
  <1>3. \A u \in User : Gained(j, u) = <<>>
    BY <1>1 DEF Init, Gained
  <1>4. \A u : Due(j, u) \in Seq(Int)
    BY <1>1, EntriesTyped, DuesTyped DEF Due
  <1>5. \A d \in Seq(Int) : <<>> \o d = d
    OBVIOUS
  <1>6. \A u \in User : Gained(j, u) \o Dues(todo[j], u) = Due(j, u)
    BY <1>2, <1>3, <1>4, <1>5 DEF Due
  <1> QED
    BY <1>2, <1>6 DEF Owes

\* An entry goes from what is to come to what is booked.
LEMMA OwesBook ==
    ASSUME TypeOK, LocksInv, Balanced, NEW j \in Dock, Owes(j), Book(j)
    PROVE  Owes(j)'
  <1>j. j \in Job /\ j \notin Advert /\ j # Free
    BY WalletAssumption DEF Job
  <1>a. todo[j] \in Seq(Change) /\ todo[j] # <<>> /\ Len(todo[j]) <= 5
    BY <1>j DEF TypeOK, Book, CanBook, Balanced, Balances
  <1>3. Head(todo[j]) \in Change
    BY <1>a
  <1>4. PICK v \in User, a \in Int : v = NextUser(j) /\ a = Head(todo[j]).amount
    BY <1>3 DEF NextUser, Change
  <1>7. v = Head(todo[j]).user
    BY <1>4 DEF NextUser
  <1> DEFINE f == [job |-> j, before |-> Base(j), after |-> Base(j) + a]
  <1>1. /\ holder[v] \in {Free, j} /\ pc[j] = "booking"
        /\ holder' = [holder EXCEPT ![v] = j]
        /\ written' = [written EXCEPT ![v] = Append(@, f)]
        /\ todo' = [todo EXCEPT ![j] = Tail(@)]
        /\ pc' = pc
    BY <1>4 DEF Book, CanBook, Write
  <1>2. Base(j) \in Int
    BY <1>4, <1>j, ValueTyped DEF Base
  <1>5. f \in Flow /\ f.after - f.before = a
    BY <1>2, <1>4, <1>j DEF Flow
  <1> HIDE DEF f
  <1>6. todo'[j] = Tail(todo[j]) /\ pc'[j] = "booking"
    BY <1>1, <1>j DEF TypeOK
  <1>8. ASSUME NEW u \in User
        PROVE  (Gained(j, u) \o Dues(todo[j], u))' = Due(j, u)
    <2> DEFINE g == Gained(j, u)
               d == Dues(Tail(todo[j]), u)
    <2>1. g \o Dues(todo[j], u) = Due(j, u)
      BY <1>1 DEF Owes, Active
    <2>2. Dues(todo[j], u) = (IF v = u THEN <<a>> ELSE <<>>) \o d
      BY <1>4, <1>7, <1>a, DuesTail
    <2>3. Dues(todo[j], u)' = d
      BY <1>6 DEF Dues, Mine
    <2>4. Tail(todo[j]) \in Seq(Change)
      BY <1>a
    <2>5. g \in Seq(Int) /\ d \in Seq(Int) /\ <<a>> \in Seq(Int)
      <3>1. \A b \in Int : <<b>> \in Seq(Int)
        OBVIOUS
      <3>2. g \in Seq(Int)
        BY GainedTyped
      <3>3. d \in Seq(Int)
        BY <2>4, DuesTyped
      <3> QED
        BY <3>1, <3>2, <3>3
    <2>6. CASE u = v
      <3>1. holder'[v] = j /\ written'[v] = Append(written[v], f) /\ written[v] \in Seq(Flow)
        BY <1>1, <1>4 DEF TypeOK
      <3>2. g = Gains(written[v])
        <4>1. CASE holder[v] = j
          BY <2>6, <4>1 DEF Gained
        <4>2. CASE holder[v] # j
          <5>1. written[v] = <<>>
            BY <1>1, <4>2 DEF LocksInv
          <5> QED
            BY <2>6, <4>2, <5>1, GainsNone DEF Gained
        <4> QED
          BY <4>1, <4>2
      <3>3. Gained(j, u)' = Gains(Append(written[v], f))
        BY <2>6, <3>1 DEF Gained, Gains
      <3>4. Gained(j, u)' = g \o <<a>>
        BY <1>5, <3>1, <3>2, <3>3, GainsAppend
      <3> HIDE DEF g, d
      <3>5. (g \o <<a>>) \o d = g \o (<<a>> \o d)
        BY <2>5, ConcatAssoc
      <3>6. Dues(todo[j], u) = <<a>> \o d
        BY <2>2, <2>6
      <3> QED
        BY <2>1, <2>3, <3>4, <3>5, <3>6
    <2>7. CASE u # v
      <3>1. Gained(j, u)' = g
        <4>1. holder'[u] = holder[u] /\ written'[u] = written[u]
          BY <1>1, <1>4, <2>7 DEF TypeOK
        <4> QED
          BY <4>1, GainedStays
      <3>2. <<>> \o d = d
        BY <2>5, ConcatNone
      <3> HIDE DEF g, d
      <3>3. Dues(todo[j], u) = d
        BY <2>2, <2>7, <3>2
      <3> QED
        BY <2>1, <2>3, <3>1, <3>3
    <2> QED
      BY <2>6, <2>7
  <1> QED
    BY <1>6, <1>8, DueConstant DEF Owes

LEMMA OwedStep == TypeOK /\ LocksInv /\ Balanced /\ Owed /\ [Next]_vars => Owed'
  <1> SUFFICES ASSUME TypeOK, LocksInv, Balanced, Owed, [Next]_vars, NEW i \in Dock
               PROVE  Owes(i)'
    BY DEF Owed
  <1>0. /\ i \in Job /\ i # Free /\ i \notin Review /\ i \notin Notice /\ i \notin Single /\ i \notin Advert
        /\ Owes(i)
    BY WalletAssumption DEF Owed, Job
  \* Whatever leaves the locks and the entries of i alone.
  <1>1. ASSUME todo'[i] = todo[i],
               \A u \in User : /\ holder'[u] = i <=> holder[u] = i
                               /\ holder[u] = i => written'[u] = written[u],
               pc'[i] \in Active => pc[i] \in Active,
               pc'[i] = "cut" => pc[i] = "cut" \/ CutOff(i)
        PROVE  Owes(i)'
    <2>1. \A u \in User : (Gained(i, u) \o Dues(todo[i], u))' = Gained(i, u) \o Dues(todo[i], u)
      BY <1>1, GainedStays, DuesStay
    <2>2. pc'[i] \in Active => \A u \in User : (Gained(i, u) \o Dues(todo[i], u))' = Due(i, u)'
      BY <1>0, <1>1, <2>1, DueConstant DEF Owes
    <2>3. ASSUME pc'[i] = "cut"
          PROVE  i \in Delivery /\ todo[i] # <<>> /\ holder[NextUser(i)] # i
      <3>1. CASE pc[i] = "cut"
        BY <1>0, <3>1 DEF Owes
      <3>2. CASE CutOff(i)
        BY <3>2 DEF CutOff, Waits, WaitsFor
      <3> QED
        BY <1>1, <2>3, <3>1, <3>2
    <2>4. ASSUME pc'[i] = "cut"
          PROVE  todo'[i] # <<>> /\ holder'[NextUser(i)'] # i
      <3>1. todo[i] # <<>> /\ todo[i] \in Seq(Change)
        BY <1>0, <2>3, <2>4 DEF TypeOK
      <3>2. NextUser(i) \in User
        <4>1. Head(todo[i]) \in Change
          BY <3>1
        <4> QED
          BY <4>1 DEF NextUser, Change
      <3>3. NextUser(i)' = NextUser(i)
        BY <1>1 DEF NextUser
      <3> QED
        BY <1>1, <2>3, <2>4, <3>2, <3>3
    <2> QED
      BY <2>2, <2>3, <2>4 DEF Owes, Active
  \* The end of a transaction.
  <1>2. ASSUME NEW j \in Job, NEW place, place \notin Active, Unlock(j), Goto(j, place), UNCHANGED todo
        PROVE  Owes(i)'
    <2>1. CASE i = j
      BY <1>0, <1>2, <2>1 DEF Goto, TypeOK, Owes, Active
    <2>2. CASE i # j
      <3>1. pc'[i] = pc[i]
        BY <1>0, <1>2, <2>2 DEF Goto, TypeOK
      <3>2. \A u \in User : /\ holder'[u] = i <=> holder[u] = i
                            /\ holder[u] = i => written'[u] = written[u]
        BY <1>0, <1>2, <2>2 DEF Unlock
      <3> QED
        BY <1>1, <1>2, <3>1, <3>2
    <2> QED
      BY <2>1, <2>2
  \* A step that leaves the locks alone.
  <1>3. ASSUME NEW j, NEW place, Goto(j, place), UNCHANGED <<holder, written, todo>>,
               j = i => pc[j] \in Active /\ (place = "cut" => CutOff(j))
        PROVE  Owes(i)'
    <2>1. pc'[i] = IF i = j THEN place ELSE pc[i]
      BY <1>0, <1>3 DEF Goto, TypeOK
    <2> QED
      BY <1>1, <1>3, <2>1
  <1>4. ASSUME NEW j \in Job \cup Review, Begin(j)
        PROVE  Owes(i)'
    <2>1. PICK place : Goto(j, place) /\ place # "cut"
      BY <1>4 DEF Begin, ReadOrder, BeginSingle, PreCheck, BeginPickup, ReadAdvert, ReadRecord
    <2>2. pc[j] = "new" /\ UNCHANGED <<holder, written, todo>>
      BY <1>4 DEF Begin, ReadOrder, BeginSingle, PreCheck, BeginPickup, ReadAdvert, ReadRecord
    <2> QED
      BY <1>3, <2>1, <2>2 DEF Active
  <1>5. ASSUME NEW j \in Job, LockParty(j)
        PROVE  Owes(i)'
    <2>1. PICK v \in User : v = NextParty(j)
      BY <1>5, NextPartyLeast DEF LockParty
    <2>2. /\ pc[j] = "locking" /\ holder[v] = Free /\ holder' = [holder EXCEPT ![v] = j]
          /\ UNCHANGED <<written, pc, todo>>
      BY <1>5, <2>1 DEF LockParty
    <2>3. holder'[v] = j /\ \A u \in User \ {v} : holder'[u] = holder[u]
      BY <2>1, <2>2 DEF TypeOK
    <2>4. CASE i # j
      <3>1. \A u \in User : holder'[u] = i <=> holder[u] = i
        BY <1>0, <2>1, <2>2, <2>3, <2>4
      <3> QED
        BY <1>1, <2>2, <3>1
    <2>5. CASE i = j
      <3>1. Gained(i, v)' = Gained(i, v)
        <4>1. written[v] = <<>>
          BY <2>1, <2>2 DEF LocksInv
        <4>2. Gained(i, v) = <<>>
          BY <1>0, <2>2 DEF Gained
        <4>3. Gained(i, v)' = Gains(<<>>)
          BY <2>2, <2>3, <2>5, <4>1 DEF Gained, Gains
        <4> QED
          BY <4>2, <4>3, GainsNone
      <3>2. \A u \in User : Gained(i, u)' = Gained(i, u)
        BY <2>2, <2>3, <3>1, GainedStays
      <3>3. \A u \in User : Dues(todo[i], u)' = Dues(todo[i], u)
        BY <2>2, DuesStay
      <3>4. \A u \in User : (Gained(i, u) \o Dues(todo[i], u))' = Due(i, u)'
        BY <1>0, <2>2, <2>5, <3>2, <3>3, DueConstant DEF Owes, Active
      <3> QED
        BY <2>2, <2>5, <3>4 DEF Owes
    <2> QED
      BY <2>4, <2>5
  <1>6. ASSUME NEW j \in Job, CheckParties(j)
        PROVE  Owes(i)'
    <2>1. pc[j] = "locking" /\ UNCHANGED todo
      BY <1>6 DEF CheckParties
    <2>2. CASE Goto(j, "booking") /\ UNCHANGED <<holder, written>>
      BY <1>3, <2>1, <2>2 DEF Active
    <2>3. CASE Goto(j, "refused") /\ Unlock(j)
      BY <1>2, <2>1, <2>3 DEF Active
    <2> QED
      BY <1>6, <2>2, <2>3 DEF CheckParties
  <1>7. ASSUME NEW j \in Job, Book(j)
        PROVE  Owes(i)'
    <2>1. CASE i = j
      BY <1>0, <1>7, <2>1, OwesBook
    <2>2. CASE i # j
      <3>1. todo[j] \in Seq(Change) /\ todo[j] # <<>>
        BY <1>7 DEF TypeOK, Book, CanBook
      <3>2. PICK v \in User : v = NextUser(j)
        <4>1. Head(todo[j]) \in Change
          BY <3>1
        <4> QED
          BY <4>1 DEF NextUser, Change
      <3> DEFINE f == [job |-> j, before |-> Base(j), after |-> Base(j) + Head(todo[j]).amount]
      <3>3. /\ holder[v] \in {Free, j} /\ pc' = pc
            /\ holder' = [holder EXCEPT ![v] = j]
            /\ written' = [written EXCEPT ![v] = Append(@, f)]
            /\ todo' = [todo EXCEPT ![j] = Tail(@)]
        BY <1>7, <3>2 DEF Book, CanBook, Write
      <3> HIDE DEF f
      <3>4. todo'[i] = todo[i]
        BY <1>0, <2>2, <3>3 DEF TypeOK
      <3>5. \A u \in User : /\ holder'[u] = i <=> holder[u] = i
                            /\ holder[u] = i => written'[u] = written[u]
        BY <1>0, <2>2, <3>2, <3>3 DEF TypeOK
      <3> QED
        BY <1>1, <3>3, <3>4, <3>5
    <2> QED
      BY <2>1, <2>2
  <1>8. ASSUME NEW j \in Job, Commit(j)
        PROVE  Owes(i)'
    BY <1>2, <1>8 DEF Commit, Active
  <1>9. ASSUME NEW j \in Job, Refuse(j) \/ Abort(j) \/ Victim(j)
        PROVE  Owes(i)'
    <2>1. PICK place \in {"refused", "failed"} : Undo(j, place)
      BY <1>9 DEF Refuse, Abort, Victim
    <2> QED
      BY <1>2, <2>1 DEF Undo, Active
  <1>10. ASSUME NEW j \in Job, CutOff(j)
         PROVE  Owes(i)'
    <2>1. pc[j] = "booking" /\ Goto(j, "cut") /\ UNCHANGED <<holder, written, todo>>
      BY <1>10 DEF CutOff
    <2> QED
      BY <1>3, <1>10, <2>1 DEF Active
  <1>11. ASSUME NEW r \in Review, WriteVerdict(r)
         PROVE  Owes(i)'
    <2>1. r # i /\ Goto(r, "done") /\ UNCHANGED <<holder, written, todo>>
      BY <1>0, <1>11 DEF WriteVerdict
    <2> QED
      BY <1>3, <2>1
  <1>12. CASE UNCHANGED vars
    BY <1>1, <1>12 DEF vars
  <1> QED
    BY <1>4, <1>5, <1>6, <1>7, <1>8, <1>9, <1>10, <1>11, <1>12 DEF Next, Continue

(* What is booked when, for one job.                                       *)
Settled(j) ==
    /\ agentOrder[j] = "none" => \A u \in User : Booked(j, u, <<>>)
    /\ agentOrder[j] = "settled" => \A u \in User : Booked(j, u, Due(j, u))
    /\ agentOrder[j] = "delivered" =>
         \A u \in User : \E k \in 0..Len(Due(j, u)) : Booked(j, u, SubSeq(Due(j, u), 1, k))
    /\ agentOrder[j] = "delivered" /\ ~PaidBack(Terms[j]) =>
         /\ \A u \in User : Booked(j, u, <<>>) \/ Booked(j, u, Due(j, u))
         /\ (\E u \in User : ~Booked(j, u, <<>>)) =>
              Booked(j, Terms[j].dealer, Due(j, Terms[j].dealer))

OrdersOpen == \A j \in Dock : pc[j] # "done" => agentOrder[j] = "none"

LEMMA OrdersOpenStep == TypeOK /\ OrdersOpen /\ [Next]_vars => OrdersOpen'
  <1> SUFFICES ASSUME TypeOK, OrdersOpen, [Next]_vars, NEW j \in Dock, pc'[j] # "done"
               PROVE  agentOrder'[j] = "none"
    BY DEF OrdersOpen
  <1>1. j \in Job
    BY DEF Job
  <1>2. CASE \E k \in Job : Commit(k)
    <2>1. PICK k \in Job : Commit(k)
      BY <1>2
    <2>2. k # j /\ pc'[j] = pc[j]
      BY <1>1, <2>1 DEF Commit, Goto, TypeOK
    <2>3. agentOrder'[j] = agentOrder[j]
      BY <2>1, <2>2 DEF Commit, Record, TypeOK
    <2> QED
      BY <2>2, <2>3 DEF OrdersOpen
  <1>3. CASE UNCHANGED agentOrder /\ \A k \in Job : pc'[k] = "done" <=> pc[k] = "done"
    BY <1>1, <1>3 DEF OrdersOpen
  <1> QED
    BY <1>2, <1>3, OnlyCommits

LEMMA SubSeqTyped ==
    ASSUME NEW d \in Seq(Int), NEW k \in 0..Len(d)
    PROVE  SubSeq(d, 1, k) \in Seq(Int)
  OBVIOUS

\* Steps of others.
LEMMA SettledStays ==
    ASSUME NEW j \in Dock, agentOrder'[j] = agentOrder[j], Settled(j),
           \A u \in User : \A x \in Seq(Int) : Booked(j, u, x) => Booked(j, u, x)'
    PROVE  Settled(j)'
  <1> DEFINE D(u) == Due(j, u)
  <1>1. \A u : D(u) \in Seq(Int)
    BY EntriesTyped, DuesTyped DEF Due, Job
  <1>2. <<>> \in Seq(Int) /\ Terms[j].dealer \in User
    BY TermsTyped
  <1>3. \A u : Due(j, u)' = D(u)
    BY DueConstant
  <1>4. PaidBack(Terms[j])' <=> PaidBack(Terms[j])
    BY DEF PaidBack
  <1>5. \A u, k : SubSeq(Due(j, u), 1, k)' = SubSeq(D(u), 1, k)
    BY <1>3
  <1>6. \A u \in User : \A k \in 0..Len(D(u)) : SubSeq(D(u), 1, k) \in Seq(Int)
    BY <1>1, SubSeqTyped
  <1> DEFINE S(u, k) == SubSeq(D(u), 1, k)
             L(u) == Len(D(u))
             B(u, x) == Booked(j, u, x)
             C(u, x) == Booked(j, u, x)'
  <1>7. \A u \in User : \A x \in Seq(Int) : B(u, x) => C(u, x)
    OBVIOUS
  <1>8. /\ agentOrder[j] = "none" => \A u \in User : B(u, <<>>)
        /\ agentOrder[j] = "settled" => \A u \in User : B(u, D(u))
        /\ agentOrder[j] = "delivered" => \A u \in User : \E k \in 0..L(u) : B(u, S(u, k))
        /\ agentOrder[j] = "delivered" /\ ~PaidBack(Terms[j]) =>
             /\ \A u \in User : B(u, <<>>) \/ B(u, D(u))
             /\ (\E u \in User : ~B(u, <<>>)) => B(Terms[j].dealer, D(Terms[j].dealer))
    BY DEF Settled
  <1> HIDE DEF D, S, L, B, C
  <1>9. /\ agentOrder[j] = "none" => \A u \in User : C(u, <<>>)
        /\ agentOrder[j] = "settled" => \A u \in User : C(u, D(u))
        /\ agentOrder[j] = "delivered" => \A u \in User : \E k \in 0..L(u) : C(u, S(u, k))
        /\ agentOrder[j] = "delivered" /\ ~PaidBack(Terms[j]) =>
             /\ \A u \in User : C(u, <<>>) \/ C(u, D(u))
             /\ (\E u \in User : ~C(u, <<>>)) => C(Terms[j].dealer, D(Terms[j].dealer))
    BY <1>1, <1>2, <1>6, <1>7, <1>8 DEF S, L
  <1> QED
    BY <1>3, <1>4, <1>5, <1>9 DEF Settled, C, D, S, L

LEMMA ConcatPrefix ==
    ASSUME NEW p \in Seq(Int), NEW q \in Seq(Int)
    PROVE  Len(p) \in 0..Len(p \o q) /\ SubSeq(p \o q, 1, Len(p)) = p
  <1>1. /\ Len(p) \in Nat /\ Len(q) \in Nat /\ Len(p \o q) = Len(p) + Len(q)
    OBVIOUS
  <1>2. CASE Len(p) = 0
    <2>1. p = <<>>
      BY <1>2
    <2>2. SubSeq(p \o q, 1, 0) = <<>>
      BY SubSeqEmpty
    <2> QED
      BY <1>1, <1>2, <2>1, <2>2
  <1>3. CASE Len(p) # 0
    <2>1. 1 \in 1..Len(p) /\ Len(p) \in 1..Len(p)
      BY <1>1, <1>3
    <2>2. SubSeq(p \o q, 1, Len(p)) = SubSeq(p, 1, Len(p))
      BY <2>1, SubSeqOfConcat1
    <2>3. SubSeq(p, 1, Len(p)) = p
      BY SubSeqFull
    <2> QED
      BY <1>1, <2>2, <2>3
  <1> QED
    BY <1>2, <1>3

\* The commit of j.
LEMMA SettledCommit ==
    ASSUME TypeOK, LocksInv, DeliveriesInv, Owed, OrdersOpen, NEW j \in Dock, Settled(j), Commit(j)
    PROVE  Settled(j)'
  <1> DEFINE t == Terms[j]
             s == todo[j]
             g(u) == Gained(j, u)
             d(u) == Dues(s, u)
             D(u) == Due(j, u)
             C(u, x) == Booked(j, u, x)'
  <1>1. j \in Job /\ ((pc[j] = "booking" /\ s = <<>>) \/ pc[j] = "cut")
    BY DEF Job, Commit, Complete
  <1>2. s \in Seq(Change) /\ \A u : d(u) \in Seq(Int)
    BY <1>1, DuesTyped DEF TypeOK
  <1>3. \A u \in User : g(u) \in Seq(Int) /\ g(u) \o d(u) = D(u)
    BY <1>1, GainedTyped DEF Owed, Owes, Active
  <1>4. \A u \in User : \A x : x = g(u) => C(u, x)
    <2>1. ASSUME NEW u \in User PROVE Own(j, u) = {}
      <3>1. Booked(j, u, <<>>)
        BY <1>1 DEF OrdersOpen, Settled
      <3>2. PICK n \in 0..Len(flows[u]) : Own(j, u) = (n + 1)..(n + Len(<<>>))
        BY <3>1 DEF Booked
      <3>3. Len(flows[u]) \in Nat /\ Len(<<>>) = 0
        BY DEF TypeOK
      <3>4. n \in Nat
        BY <3>2, <3>3
      <3>5. (n + 1)..(n + 0) = {}
        BY <3>4
      <3> QED
        BY <3>2, <3>3, <3>5
    <2> QED
      BY <2>1, CommitBooked
  <1>5. \A u : Due(j, u)' = D(u)
    BY DueConstant
  <1>6. agentOrder'[j] = IF pc[j] = "cut" THEN "delivered" ELSE "settled"
    BY DEF Commit, Record, TypeOK
  <1>7. CASE pc[j] = "booking" /\ s = <<>>
    <2>1. \A u \in User : C(u, D(u))
      <3>1. \A u : d(u) = <<>>
        BY <1>7, DuesNone
      <3>2. \A x \in Seq(Int) : x \o <<>> = x
        OBVIOUS
      <3> HIDE DEF g, d, D, C
      <3> QED
        BY <1>3, <1>4, <3>1, <3>2
    <2> QED
      BY <1>5, <1>6, <1>7, <2>1 DEF Settled
  <1>8. CASE pc[j] = "cut"
    <2>1. \A u \in User : \E k \in 0..Len(D(u)) : C(u, SubSeq(D(u), 1, k))
      <3>1. ASSUME NEW u \in User PROVE Len(g(u)) \in 0..Len(D(u)) /\ SubSeq(D(u), 1, Len(g(u))) = g(u)
        <4> HIDE DEF g, d, D
        <4>1. Len(g(u)) \in 0..Len(g(u) \o d(u)) /\ SubSeq(g(u) \o d(u), 1, Len(g(u))) = g(u)
          BY <1>2, <1>3, ConcatPrefix
        <4> QED
          BY <1>3, <4>1
      <3>2. ASSUME NEW u \in User PROVE \E k \in 0..Len(D(u)) : C(u, SubSeq(D(u), 1, k))
        <4>1. PICK k \in 0..Len(D(u)) : k = Len(g(u))
          BY <3>1
        <4>2. PICK x : x = SubSeq(D(u), 1, k)
          OBVIOUS
        <4>3. x = g(u)
          BY <3>1, <4>1, <4>2
        <4> HIDE DEF g, d, D, C
        <4>4. C(u, x)
          BY <1>4, <4>3
        <4> QED
          BY <4>2, <4>4
      <3> HIDE DEF g, d, D, C
      <3> QED
        BY <3>2
    <2>2. ASSUME ~PaidBack(t)
          PROVE  /\ \A u \in User : C(u, <<>>) \/ C(u, D(u))
                 /\ (\E u \in User : ~C(u, <<>>)) => C(t.dealer, D(t.dealer))
      <3>1. j \in Delivery /\ s # <<>> /\ holder[Head(s).user] # j
        BY <1>8 DEF Owed, Owes, NextUser
      <3>2. s \in Rests(Who(t), Much(t))
        BY <3>1 DEF DeliveriesInv
      <3>3. Head(s).user \in User /\ t.dealer \in User
        <4>1. Head(s) \in Change
          BY <1>2, <3>1
        <4> QED
          BY <4>1, TermsTyped DEF Change
      <3>4. g(Head(s).user) = <<>>
        BY <3>1 DEF Gained
      <3> DEFINE l == [u \in User |-> Len(g(u))]
      <3>5. \A u \in User : l[u] \in Nat /\ l[u] + Len(d(u)) = Len(D(u))
        <4>1. \A x, y \in Seq(Int) : Len(x) \in Nat /\ Len(x \o y) = Len(x) + Len(y)
          OBVIOUS
        <4> HIDE DEF g, d, D
        <4> QED
          BY <1>2, <1>3, <4>1
      <3>6. l[Head(s).user] = 0
        <4>1. Len(<<>>) = 0
          OBVIOUS
        <4> HIDE DEF g
        <4> QED
          BY <3>3, <3>4, <4>1
      <3>7. \A u \in User : l[u] # 0 => Len(d(u)) = 0 /\ Len(d(t.dealer)) = 0
        <4> HIDE DEF l
        <4> QED
          BY <2>2, <3>1, <3>2, <3>5, <3>6, CutWhole
      <3>8. \A x \in Seq(Int) : (Len(x) = 0 => x = <<>>) /\ x \o <<>> = x
        OBVIOUS
      <3> HIDE DEF g, d, D, C, t, s
      <3>9. ASSUME NEW u \in User, ~C(u, <<>>) PROVE Len(d(u)) = 0 /\ Len(d(t.dealer)) = 0
        <4>1. g(u) # <<>>
          BY <1>4, <3>9
        <4> QED
          BY <1>3, <3>7, <3>8, <4>1
      <3>10. ASSUME NEW u \in User, Len(d(u)) = 0 PROVE C(u, D(u))
        <4>1. d(u) = <<>>
          BY <1>2, <3>8, <3>10
        <4> QED
          BY <1>3, <1>4, <3>8, <4>1
      <3> QED
        BY <3>3, <3>9, <3>10
    <2>3. /\ PaidBack(Terms[j])' <=> PaidBack(t)
          /\ Terms[j]' = Terms[j]
      BY DEF PaidBack
    <2> QED
      BY <1>5, <1>6, <1>8, <2>1, <2>2, <2>3 DEF Settled
  <1> QED
    BY <1>1, <1>7, <1>8

\* The commit of another job appends flows of its own.
LEMMA SettledOthers ==
    ASSUME TypeOK, LocksInv, NEW j \in Dock, Settled(j), NEW k \in Job, k # j, Commit(k)
    PROVE  Settled(j)'
  <1>1. ASSUME NEW u \in User
        PROVE  \A x \in Seq(Int) : Booked(j, u, x) => Booked(j, u, x)'
    <2> DEFINE own == IF holder[u] = k THEN written[u] ELSE <<>>
               more == IF k \in Advert /\ u = Payer(k) THEN <<Receipt(k)>> ELSE <<>>
               r == own \o more
    <2>1. flows[u] \in Seq(Flow) /\ written[u] \in Seq(Flow)
      BY DEF TypeOK
    <2>2. /\ own \in Seq(Flow) /\ \A i \in 1..Len(own) : own[i].job = k
      BY <2>1 DEF LocksInv
    <2>3. more \in Seq(Flow) /\ \A i \in 1..Len(more) : more[i].job = k
      <3>1. CASE k \in Advert /\ u = Payer(k)
        <4>1. Receipt(k) \in Flow /\ Receipt(k).job = k
          BY <3>1, ReceiptTyped DEF Receipt
        <4>2. \A f \in Flow : /\ <<f>> \in Seq(Flow)
                              /\ \A i \in 1..Len(<<f>>) : <<f>>[i] = f
          OBVIOUS
        <4> QED
          BY <3>1, <4>1, <4>2
      <3>2. CASE ~(k \in Advert /\ u = Payer(k))
        <4>1. <<>> \in Seq(Flow) /\ Len(<<>>) = 0 /\ 1..0 = {}
          OBVIOUS
        <4> QED
          BY <3>2, <4>1
      <3> QED
        BY <3>1, <3>2
    <2>4. flows'[u] = (IF holder[u] = k THEN flows[u] \o written[u] ELSE flows[u]) \o more
      BY DEF Commit, Publish
    <2> HIDE DEF more
    <2>5. flows'[u] = (flows[u] \o own) \o more
      <3>1. flows[u] \o <<>> = flows[u]
        BY <2>1
      <3> QED
        BY <2>4, <3>1
    <2> HIDE DEF own
    <2>6. flows'[u] = flows[u] \o r
      <3> DEFINE s == flows[u]
      <3>1. s \in Seq(Flow) /\ own \in Seq(Flow) /\ more \in Seq(Flow)
        BY <2>1, <2>2, <2>3
      <3>2. flows'[u] = (s \o own) \o more
        BY <2>5
      <3> HIDE DEF s
      <3>3. (s \o own) \o more = s \o (own \o more)
        BY <3>1, ConcatAssoc
      <3>4. flows'[u] = s \o r
        BY <3>2, <3>3
      <3> QED
        BY <3>4 DEF s
    <2>7. r \in Seq(Flow) /\ \A i \in 1..Len(r) : r[i].job # j
      <3>1. /\ Len(own) \in Nat /\ Len(more) \in Nat /\ r \in Seq(Flow) /\ Len(r) = Len(own) + Len(more)
            /\ \A i \in 1..Len(own) : r[i] = own[i]
            /\ \A i \in 1..Len(more) : r[Len(own) + i] = more[i]
        BY <2>2, <2>3
      <3> DEFINE n == Len(own)
                 m == Len(more)
                 l == Len(r)
      <3>2. n \in Nat /\ m \in Nat /\ l = n + m
        BY <3>1
      <3>3. \A i \in 1..n : r[i].job = k
        BY <2>2, <3>1
      <3>4. \A i \in 1..m : r[n + i].job = k
        BY <2>3, <3>1
      <3> HIDE DEF n, m, l, r
      <3>5. ASSUME NEW i \in 1..l PROVE r[i].job = k
        <4>1. CASE i \in 1..n
          BY <3>3, <4>1
        <4>2. CASE i \notin 1..n
          <5>1. i - n \in 1..m /\ n + (i - n) = i
            BY <3>2, <4>2
          <5> QED
            BY <3>4, <5>1
        <4> QED
          BY <4>1, <4>2
      <3> QED
        BY <3>1, <3>5 DEF l
    <2> HIDE DEF r
    <2> QED
      BY <2>1, <2>6, <2>7, BookedStays
  <1>2. agentOrder'[j] = agentOrder[j]
    BY DEF Commit, Record, TypeOK
  <1> QED
    BY <1>1, <1>2, SettledStays

LEMMA SettledStep ==
    TypeOK /\ LocksInv /\ DeliveriesInv /\ Owed /\ OrdersOpen /\ SettledInFull /\ [Next]_vars
    => SettledInFull'
  <1>0. SettledInFull <=> \A j \in Dock : Settled(j)
    BY DEF SettledInFull, Settled
  <1>1. (\A j \in Dock : Settled(j)') => SettledInFull'
    BY DEF SettledInFull, Settled
  <1> SUFFICES ASSUME TypeOK, LocksInv, DeliveriesInv, Owed, OrdersOpen, [Next]_vars,
                      NEW j \in Dock, Settled(j)
               PROVE  Settled(j)'
    BY <1>0, <1>1
  <1>2. CASE \E k \in Job : Commit(k)
    <2>1. PICK k \in Job : Commit(k)
      BY <1>2
    <2>2. CASE k = j
      BY <2>1, <2>2, SettledCommit
    <2>3. CASE k # j
      BY <2>1, <2>3, SettledOthers
    <2> QED
      BY <2>2, <2>3
  <1>3. CASE UNCHANGED <<flows, agentOrder>>
    <2>1. \A u \in User : \A x \in Seq(Int) : Booked(j, u, x) => Booked(j, u, x)'
      BY <1>3 DEF Booked, Own
    <2> QED
      BY <1>3, <2>1, SettledStays
  <1> QED
    BY <1>2, <1>3, OnlyCommits

\* _create_agent_order: when its agent order is settled all entries of a
\* settlement are booked, in order and with nothing of it besides; without
\* one none is.  A settlement that was cut off has booked the first entries
\* of each party, and, unless the dealer is to be paid back, whole parties,
\* the dealer before anyone else.
THEOREM SettledAlways == Spec => []SettledInFull
  <1> DEFINE Inv == LocksInv /\ Balanced /\ DeliveriesInv /\ Owed /\ OrdersOpen /\ SettledInFull
  <1>1. Init => Inv
    <2> SUFFICES ASSUME Init PROVE Inv
      OBVIOUS
    <2>1. LocksInv /\ OrdersOpen
      BY WalletAssumption DEF Init, LocksInv, OrdersOpen
    <2>2. SettledInFull
      <3>1. ASSUME NEW j, NEW u \in User PROVE Booked(j, u, <<>>)
        <4>1. flows[u] = <<>>
          BY DEF Init
        <4>2. Own(j, u) = {} /\ Len(flows[u]) = 0 /\ Len(<<>>) = 0
          BY <4>1 DEF Own
        <4>3. 0 \in 0..0 /\ (0 + 1)..(0 + 0) = {} /\ 1..0 = {}
          OBVIOUS
        <4> QED
          BY <4>2, <4>3 DEF Booked
      <3>2. \A j \in Dock : agentOrder[j] = "none"
        BY DEF Init
      <3> QED
        BY <3>1, <3>2 DEF SettledInFull
    <2> QED
      BY <2>1, <2>2, BalancedInit, DeliveriesInit, OwedInit
  <1>2. TypeOK /\ Inv /\ [Next]_vars => Inv'
    BY LocksStep, BalancedStep, DeliveriesStep, OwedStep, OrdersOpenStep, SettledStep
  <1>3. Inv => SettledInFull
    OBVIOUS
  <1> HIDE DEF Inv
  <1> QED
    BY <1>1, <1>2, <1>3, TypeCorrect, PTL DEF Spec
================================================================================
