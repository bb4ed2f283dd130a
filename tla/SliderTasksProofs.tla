-------------------------- MODULE SliderTasksProofs -------------------------
(***************************************************************************)
(* Proofs about SliderTasks, for any tasks, weights and number of slots.   *)
(*                                                                         *)
(* The limit: who holds a slot by right is counted as active, or it is one *)
(* of the slots given back twice (Accounted).  The turns: while the same   *)
(* weights are in use, the credit of each bucket is what it lacks of its   *)
(* share (Balanced).                                                       *)
(***************************************************************************)
EXTENDS SliderTasks, FiniteSetTheorems, SequenceTheorems, TLAPS

Accounted ==
    /\ active <= MaxSlots
    /\ Cardinality(Holding) <= active + extra

Balanced ==
    IF round = NoRound
    THEN lead = 0 /\ credit["local"] = 0 /\ credit["remote"] = 0
    ELSE /\ credit["local"] = -lead /\ credit["remote"] = lead
         /\ 2 * lead <= Sum(round) /\ -2 * lead <= Sum(round)

USE TasksAssumption
-----------------------------------------------------------------------------
(* The type invariant.                                                     *)
LEMMA InitType == Init => TypeOK
BY DEF Init, TypeOK, Bucket, Account

\* What the dispatcher takes from the queue has a type.
LEMMA SettleType ==
    ASSUME TypeOK, NEW m \in Mouse \cup {Free}, Settle(m)
    PROVE  /\ place' \in [Task -> {"idle", "queued", "cancelled", "picked", "dropped",
                                   "pooled", "slot", "lock", "open", "face", "after", "over"}]
           /\ ahead' \subseteq Mouse \X Mouse
           /\ aged' \subseteq Mouse
           /\ current' \in Mouse \cup {Free}
           /\ pool' \in Seq(Task)
<1>1. m # Free => m \in Task
  BY DEF Task
<1> QED
  BY <1>1 DEF Settle, TypeOK, Waiting

LEMMA ResetType ==
    ASSUME ResetRound
    PROVE  /\ credit' \in [Bucket -> Int]
           /\ round' \in [Bucket -> Nat] \cup {NoRound}
           /\ lead' \in Int
BY DEF ResetRound, Bucket

LEMMA WeightType ==
    ASSUME NEW w \in Weights \cup {Even}
    PROVE  Effective(w) \in [Bucket -> Nat]
BY DEF Effective, Even, Sum, Bucket

\* A pick by weights, and the types of what it writes.
LEMMA PickType ==
    ASSUME TypeOK, NEW w \in [Bucket -> Nat], PickWeighed(w)
    PROVE  /\ place' \in [Task -> {"idle", "queued", "cancelled", "picked", "dropped",
                                   "pooled", "slot", "lock", "open", "face", "after", "over"}]
           /\ ahead' \subseteq Mouse \X Mouse
           /\ aged' \subseteq Mouse
           /\ current' \in Mouse \cup {Free}
           /\ pool' \in Seq(Task)
           /\ credit' \in [Bucket -> Int]
           /\ round' = w
           /\ lead' \in Int
<1>1. PICK b \in Bucket, m \in Waiting :
        /\ Settle(m)
        /\ credit' = [c \in Bucket |-> Owed(w, c) - (IF c = b THEN Sum(w) ELSE 0)]
        /\ lead' = (IF round = w THEN lead ELSE 0)
                     + (IF b = "local" THEN w["remote"] ELSE -w["local"])
        /\ round' = w
  BY DEF PickWeighed
<1>2. m \in Mouse \cup {Free}
  BY DEF Waiting
<1>3. \A c \in Bucket : Owed(w, c) \in Int
  BY DEF Owed, TypeOK
<1>4. Sum(w) \in Int /\ w["remote"] \in Int /\ w["local"] \in Int
  BY DEF Sum, Bucket
<1>5. credit' \in [Bucket -> Int]
  BY <1>1, <1>3, <1>4
<1>6. lead' \in Int
  BY <1>1, <1>4 DEF TypeOK
<1> QED
  BY <1>1, <1>2, <1>5, <1>6, SettleType

LEMMA QueueType ==
    ASSUME TypeOK, NEW m \in Mouse, Submit(m) \/ Cancel(m) \/ Age
    PROVE  TypeOK'
<1>1. m \in Task
  BY DEF Task
<1>2. CASE Submit(m)
  BY <1>1, <1>2 DEF Submit, InLine, Goes, TypeOK, slots
<1>3. CASE Cancel(m)
  BY <1>1, <1>3 DEF Cancel, Goes, TypeOK, queue, slots
<1>4. CASE Age
  BY <1>4 DEF Age, InLine, TypeOK, slots
<1> QED
  BY <1>2, <1>3, <1>4

\* The only bucket that has tasks.
LEMMA AloneType ==
    ASSUME TypeOK, PickAlone, UNCHANGED <<comers, slots>>
    PROVE  TypeOK'
<1>1. PICK m \in Waiting : Settle(m) /\ ResetRound /\ dispatcher' = "running"
  BY DEF PickAlone
<1>2. m \in Mouse \cup {Free}
  BY DEF Waiting
<1> QED
  BY <1>1, <1>2, SettleType, ResetType DEF TypeOK, slots

LEMMA DispatchType ==
    ASSUME TypeOK, Dispatch
    PROVE  TypeOK'
<1>0. Free \in Mouse \cup {Free}
  OBVIOUS
<1>1. CASE Choose /\ Pending = {} /\ Settle(Free) /\ ResetRound /\ dispatcher' = "none"
  BY <1>0, <1>1, SettleType, ResetType DEF Choose, TypeOK, slots
<1>2. CASE PickAlone /\ UNCHANGED <<comers, slots>>
  BY <1>2, AloneType
<1>3. CASE /\ UNCHANGED <<comers, slots, credit, round, lead>>
           /\ Settle(Free) /\ dispatcher' \in {"weighing", "choosing"}
  BY <1>0, <1>3, SettleType DEF TypeOK, slots
<1>4. ASSUME NEW w \in Weights \cup {Even}, PickWeighed(Effective(w)),
             dispatcher' = "running", UNCHANGED <<comers, slots>>
      PROVE  TypeOK'
  BY <1>4, WeightType, PickType DEF TypeOK, slots
<1>5. Effective(Even) = Even
  BY DEF Effective, Even, Sum, Bucket
<1>6. CASE Choose
  BY <1>1, <1>2, <1>3, <1>6 DEF Choose
<1>7. CASE Weigh
  BY <1>2, <1>3, <1>4, <1>5, <1>7 DEF Weigh
<1>8. CASE Finish
  BY <1>8 DEF Finish, Goes, TypeOK, slots, Task
<1> QED
  BY <1>6, <1>7, <1>8 DEF Dispatch

LEMMA BeginType ==
    ASSUME TypeOK, Begin
    PROVE  TypeOK'
<1>1. Head(pool) \in Task /\ Tail(pool) \in Seq(Task)
  BY DEF Begin, TypeOK
<1> QED
  BY <1>1 DEF Begin, TypeOK, queue, slots

\* Fewer slots are a number again.
LEMMA FewerType ==
    ASSUME active \in Nat, NEW n \in Nat
    PROVE  Fewer(n) \in Nat /\ Fewer(n) >= active - n /\ Fewer(n) <= active
BY DEF Fewer

LEMMA FailType ==
    ASSUME TypeOK, NEW b \in Browser, NEW held \in {0, 1}, Fail(b, held),
           UNCHANGED <<comers, queue, pool, locks>>
    PROVE  TypeOK'
<1> DEFINE more == IF b \in UserLogin THEN 1 ELSE 0
<1>1. active' = Fewer(held + more) /\ extra' = Forgive(b, more) /\ MoveOn(b)
  BY DEF Fail
<1>2. active' \in Nat
  <2>1. held + more \in Nat /\ active \in Nat
    BY DEF TypeOK
  <2> HIDE DEF more
  <2> QED
    BY <1>1, <2>1, FewerType
<1>3. extra' \in Nat
  BY <1>1 DEF Forgive, TypeOK
<1>4. b \in Task
  BY DEF Task
<1>5. /\ place' \in [Task -> {"idle", "queued", "cancelled", "picked", "dropped",
                              "pooled", "slot", "lock", "open", "face", "after", "over"}]
      /\ second' \subseteq Solver
  BY <1>1, <1>4 DEF MoveOn, Goes, TypeOK
<1> QED
  BY <1>2, <1>3, <1>5 DEF TypeOK, queue

LEMMA BrowserType ==
    ASSUME TypeOK, NEW b \in Browser, Call(b) \/ Run(b) \/ AskFace(b)
    PROVE  TypeOK'
<1>0. b \in Task /\ AccountOf[b] \in Account
  BY DEF Task, Account
<1>1. CASE Call(b)
  <2>1. pool' \in Seq(Task)
    <3>1. pool' = Append(pool, b) \/ pool' = pool
      BY <1>1 DEF Call
    <3>2. pool \in Seq(Task)
      BY DEF TypeOK
    <3>3. Append(pool, b) \in Seq(Task)
      BY <1>0, <3>2, AppendProperties
    <3> QED
      BY <3>1, <3>2, <3>3
  <2>2. PICK p \in {"pooled", "slot"} : place' = [place EXCEPT ![b] = p]
    BY <1>1 DEF Call, Goes
  <2> QED
    <3>1. UNCHANGED <<comers, queue, slots>>
      BY <1>1 DEF Call
    <3> QED
      BY <1>0, <2>1, <2>2, <3>1 DEF TypeOK, queue, slots
<1>2. CASE TakeSlot(b)
  BY <1>0, <1>2 DEF TakeSlot, Goes, TypeOK, queue
<1>3. CASE NoSlot(b)
  BY <1>3, FailType DEF NoSlot
<1>4. CASE TakeLock(b)
  BY <1>0, <1>4 DEF TakeLock, Goes, TypeOK, queue
<1>5. CASE NoLock(b)
  BY <1>5, FailType DEF NoLock
<1>6. CASE AskFace(b)
  <2>1. active' \in Nat
    BY <1>6, FewerType DEF AskFace, TypeOK
  <2> QED
    BY <1>0, <1>6, <2>1 DEF AskFace, Goes, TypeOK, queue
<1>7. CASE FaceOver(b)
  BY <1>0, <1>7 DEF FaceOver, Goes, TypeOK, queue
<1>8. CASE Close(b)
  <2>1. active' \in Nat /\ extra' \in Nat
    BY <1>8, FewerType DEF Close, Forgive, TypeOK
  <2> QED
    BY <1>0, <1>8, <2>1 DEF Close, MoveOn, Goes, TypeOK, queue
<1> QED
  BY <1>1, <1>2, <1>3, <1>4, <1>5, <1>6, <1>7, <1>8 DEF Run

(* Every variable keeps its type, whatever tasks come.                     *)
THEOREM TypeCorrect == Spec => []TypeOK
<1>1. TypeOK /\ [Next]_vars => TypeOK'
  <2> SUFFICES ASSUME TypeOK, [Next]_vars PROVE TypeOK'
    OBVIOUS
  <2>1. CASE \E m \in Mouse : Submit(m) \/ Cancel(m)
    BY <2>1, QueueType
  <2>2. CASE Age
    <3>1. PICK m \in Mouse : TRUE
      BY <2>2 DEF Age, InLine
    <3> QED
      BY <2>2, <3>1, QueueType
  <2>3. CASE Dispatch
    BY <2>3, DispatchType
  <2>4. CASE Begin
    BY <2>4, BeginType
  <2>5. CASE \E b \in Browser : Call(b) \/ Run(b) \/ AskFace(b)
    BY <2>5, BrowserType
  <2>6. CASE UNCHANGED vars
    BY <2>6 DEF vars, queue, slots, TypeOK
  <2> QED
    BY <2>1, <2>2, <2>3, <2>4, <2>5, <2>6 DEF Next
<1> QED
  BY <1>1, InitType, PTL DEF Spec
-----------------------------------------------------------------------------
(* The limit.  A step of a browser changes only whether that browser       *)
(* holds a slot.                                                           *)
LEMMA BrowserFinite ==
    ASSUME NEW S \in SUBSET Browser
    PROVE  /\ IsFiniteSet(S) /\ Cardinality(S) \in Nat
           /\ \A b : Cardinality(S \cup {b}) <= Cardinality(S) + 1
           /\ \A b \in S : Cardinality(S \ {b}) = Cardinality(S) - 1
<1>1. IsFiniteSet(S) /\ Cardinality(S) \in Nat
  BY FS_Subset, FS_CardinalityType DEF TasksAssumption
<1>2. ASSUME NEW b
      PROVE  Cardinality(S \cup {b}) <= Cardinality(S) + 1
  <2>1. Cardinality(S \cup {b}) = IF b \in S THEN Cardinality(S) ELSE Cardinality(S) + 1
    BY <1>1, FS_AddElement
  <2> QED
    BY <1>1, <2>1
<1>3. ASSUME NEW b \in S
      PROVE  Cardinality(S \ {b}) = Cardinality(S) - 1
  BY <1>1, FS_RemoveElement
<1> QED
  BY <1>1, <1>2, <1>3

LEMMA HoldingFinite ==
    /\ Holding \subseteq Browser
    /\ Cardinality(Holding) \in Nat
    /\ \A b : Cardinality(Holding \cup {b}) <= Cardinality(Holding) + 1
    /\ \A b \in Holding : Cardinality(Holding \ {b}) = Cardinality(Holding) - 1
<1>1. Holding \in SUBSET Browser
  BY DEF Holding
<1> QED
  BY <1>1, BrowserFinite

\* Nobody but the browsers holds a slot.
LEMMA OthersAccounted ==
    ASSUME TypeOK, Accounted, UNCHANGED slots,
           \A b \in Browser : (place'[b] \in {"lock", "open", "after"})
                                <=> (place[b] \in {"lock", "open", "after"})
    PROVE  Accounted'
BY DEF Accounted, Holding, slots

LEMMA QueueAccounted ==
    ASSUME TypeOK, Accounted,
           \/ \E m \in Mouse : Submit(m) \/ Cancel(m)
           \/ Age \/ Dispatch \/ Begin
    PROVE  Accounted'
<1>1. ASSUME NEW m \in Mouse, Submit(m) \/ Cancel(m)
      PROVE  Accounted'
  BY <1>1, OthersAccounted DEF Submit, Cancel, Goes, TypeOK, Task
<1>2. CASE Age
  BY <1>2, OthersAccounted DEF Age
<1>3. CASE Begin
  <2>1. \A b \in Browser : (place'[b] \in {"lock", "open", "after"})
                             <=> (place[b] \in {"lock", "open", "after"})
    BY <1>3 DEF Begin, TypeOK, Task
  <2> QED
    BY <1>3, <2>1, OthersAccounted DEF Begin
<1>4. ASSUME NEW m \in Waiting \cup {Free}, Settle(m), UNCHANGED slots
      PROVE  Accounted'
  <2>1. m \notin Browser
    BY DEF Waiting, Task
  <2> QED
    BY <1>4, <2>1, OthersAccounted DEF Settle, TypeOK, Task
<1>5. CASE Choose
  BY <1>4, <1>5 DEF Choose, PickAlone
<1>6. ASSUME NEW w, PickWeighed(w), UNCHANGED slots
      PROVE  Accounted'
  BY <1>4, <1>6 DEF PickWeighed
<1>7. CASE Weigh
  <2>1. UNCHANGED slots
    BY <1>7 DEF Weigh
  <2>2. (\E m \in Waiting \cup {Free} : Settle(m)) \/ (\E w : PickWeighed(w))
    BY <1>7 DEF Weigh, PickAlone
  <2> QED
    BY <2>1, <2>2, <1>4, <1>6
<1>8. CASE Finish
  <2>1. current \notin Browser
    BY DEF TypeOK, Task
  <2> QED
    BY <1>8, <2>1, OthersAccounted DEF Finish, Goes, TypeOK, Task
<1> QED
  BY <1>1, <1>2, <1>3, <1>5, <1>7, <1>8 DEF Dispatch

\* Places of one browser, and who holds a slot after its step.
LEMMA Moves ==
    ASSUME TypeOK, NEW b \in Browser, NEW p, Goes(b, p)
    PROVE  Holding' = IF p \in {"lock", "open", "after"} THEN Holding \cup {b}
                      ELSE Holding \ {b}
<1>1. b \in Task
  BY DEF Task
<1> QED
  BY <1>1 DEF Goes, Holding, TypeOK, Task

\* A browser is gone, and its slot with it.
LEMMA GoneAccounted ==
    ASSUME TypeOK, Accounted, NEW b \in Browser,
           NEW held \in {0, 1}, NEW more \in {0, 1},
           (held = 0) <=> (b \notin Holding),
           active' = Fewer(held + more), extra' = Forgive(b, more), MoveOn(b)
    PROVE  Accounted'
<1>1. Holding' = Holding \ {b}
  BY Moves DEF MoveOn
<1>2. /\ active' \in Nat /\ active' <= MaxSlots
      /\ active' >= active - held - more
  <2>1. held + more \in Nat /\ active \in Nat /\ active <= MaxSlots
    BY DEF TypeOK, Accounted
  <2>2. Fewer(held + more) \in Nat /\ Fewer(held + more) >= active - (held + more)
           /\ Fewer(held + more) <= active
    BY <2>1, FewerType
  <2> QED
    BY <2>1, <2>2
<1>3. CASE \E x \in Browser \ {b} : place[x] \in {"lock", "open", "face", "after"}
  <2>1. extra' = extra + more
    BY <1>3 DEF Forgive
  <2>2. Cardinality(Holding \ {b}) <= Cardinality(Holding) - held
    <3>1. CASE b \in Holding
      BY <3>1, HoldingFinite
    <3>2. CASE b \notin Holding
      <4>1. Holding \ {b} = Holding /\ held = 0
        BY <3>2
      <4>2. Cardinality(Holding \ {b}) = Cardinality(Holding) /\ Cardinality(Holding) \in Nat
        BY <4>1, HoldingFinite
      <4> QED
        BY <4>1, <4>2
    <3> QED
      BY <3>1, <3>2
  <2>3. Cardinality(Holding \ {b}) \in Nat
    <3>1. Holding \ {b} \in SUBSET Browser
      BY DEF Holding
    <3> QED
      BY <3>1, BrowserFinite
  <2>4. Cardinality(Holding) <= active + extra /\ active \in Nat /\ extra \in Nat
    BY DEF Accounted, TypeOK
  <2>5. Cardinality(Holding \ {b}) <= active' + extra'
    BY <1>2, <2>1, <2>2, <2>3, <2>4, HoldingFinite
  <2> QED
    BY <1>1, <1>2, <2>5 DEF Accounted
<1>4. CASE ~ \E x \in Browser \ {b} : place[x] \in {"lock", "open", "face", "after"}
  <2>1. Holding \ {b} = {}
    BY <1>4 DEF Holding
  <2>2. extra' \in Nat
    BY <1>4 DEF Forgive, TypeOK
  <2> QED
    <3>1. Cardinality(Holding') = 0
      BY <1>1, <2>1, FS_EmptySet
    <3> QED
      BY <1>2, <2>2, <3>1 DEF Accounted
<1> QED
  BY <1>3, <1>4

LEMMA BrowserAccounted ==
    ASSUME TypeOK, Accounted, NEW b \in Browser, Call(b) \/ Run(b) \/ AskFace(b)
    PROVE  Accounted'
<1>0. active \in Nat /\ extra \in Nat /\ active <= MaxSlots
        /\ Cardinality(Holding) <= active + extra
  BY DEF TypeOK, Accounted
<1>1. CASE Call(b)
  <2>1. PICK p \in {"pooled", "slot"} : Goes(b, p)
    BY <1>1 DEF Call
  <2>2. Holding' = Holding \ {b}
    BY <2>1, Moves
  <2>3. b \notin Holding
    BY <1>1 DEF Call, Holding
  <2>4. Holding' = Holding /\ UNCHANGED <<active, extra>>
    BY <1>1, <2>2, <2>3 DEF Call, slots
  <2> QED
    BY <1>0, <2>4 DEF Accounted
<1>2. CASE TakeSlot(b)
  <2>1. Holding' = Holding \cup {b} /\ active' = active + 1 /\ extra' = extra
    BY <1>2, Moves DEF TakeSlot
  <2>2. active' <= MaxSlots
    BY <1>0, <1>2 DEF TakeSlot
  <2>3. Cardinality(Holding \cup {b}) <= active + extra + 1
    <3>1. Cardinality(Holding \cup {b}) \in Nat
      <4>1. Holding \cup {b} \in SUBSET Browser
        BY DEF Holding
      <4> QED
        BY <4>1, BrowserFinite
    <3>2. Cardinality(Holding \cup {b}) <= Cardinality(Holding) + 1
      BY HoldingFinite
    <3>3. Cardinality(Holding) \in Nat
      BY HoldingFinite
    <3> QED
      BY <1>0, <3>1, <3>2, <3>3
  <2> QED
    BY <1>0, <2>1, <2>2, <2>3 DEF Accounted
<1>3. CASE NoSlot(b)
  <2>1. b \notin Holding
    BY <1>3 DEF NoSlot, Holding
  <2> QED
    BY <1>3, <2>1, GoneAccounted DEF NoSlot, Fail
<1>4. CASE TakeLock(b)
  <2>1. Holding' = Holding \cup {b} /\ UNCHANGED <<active, extra>>
    BY <1>4, Moves DEF TakeLock
  <2>2. b \in Holding
    BY <1>4 DEF TakeLock, Holding
  <2>3. Holding' = Holding
    BY <2>1, <2>2
  <2> QED
    BY <1>0, <2>1, <2>3 DEF Accounted
<1>5. CASE NoLock(b)
  <2>1. b \in Holding
    BY <1>5 DEF NoLock, Holding
  <2> QED
    BY <1>5, <2>1, GoneAccounted DEF NoLock, Fail
<1>6. CASE AskFace(b)
  <2>1. Holding' = Holding \ {b} /\ active' = Fewer(1) /\ extra' = extra
    BY <1>6, Moves DEF AskFace
  <2>2. b \in Holding
    BY <1>6 DEF AskFace, Holding
  <2>3. Fewer(1) \in Nat /\ Fewer(1) >= active - 1 /\ Fewer(1) <= active
    BY <1>0, FewerType
  <2>4. Cardinality(Holding \ {b}) = Cardinality(Holding) - 1
    BY <2>2, HoldingFinite
  <2> QED
    BY <1>0, <2>1, <2>3, <2>4, HoldingFinite DEF Accounted
<1>7. CASE FaceOver(b)
  <2>1. Holding' = Holding \cup {b} /\ active' = active /\ extra' = extra + 1
    BY <1>7, Moves DEF FaceOver
  <2>2. Cardinality(Holding \cup {b}) <= active + extra + 1
    <3>1. Cardinality(Holding \cup {b}) \in Nat
      <4>1. Holding \cup {b} \in SUBSET Browser
        BY DEF Holding
      <4> QED
        BY <4>1, BrowserFinite
    <3>2. Cardinality(Holding \cup {b}) <= Cardinality(Holding) + 1
      BY HoldingFinite
    <3>3. Cardinality(Holding) \in Nat
      BY HoldingFinite
    <3> QED
      BY <1>0, <3>1, <3>2, <3>3
  <2> QED
    BY <1>0, <2>1, <2>2 DEF Accounted
<1>8. CASE Close(b)
  <2>1. b \in Holding
    BY <1>8 DEF Close, Holding
  <2> QED
    BY <1>8, <2>1, GoneAccounted DEF Close
<1> QED
  BY <1>1, <1>2, <1>3, <1>4, <1>5, <1>6, <1>7, <1>8 DEF Run

(* However logins give slots back twice: no more browsers are at work than *)
(* there are slots, but for those.                                         *)
THEOREM LimitKept == Spec => []WithinLimit
<1>1. Init => Accounted
  <2> SUFFICES ASSUME Init PROVE Accounted
    OBVIOUS
  <2>1. Holding = {}
    BY DEF Init, Holding, Task
  <2> QED
    BY <2>1, FS_EmptySet DEF Init, Accounted
<1>2. TypeOK /\ Accounted /\ [Next]_vars => Accounted'
  <2> SUFFICES ASSUME TypeOK, Accounted, [Next]_vars PROVE Accounted'
    OBVIOUS
  <2>1. CASE \E b \in Browser : Call(b) \/ Run(b) \/ AskFace(b)
    BY <2>1, BrowserAccounted
  <2>2. CASE UNCHANGED vars
    BY <2>2, OthersAccounted DEF vars
  <2> QED
    BY <2>1, <2>2, QueueAccounted DEF Next
<1>3. TypeOK /\ Accounted => WithinLimit
  <2> SUFFICES ASSUME TypeOK, Accounted PROVE WithinLimit
    OBVIOUS
  <2> DEFINE Work == {b \in Browser : place[b] \in {"open", "after"}}
  <2>1. Work \subseteq Holding /\ Holding \in SUBSET Browser /\ Work \in SUBSET Browser
    BY DEF Holding
  <2>2. Cardinality(Work) <= Cardinality(Holding)
    BY <2>1, BrowserFinite, FS_Subset
  <2>3. Cardinality(Work) \in Nat
    BY <2>1, BrowserFinite
  <2>4. Cardinality(Work) <= MaxSlots + extra
    <3> HIDE DEF Work
    <3> QED
      BY <2>2, <2>3, HoldingFinite DEF Accounted, TypeOK
  <2> QED
    BY <2>4 DEF WithinLimit
<1> QED
  BY <1>1, <1>2, <1>3, TypeCorrect, PTL DEF Spec
-----------------------------------------------------------------------------
(* The turns.                                                              *)
LEMMA PickBalanced ==
    ASSUME TypeOK, Balanced, NEW w \in [Bucket -> Nat], PickWeighed(w)
    PROVE  Balanced'
<1>0. w # NoRound /\ w["local"] \in Nat /\ w["remote"] \in Nat /\ lead \in Int
  BY DEF Bucket, TypeOK, TasksAssumption
<1> DEFINE now == IF round = w THEN lead ELSE 0
<1>1. now \in Int /\ Owed(w, "local") = w["local"] - now
        /\ Owed(w, "remote") = w["remote"] + now
  BY <1>0 DEF Owed, Balanced
<1>2. 2 * now <= Sum(w) /\ -2 * now <= Sum(w) /\ Sum(w) = w["local"] + w["remote"]
  BY <1>0 DEF Balanced, Sum
<1>3. PICK b \in Bucket :
        /\ \/ Owed(w, b) > Owed(w, Other(b))
           \/ Owed(w, b) = Owed(w, Other(b)) /\ b = "local"
        /\ credit' = [c \in Bucket |-> Owed(w, c) - (IF c = b THEN Sum(w) ELSE 0)]
        /\ lead' = now + (IF b = "local" THEN w["remote"] ELSE -w["local"])
        /\ round' = w
  BY DEF PickWeighed
<1> HIDE DEF now
<1>4. /\ credit'["local"] = Owed(w, "local") - (IF b = "local" THEN Sum(w) ELSE 0)
      /\ credit'["remote"] = Owed(w, "remote") - (IF b = "remote" THEN Sum(w) ELSE 0)
  BY <1>3 DEF Bucket
<1>5. CASE b = "local"
  <2>1. lead' = now + w["remote"] /\ Owed(w, "local") >= Owed(w, "remote")
    BY <1>0, <1>1, <1>3, <1>5 DEF Other
  <2>2. credit'["local"] = -lead' /\ credit'["remote"] = lead'
    BY <1>0, <1>1, <1>2, <1>4, <1>5, <2>1
  <2>3. 2 * lead' <= Sum(w) /\ -2 * lead' <= Sum(w)
    BY <1>0, <1>1, <1>2, <2>1
  <2> QED
    BY <1>0, <1>3, <2>2, <2>3 DEF Balanced, Sum
<1>6. CASE b = "remote"
  <2>1. lead' = now - w["local"] /\ Owed(w, "remote") >= Owed(w, "local")
    BY <1>0, <1>1, <1>3, <1>6 DEF Other
  <2>2. credit'["local"] = -lead' /\ credit'["remote"] = lead'
    BY <1>0, <1>1, <1>2, <1>4, <1>6, <2>1
  <2>3. 2 * lead' <= Sum(w) /\ -2 * lead' <= Sum(w)
    BY <1>0, <1>1, <1>2, <2>1
  <2> QED
    BY <1>0, <1>3, <2>2, <2>3 DEF Balanced, Sum
<1> QED
  BY <1>3, <1>5, <1>6 DEF Bucket

LEMMA ResetBalanced ==
    ASSUME ResetRound
    PROVE  Balanced'
BY DEF ResetRound, Balanced, Bucket

(* Whatever weights are in use: as long as they stay, local and remote     *)
(* tasks that compete get their turns in proportion.                       *)
THEOREM ProportionKept == Spec => []TurnsInProportion
<1>1. Init => Balanced
  BY DEF Init, Balanced, Bucket
<1>2. TypeOK /\ Balanced /\ [Next]_vars => Balanced'
  <2> SUFFICES ASSUME TypeOK, Balanced, [Next]_vars PROVE Balanced'
    OBVIOUS
  <2>1. CASE UNCHANGED <<credit, round, lead>>
    BY <2>1 DEF Balanced, Sum
  <2>2. CASE Choose
    BY <2>1, <2>2, ResetBalanced DEF Choose, PickAlone
  <2>3. CASE Weigh
    <3>1. ASSUME NEW w \in Weights \cup {Even}, PickWeighed(Effective(w))
          PROVE  Balanced'
      BY <3>1, WeightType, PickBalanced
    <3>2. Effective(Even) = Even
      BY DEF Effective, Even, Sum, Bucket
    <3> QED
      BY <2>1, <2>3, <3>1, <3>2, ResetBalanced DEF Weigh, PickAlone
  <2>4. CASE Finish
    BY <2>1, <2>4 DEF Finish
  <2>5. CASE \E m \in Mouse : Submit(m) \/ Cancel(m)
    BY <2>1, <2>5 DEF Submit, Cancel, queue
  <2>6. CASE Age \/ Begin
    BY <2>1, <2>6 DEF Age, Begin, queue
  <2>7. CASE \E b \in Browser : Call(b) \/ Run(b) \/ AskFace(b)
    BY <2>1, <2>7 DEF Call, Run, TakeSlot, NoSlot, TakeLock, NoLock, AskFace, FaceOver,
                      Close, queue
  <2>8. CASE UNCHANGED vars
    BY <2>1, <2>8 DEF vars, queue
  <2> QED
    BY <2>2, <2>3, <2>4, <2>5, <2>6, <2>7, <2>8 DEF Next, Dispatch
<1>3. TypeOK /\ Balanced => TurnsInProportion
  BY DEF Balanced, TurnsInProportion
<1> QED
  BY <1>1, <1>2, <1>3, TypeCorrect, PTL DEF Spec
=============================================================================
