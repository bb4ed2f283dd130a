------------------------ MODULE StockTaskWorkerProofs ------------------------
(***************************************************************************)
(* Proofs about StockTaskWorker, for any products, drains, orders, secrets,*)
(* new item ids, failures, deaths and retries.                             *)
(*                                                                         *)
(* Three parts: the types and who has a task in hand; that a task which    *)
(* has been pushed and not yet removed is accounted for (Covered); and the *)
(* order of the queue once a product has nothing left to sell (Followed).  *)
(***************************************************************************)
EXTENDS StockTaskWorker, TLAPS

USE WorkerAssumption DEF notes
-----------------------------------------------------------------------------
(* Queues as sets and as sequences.                                        *)

LEMMA TasksOfAppend ==
    ASSUME NEW q \in Seq(Task), NEW t \in Task
    PROVE  /\ Append(q, t) \in Seq(Task)
           /\ TasksOf(Append(q, t)) = TasksOf(q) \cup {t}
<1> DEFINE r == Append(q, t)
<1>1. /\ r \in Seq(Task) /\ Len(r) = Len(q) + 1 /\ Len(q) \in Nat
      /\ DOMAIN r = 1 .. Len(r) /\ DOMAIN q = 1 .. Len(q)
      /\ \A i \in 1 .. Len(q) : r[i] = q[i]
      /\ r[Len(q) + 1] = t
  OBVIOUS
<1> HIDE DEF r
<1>2. TasksOf(r) \subseteq TasksOf(q) \cup {t}
  BY <1>1 DEF TasksOf
<1>3. TasksOf(q) \cup {t} \subseteq TasksOf(r)
  <2>1. \A i \in DOMAIN q : i \in DOMAIN r /\ q[i] = r[i]
    BY <1>1
  <2>2. Len(q) + 1 \in DOMAIN r
    BY <1>1
  <2> QED
    BY <1>1, <2>1, <2>2 DEF TasksOf
<1> QED
  BY <1>1, <1>2, <1>3 DEF r

LEMMA TasksOfTail ==
    ASSUME NEW q \in Seq(Task), q # <<>>
    PROVE  /\ Tail(q) \in Seq(Task) /\ Head(q) \in Task
           /\ TasksOf(q) = {Head(q)} \cup TasksOf(Tail(q))
<1> DEFINE r == Tail(q)
<1>1. /\ r \in Seq(Task) /\ Len(r) = Len(q) - 1 /\ Len(q) \in Nat \ {0}
      /\ DOMAIN r = 1 .. Len(r) /\ DOMAIN q = 1 .. Len(q)
      /\ \A i \in 1 .. Len(r) : r[i] = q[i + 1]
      /\ Head(q) = q[1] /\ Head(q) \in Task
  OBVIOUS
<1> HIDE DEF r
<1>2. TasksOf(q) \subseteq {Head(q)} \cup TasksOf(r)
  <2>1. \A i \in DOMAIN q : i = 1 \/ (i - 1 \in DOMAIN r /\ q[i] = r[i - 1])
    BY <1>1
  <2> QED
    BY <1>1, <2>1 DEF TasksOf
<1>3. {Head(q)} \cup TasksOf(r) \subseteq TasksOf(q)
  <2>1. \A i \in DOMAIN r : i + 1 \in DOMAIN q /\ r[i] = q[i + 1]
    BY <1>1
  <2>2. 1 \in DOMAIN q
    BY <1>1
  <2> QED
    BY <1>1, <2>1, <2>2 DEF TasksOf
<1> QED
  BY <1>1, <1>2, <1>3 DEF r

LEMMA TasksOfType ==
    ASSUME NEW q \in Seq(Task) PROVE TasksOf(q) \subseteq Task
BY DEF TasksOf

LEMMA NoTaskApart == NoTask \notin Task
BY DEF NoTask, Task

\* Records of the model, field by field.
LEMMA RetryTyped ==
    ASSUME NEW t \in Task, t.retry < MaxRetry
    PROVE  /\ RetryOf(t) \in Task /\ RetryOf(t).retry > 0
           /\ RetryOf(t).product = t.product /\ RetryOf(t).action = t.action
BY DEF RetryOf, Task

LEMMA FreshTyped ==
    ASSUME NEW action \in {"relist", "offline"}, NEW p \in Product, NEW g \in Gen
    PROVE  FreshTask(action, p, g) \in Task
BY DEF FreshTask, Task

LEMMA IdleTyped == IdleDrain \in Drain
BY DEF IdleDrain, Drain, Gen
-----------------------------------------------------------------------------
(* Types.                                                                  *)

\* A drain has a task in hand exactly between a push or pop and its end.
Hands == \A w \in Drainer :
    InHand(w) = NoTask <=> worker[w].pc \in {"idle", "moving", "pulling", "repulling"}

LEMMA InitType == Init => TypeOK /\ Hands
<1> SUFFICES ASSUME Init PROVE TypeOK /\ Hands
  OBVIOUS
<1>1. worker \in [Drainer -> Drain] /\ Hands
  BY IdleTyped DEF Init, Hands, InHand, IdleDrain
<1>2. listing \in [Product -> Listing] /\ bound \in [Product -> Gen]
  BY DEF Init, Listing, Gen
<1>3. stock \in [Product -> SUBSET Secret] /\ sold \in [Product -> SUBSET Secret]
  BY DEF Init
<1>4. sale \in [Order -> Sale]
  <2>1. {[pc |-> "idle", product |-> p, path |-> way, gen |-> 0, view |-> {},
          secret |-> NoSecret] : p \in Product, way \in {"hook", "plain"}} \subseteq Sale
    BY DEF Sale, Gen
  <2> QED
    BY <2>1 DEF Init
<1> QED
  BY <1>1, <1>2, <1>3, <1>4 DEF Init, TypeOK

\* One drain changes its place.
LEMMA StepType ==
    ASSUME TypeOK, Hands, NEW w \in Drainer, NEW a \in Drain, Step(w, a),
           a.task = NoTask <=> a.pc \in {"idle", "moving", "pulling", "repulling"}
    PROVE  /\ worker' \in [Drainer -> Drain] /\ Hands'
           /\ worker'[w] = a /\ \A v \in Drainer \ {w} : worker'[v] = worker[v]
<1>1. /\ worker' \in [Drainer -> Drain]
      /\ worker'[w] = a /\ \A v \in Drainer \ {w} : worker'[v] = worker[v]
  BY DEF TypeOK, Step
<1> QED
  BY <1>1 DEF Hands, InHand

\* What a drain writes back of itself: its task, and a place that fits.
LEMMA DrainTyped ==
    ASSUME TypeOK, NEW w \in Drainer
    PROVE  /\ worker[w] \in Drain
           /\ worker[w].due \subseteq Task /\ worker[w].popped \in 0..DrainLimit
           /\ worker[w].task \in Task \cup {NoTask} /\ worker[w].gen \in Gen
           /\ worker[w].pc \in {"idle", "moving", "repushing", "pushed", "pulling",
                                "repulling", "popped", "executed", "failing"}
BY DEF TypeOK, Drain

LEMMA HandTyped ==
    ASSUME TypeOK, Hands, NEW w \in Drainer,
           worker[w].pc \in {"repushing", "pushed", "popped", "executed", "failing"}
    PROVE  /\ InHand(w) \in Task /\ InHand(w).product \in Product
           /\ InHand(w).retry \in 0..MaxRetry /\ InHand(w).gen \in Gen
           /\ InHand(w).action \in {"relist", "offline"}
<1>1. InHand(w) \in Task
  BY DrainTyped DEF Hands, InHand
<1> QED
  BY <1>1 DEF Task

LEMMA ReleasedTyped ==
    ASSUME TypeOK, NEW w \in Drainer
    PROVE  /\ Released(w) \in Drain
           /\ Released(w).task = NoTask /\ Released(w).pc = "pulling"
           /\ Released(w).due = worker[w].due
<1> DEFINE d == worker[w]
           a == [d EXCEPT !.pc = "pulling", !.task = NoTask, !.gen = 0]
<1>1. 0 \in Gen
  BY DEF Gen
<1>2. d \in Drain
  BY DrainTyped
<1>3. a \in Drain /\ a.task = NoTask /\ a.pc = "pulling" /\ a.due = d.due
  <2> HIDE DEF d
  <2> QED
    BY <1>1, <1>2 DEF Drain
<1> QED
  BY <1>3 DEF Released

LEMMA CarriedType ==
    ASSUME TypeOK, NEW t \in Task, NEW gen \in Gen, Carried(t, gen)
    PROVE  listing' \in [Product -> Listing]
<1>1. t.product \in Product
  BY DEF Task
<1>2. CASE listing' = [listing EXCEPT ![t.product] = [gen |-> gen, online |-> TRUE]]
  BY <1>1, <1>2 DEF TypeOK, Listing
<1>3. CASE listing' = [listing EXCEPT ![t.product].online = FALSE]
  BY <1>1, <1>3 DEF TypeOK, Listing
<1> QED
  BY <1>2, <1>3 DEF Carried

LEMMA MoveType ==
    ASSUME TypeOK, Hands, NEW w \in Drainer, Move(w)
    PROVE  TypeOK' /\ Hands'
<1> USE DEF redis, shop
<1>1. CASE BeginDrain(w)
  <2> DEFINE d == IdleDrain
             a == [d EXCEPT !.pc = "moving", !.due = ripe]
  <2>0. d \in Drain /\ d.task = NoTask /\ ripe \subseteq Task
    BY IdleTyped DEF IdleDrain, TypeOK
  <2>1. a \in Drain /\ a.task = NoTask /\ a.pc = "moving"
    <3> HIDE DEF d
    <3> QED
      BY <2>0 DEF Drain
  <2>2. Step(w, a)
    BY <1>1 DEF BeginDrain
  <2> HIDE DEF a
  <2> QED
    BY <1>1, <2>1, <2>2, StepType DEF BeginDrain, TypeOK
<1>2. CASE PushDue(w)
  <2>1. PICK t \in worker[w].due, pc \in {"pushed", "repushing"} :
          /\ queue' = Append(queue, t)
          /\ Step(w, [worker[w] EXCEPT !.pc = pc, !.task = t])
    BY <1>2 DEF PushDue
  <2> DEFINE a == [worker[w] EXCEPT !.pc = pc, !.task = t]
  <2>2. t \in Task
    BY DrainTyped
  <2>3. a \in Drain /\ a.task = t /\ a.pc = pc
    BY <2>2, DrainTyped DEF Drain
  <2>4. queue' \in Seq(Task)
    BY <2>1, <2>2, TasksOfAppend DEF TypeOK
  <2> HIDE DEF a
  <2>5. worker' \in [Drainer -> Drain] /\ Hands'
    BY <2>1, <2>2, <2>3, StepType, NoTaskApart DEF a
  <2>6. faults' \in Nat
    BY <1>2 DEF PushDue, Fail, TypeOK
  <2> QED
    BY <1>2, <2>4, <2>5, <2>6 DEF PushDue, TypeOK
<1>2a. CASE PushAgain(w)
  <2> DEFINE a == [worker[w] EXCEPT !.pc = "pushed"]
  <2>1. a \in Drain /\ a.task = InHand(w) /\ a.pc = "pushed"
    BY DrainTyped DEF Drain, InHand
  <2>2. Step(w, a) /\ InHand(w) \in Task
    BY <1>2a, HandTyped DEF PushAgain
  <2>3. queue' \in Seq(Task)
    BY <1>2a, <2>2, TasksOfAppend DEF PushAgain, TypeOK
  <2> HIDE DEF a
  <2>4. worker' \in [Drainer -> Drain] /\ Hands'
    BY <2>1, <2>2, StepType, NoTaskApart
  <2> QED
    BY <1>2a, <2>3, <2>4 DEF PushAgain, TypeOK
<1>3. CASE RemoveDue(w)
  <2> DEFINE a == [worker[w] EXCEPT !.pc = "moving", !.task = NoTask,
                                    !.due = @ \ {InHand(w)}]
  <2>1. a \in Drain /\ a.task = NoTask /\ a.pc = "moving"
    BY DrainTyped DEF Drain
  <2>2. Step(w, a)
    BY <1>3 DEF RemoveDue
  <2> HIDE DEF a
  <2>3. worker' \in [Drainer -> Drain] /\ Hands'
    BY <2>1, <2>2, StepType
  <2> QED
    BY <1>3, <2>3 DEF RemoveDue, TypeOK
<1>4. CASE StartPulling(w)
  <2> DEFINE a == [worker[w] EXCEPT !.pc = "pulling"]
  <2>1. a \in Drain /\ a.task = NoTask /\ a.pc = "pulling"
    BY <1>4, DrainTyped DEF Drain, StartPulling, Hands, InHand
  <2>2. Step(w, a)
    BY <1>4 DEF StartPulling
  <2> HIDE DEF a
  <2> QED
    BY <1>4, <2>1, <2>2, StepType DEF StartPulling, TypeOK
<1> QED
  BY <1>1, <1>2, <1>2a, <1>3, <1>4 DEF Move

LEMMA OvertakenType ==
    ASSUME NEW w \in Drainer, NEW t \in Task
    PROVE  Overtaken(w, t) \subseteq Product \X Cause
<1>1. t.product \in Product
  BY DEF Task
<1> QED
  BY <1>1 DEF Overtaken, Cause

LEMMA WorkType ==
    ASSUME TypeOK, Hands, NEW w \in Drainer, Work(w)
    PROVE  TypeOK' /\ Hands'
<1> USE DEF redis, shop
<1>0. ASSUME Step(w, Released(w)) \/ Step(w, IdleDrain)
      PROVE  worker' \in [Drainer -> Drain] /\ Hands'
  <2>1. IdleDrain.task = NoTask /\ IdleDrain.pc = "idle"
    BY DEF IdleDrain
  <2> QED
    BY <1>0, <2>1, IdleTyped, ReleasedTyped, StepType
<1>1. CASE Pop(w)
  <2> DEFINE a == [worker[w] EXCEPT !.pc = "popped", !.task = Head(queue), !.popped = @ + 1]
  <2>1. queue \in Seq(Task) /\ queue # <<>>
    BY <1>1 DEF Pop, TypeOK
  <2>2. Head(queue) \in Task /\ queue' \in Seq(Task)
    BY <1>1, <2>1, TasksOfTail DEF Pop
  <2>3. worker[w].popped + 1 \in 0..DrainLimit
    BY <1>1, DrainTyped DEF Pop
  <2>4. a \in Drain /\ a.task = Head(queue) /\ a.pc = "popped"
    BY <2>2, <2>3, DrainTyped DEF Drain
  <2>5. Step(w, a)
    BY <1>1 DEF Pop
  <2> HIDE DEF a
  <2>6. worker' \in [Drainer -> Drain] /\ Hands'
    BY <2>2, <2>4, <2>5, StepType, NoTaskApart
  <2>7. gaps' \subseteq Product \X Cause
    BY <1>1, <2>2, OvertakenType DEF Pop, TypeOK
  <2> QED
    BY <1>1, <2>2, <2>6, <2>7 DEF Pop, TypeOK
<1>2. CASE DropOrphan(w)
  <2>1. outcome' \subseteq Task \X Outcome
    BY <1>2, HandTyped DEF DropOrphan, Report, Outcome, TypeOK
  <2> QED
    BY <1>0, <1>2, <2>1 DEF DropOrphan, TypeOK
<1>3. CASE Execute(w)
  <2>1. PICK gen \in Gen :
          /\ Carried(InHand(w), gen)
          /\ Step(w, [worker[w] EXCEPT !.pc = "executed", !.gen = gen])
    BY <1>3 DEF Execute
  <2> DEFINE a == [worker[w] EXCEPT !.pc = "executed", !.gen = gen]
  <2>2. a \in Drain /\ a.task = InHand(w) /\ a.pc = "executed"
    BY DrainTyped DEF Drain, InHand
  <2>3. InHand(w) # NoTask
    BY <1>3 DEF Execute, Hands
  <2>4. listing' \in [Product -> Listing]
    BY <1>3, <2>1, HandTyped, CarriedType DEF Execute
  <2> HIDE DEF a
  <2>5. worker' \in [Drainer -> Drain] /\ Hands'
    BY <2>1, <2>2, <2>3, StepType DEF a
  <2> QED
    BY <1>3, <2>4, <2>5 DEF Execute, TypeOK
<1>4. CASE ExecuteFails(w)
  <2> DEFINE a == [worker[w] EXCEPT !.pc = "failing"]
  <2>1. a \in Drain /\ a.task = InHand(w) /\ a.pc = "failing"
    BY DrainTyped DEF Drain, InHand
  <2>2. Step(w, a) /\ InHand(w) # NoTask
    BY <1>4 DEF ExecuteFails, Hands
  <2>3. listing' \in [Product -> Listing]
    <3>1. CASE UNCHANGED listing
      BY <3>1 DEF TypeOK
    <3>2. CASE \E gen \in Gen : Carried(InHand(w), gen)
      BY <1>4, <3>2, HandTyped, CarriedType DEF ExecuteFails
    <3> QED
      BY <1>4, <3>1, <3>2 DEF ExecuteFails
  <2> HIDE DEF a
  <2>4. worker' \in [Drainer -> Drain] /\ Hands'
    BY <2>1, <2>2, StepType
  <2> QED
    BY <1>4, <2>3, <2>4 DEF ExecuteFails, TypeOK
<1>5. CASE RemapFails(w)
  <2> DEFINE a == [worker[w] EXCEPT !.pc = "failing", !.gen = 0]
  <2>1. a \in Drain /\ a.task = InHand(w) /\ a.pc = "failing"
    <3>1. 0 \in Gen
      BY DEF Gen
    <3> QED
      BY <3>1, DrainTyped DEF Drain, InHand
  <2>2. Step(w, a) /\ InHand(w) # NoTask
    BY <1>5 DEF RemapFails, Hands
  <2> HIDE DEF a
  <2>3. worker' \in [Drainer -> Drain] /\ Hands'
    BY <2>1, <2>2, StepType
  <2> QED
    BY <1>5, <2>3 DEF RemapFails, TypeOK
<1>6. CASE Commit(w)
  <2>1. outcome' \subseteq Task \X Outcome
    BY <1>6, HandTyped DEF Commit, Report, Outcome, TypeOK
  <2>2. bound' \in [Product -> Gen]
    BY <1>6, DrainTyped DEF Commit, TypeOK
  <2> QED
    BY <1>0, <1>6, <2>1, <2>2 DEF Commit, TypeOK
<1>7. CASE Requeue(w)
  <2>1. InHand(w) \in Task /\ InHand(w).retry < MaxRetry
    BY <1>7, HandTyped DEF Requeue
  <2>2. outcome' \subseteq Task \X Outcome
    BY <1>7, <2>1 DEF Requeue, Report, Outcome, TypeOK
  <2>3. RetryOf(InHand(w)) \in Task
    BY <2>1, RetryTyped
  <2>4. delayed' \subseteq Task /\ ripe' \subseteq delayed'
    BY <1>7, <2>3 DEF Requeue, TypeOK
  <2> QED
    BY <1>0, <1>7, <2>2, <2>4 DEF Requeue, TypeOK
<1>8. CASE DeadLetter(w)
  <2>1. outcome' \subseteq Task \X Outcome
    BY <1>8, HandTyped DEF DeadLetter, Outcome, TypeOK
  <2> QED
    BY <1>0, <1>8, <2>1 DEF DeadLetter, TypeOK
<1>9. CASE Fault(w)
  <2>1. outcome' \subseteq Task \X Outcome
    BY <1>9, HandTyped DEF Fault, Report, Outcome, TypeOK
  <2> QED
    BY <1>0, <1>9, <2>1 DEF Fault, TypeOK
<1>9a. CASE RequeueFails(w)
  <2>1. InHand(w) \in Task /\ InHand(w).retry < MaxRetry
    BY <1>9a, HandTyped DEF RequeueFails
  <2>2. outcome' \subseteq Task \X Outcome
    BY <1>9a, <2>1 DEF RequeueFails, Report, Outcome, TypeOK
  <2>3. RetryOf(InHand(w)) \in Task
    BY <2>1, RetryTyped
  <2>4. delayed' \subseteq Task /\ ripe' \subseteq delayed' /\ faults' \in Nat
    BY <1>9a, <2>3 DEF RequeueFails, Fail, TypeOK
  <2> QED
    BY <1>0, <1>9a, <2>2, <2>4 DEF RequeueFails, TypeOK
<1>10. CASE EndDrain(w)
  BY <1>0, <1>10 DEF EndDrain, TypeOK
<1> QED
  BY <1>1, <1>2, <1>3, <1>4, <1>5, <1>6, <1>7, <1>8, <1>9, <1>9a, <1>10 DEF Work

LEMMA MissType ==
    ASSUME TypeOK, Hands, NEW w \in Drainer, Miss(w)
    PROVE  TypeOK' /\ Hands'
<1> USE DEF redis, shop
<1>1. CASE PopUnheard(w)
  <2> DEFINE b == [worker[w] EXCEPT !.pc = "repulling"]
             a == IF worker[w].pc = "pulling" THEN b ELSE IdleDrain
  <2>0. b \in Drain /\ b.task = NoTask /\ b.pc = "repulling"
    BY <1>1, DrainTyped DEF PopUnheard, Drain, Hands, InHand
  <2>1. a \in Drain /\ a.task = NoTask /\ a.pc \in {"repulling", "idle"}
    <3> HIDE DEF b
    <3> QED
      BY <2>0, IdleTyped DEF IdleDrain
  <2>2. Step(w, a)
    BY <1>1 DEF PopUnheard
  <2> HIDE DEF a
  <2>3. worker' \in [Drainer -> Drain] /\ Hands'
    BY <2>1, <2>2, StepType
  <2>4. Head(queue) \in Task /\ queue' \in Seq(Task)
    BY <1>1, TasksOfTail DEF PopUnheard, TypeOK
  <2>5. Head(queue).product \in Product
    BY <2>4 DEF Task
  <2>6. gaps' \subseteq Product \X Cause
    BY <1>1, <2>4, <2>5, OvertakenType DEF PopUnheard, Cause, TypeOK
  <2>7. faults' \in Nat /\ unheard' \subseteq Task
    BY <1>1, <2>4 DEF PopUnheard, Fail, TypeOK
  <2> QED
    BY <1>1, <2>3, <2>4, <2>6, <2>7 DEF PopUnheard, TypeOK
<1>2. CASE BreakOff(w)
  <2>1. IdleDrain.task = NoTask /\ IdleDrain.pc = "idle"
    BY DEF IdleDrain
  <2>2. worker' \in [Drainer -> Drain] /\ Hands'
    BY <1>2, <2>1, IdleTyped, StepType DEF BreakOff
  <2> QED
    BY <1>2, <2>2 DEF BreakOff, Fail, TypeOK
<1> QED
  BY <1>1, <1>2 DEF Miss

\* The sales.  What one of them writes back of itself.
LEMMA SaleTyped ==
    ASSUME TypeOK, NEW o \in Order
    PROVE  /\ sale[o] \in Sale
           /\ sale[o].product \in Product /\ sale[o].gen \in Gen
           /\ sale[o].secret \in Secret \cup {NoSecret}
           /\ Served(o) \in Sale
           /\ Served(o).product = sale[o].product /\ Served(o).secret = NoSecret
           /\ Served(o).pc = "done"
<1> DEFINE d == sale[o]
           a == [d EXCEPT !.pc = "done", !.gen = 0, !.view = {}, !.secret = NoSecret]
<1>1. d \in Sale
  BY DEF TypeOK
<1>2. 0 \in Gen
  BY DEF Gen
<1>3. /\ d.product \in Product /\ d.gen \in Gen /\ d.secret \in Secret \cup {NoSecret}
      /\ a \in Sale /\ a.product = d.product /\ a.secret = NoSecret /\ a.pc = "done"
  <2> HIDE DEF d
  <2> QED
    BY <1>1, <1>2 DEF Sale
<1> QED
  BY <1>1, <1>3 DEF Served

\* o goes on to one of the places pcs, with one of secrets.
Goes(o, pcs, secrets) ==
    \E a \in Sale : /\ Serve(o, a) /\ a.product = sale[o].product
                    /\ a.pc \in pcs /\ a.secret \in secrets

\* The place behind a push that is over.
After(o) == IF sale[o].secret = NoSecret THEN "done" ELSE "queued"

LEMMA GoesEffect ==
    ASSUME TypeOK, NEW o \in Order, NEW pcs, NEW secrets, Goes(o, pcs, secrets)
    PROVE  /\ sale' \in [Order -> Sale]
           /\ sale'[o].product = sale[o].product
           /\ sale'[o].pc \in pcs /\ sale'[o].secret \in secrets
           /\ \A v \in Order \ {o} : sale'[v] = sale[v]
BY DEF TypeOK, Serve, Goes

LEMMA SaleGoes ==
    ASSUME TypeOK, NEW o \in Order
    PROVE  /\ Buy(o) => Goes(o, {"paid"}, {sale[o].secret})
           /\ OpenSession(o) => Goes(o, {"open", "done"}, {sale[o].secret, NoSecret})
           /\ TakeOne(o) => Goes(o, {"placed"}, Free(sale[o].product))
           /\ TakeNone(o) => Goes(o, {"soldout", "done"}, {sale[o].secret, NoSecret})
           /\ QueueTask(o) => Goes(o, {"resending", After(o)}, {sale[o].secret})
           /\ QueueFails(o) => Goes(o, {After(o)}, {sale[o].secret})
           /\ QueueAgain(o) => Goes(o, {After(o)}, {sale[o].secret})
           /\ CommitSale(o) => Goes(o, {"done"}, {NoSecret})
           /\ AbortSale(o) => Goes(o, {"done"}, {NoSecret})
<1> DEFINE d == sale[o]
           p == sale[o].product
<1>0. d \in Sale /\ p \in Product /\ listing[p].gen \in Gen /\ stock[p] \subseteq Secret
  BY SaleTyped DEF TypeOK, Listing
<1>1. ASSUME NEW pcs, Serve(o, Served(o)), "done" \in pcs
      PROVE  Goes(o, pcs, {NoSecret}) /\ Goes(o, pcs, {sale[o].secret, NoSecret})
  BY <1>1, SaleTyped DEF Goes
<1>2. ASSUME NEW pc \in {"soldout", "resending", "queued"}, Serve(o, [d EXCEPT !.pc = pc]),
             NEW pcs, pc \in pcs
      PROVE  Goes(o, pcs, {sale[o].secret})
  <2> DEFINE a == [d EXCEPT !.pc = pc]
  <2>1. a \in Sale /\ a.product = d.product /\ a.pc = pc /\ a.secret = d.secret
    <3> HIDE DEF d
    <3> QED
      BY <1>0 DEF Sale
  <2> HIDE DEF a
  <2> QED
    BY <1>2, <2>1 DEF Goes, a
<1>3. ASSUME Serve(o, Pushed(o))
      PROVE  Goes(o, {After(o)}, {sale[o].secret}) /\ Goes(o, {"resending", After(o)}, {sale[o].secret})
  <2>1. CASE sale[o].secret = NoSecret
    BY <1>1, <1>3, <2>1 DEF Pushed, After
  <2>2. CASE sale[o].secret # NoSecret
    BY <1>2, <1>3, <2>2 DEF Pushed, After
  <2> QED
    BY <2>1, <2>2
<1>4. Buy(o) => Goes(o, {"paid"}, {sale[o].secret})
  <2> DEFINE g == listing[p].gen
             a == [d EXCEPT !.pc = "paid", !.gen = g]
  <2>1. a \in Sale /\ a.product = d.product /\ a.pc = "paid" /\ a.secret = d.secret
    <3>1. g \in Gen
      BY <1>0
    <3> HIDE DEF d, g
    <3> QED
      BY <1>0, <3>1 DEF Sale
  <2>2. Buy(o) => Serve(o, a)
    BY DEF Buy
  <2> HIDE DEF a
  <2> QED
    BY <2>1, <2>2 DEF Goes
<1>5. OpenSession(o) => Goes(o, {"open", "done"}, {sale[o].secret, NoSecret})
  <2> DEFINE s == stock[p]
             a == [d EXCEPT !.pc = "open", !.view = s]
  <2>1. a \in Sale /\ a.product = d.product /\ a.pc = "open" /\ a.secret = d.secret
    <3>1. s \in SUBSET Secret
      BY <1>0
    <3> HIDE DEF d, s
    <3> QED
      BY <1>0, <3>1 DEF Sale
  <2>2. OpenSession(o) => Serve(o, a) \/ Serve(o, Served(o))
    BY DEF OpenSession
  <2> HIDE DEF a
  <2> QED
    BY <1>1, <2>1, <2>2 DEF Goes
<1>6. TakeOne(o) => Goes(o, {"placed"}, Free(sale[o].product))
  <2> SUFFICES ASSUME TakeOne(o) PROVE Goes(o, {"placed"}, Free(p))
    OBVIOUS
  <2>1. PICK x \in Free(p) : Serve(o, [d EXCEPT !.pc = "placed", !.secret = x])
    BY DEF TakeOne
  <2> DEFINE a == [d EXCEPT !.pc = "placed", !.secret = x]
  <2>2. x \in Secret
    BY <1>0, <2>1 DEF Free
  <2>3. a \in Sale /\ a.product = d.product /\ a.pc = "placed" /\ a.secret = x
    <3> HIDE DEF d
    <3> QED
      BY <1>0, <2>2 DEF Sale
  <2> HIDE DEF a
  <2> QED
    BY <2>1, <2>3 DEF Goes, a
<1>7. TakeNone(o) => Goes(o, {"soldout", "done"}, {sale[o].secret, NoSecret})
  <2>1. \A pcs : Goes(o, pcs, {sale[o].secret}) => Goes(o, pcs, {sale[o].secret, NoSecret})
    BY DEF Goes
  <2>2. TakeNone(o) => Serve(o, Served(o)) \/ Serve(o, [d EXCEPT !.pc = "soldout"])
    BY DEF TakeNone
  <2> QED
    BY <1>1, <1>2, <2>1, <2>2
<1>8. QueueTask(o) => Goes(o, {"resending", After(o)}, {sale[o].secret})
  <2>1. QueueTask(o) => Serve(o, Pushed(o)) \/ Serve(o, [d EXCEPT !.pc = "resending"])
    BY DEF QueueTask
  <2> QED
    BY <1>2, <1>3, <2>1
<1> QED
  BY <1>1, <1>3, <1>4, <1>5, <1>6, <1>7, <1>8
  DEF QueueFails, QueueAgain, CommitSale, AbortSale

LEMMA TaskOfTyped ==
    ASSUME TypeOK, NEW o \in Order
    PROVE  /\ TaskOf(o) \in Task /\ TaskOf(o).product = sale[o].product /\ TaskOf(o).retry = 0
           /\ ~CountsMore(o) => TaskOf(o).action = "offline"
BY SaleTyped, FreshTyped DEF TaskOf, FreshTask

\* What a sale changes, and what it leaves alone.
LEMMA SaleEffect ==
    ASSUME TypeOK, NEW o \in Order, Buy(o) \/ Deliver(o)
    PROVE  /\ UNCHANGED <<delayed, ripe, worker, bound, outcome, unheard, crashes>>
           /\ queue' = queue \/ queue' = Append(queue, TaskOf(o))
           /\ listing' \in [Product -> Listing]
           /\ \A p \in Product : listing'[p].online => listing[p].online
           /\ stock' \in [Product -> SUBSET Secret]
           /\ UNCHANGED sold \/ CommitSale(o)
           /\ gaps \subseteq gaps' /\ gaps' \subseteq Product \X Cause
           /\ faults' \in Nat
<1> USE DEF redis
<1> DEFINE p == sale[o].product
<1>0. /\ p \in Product /\ sale[o].secret \in Secret \cup {NoSecret}
  BY SaleTyped
<1>1. ASSUME NEW cause \in Cause, NEW bad, Gap(o, cause, bad)
      PROVE  gaps \subseteq gaps' /\ gaps' \subseteq Product \X Cause
  BY <1>0, <1>1 DEF Gap, TypeOK
<1>2. {"stale", "unqueued", "plain"} \subseteq Cause
  BY DEF Cause
<1>3. CASE Buy(o)
  <2>1. PICK online \in BOOLEAN : listing' = [listing EXCEPT ![p].online = online]
    BY <1>3 DEF Buy
  <2>2. listing[p].online
    BY <1>3 DEF Buy
  <2>3. /\ listing' \in [Product -> Listing]
        /\ \A q \in Product : listing'[q].online => listing[q].online
    BY <1>0, <2>1, <2>2 DEF TypeOK, Listing
  <2> QED
    BY <1>3, <2>3 DEF Buy, TypeOK
<1>4. CASE OpenSession(o) \/ TakeOne(o) \/ TakeNone(o) \/ AbortSale(o)
  BY <1>4 DEF OpenSession, TakeOne, TakeNone, AbortSale, TypeOK
<1>5. CASE QueueTask(o)
  BY <1>1, <1>2, <1>5 DEF QueueTask, Fail, TypeOK
<1>6. CASE QueueFails(o)
  BY <1>1, <1>2, <1>6 DEF QueueFails, Fail, TypeOK
<1>7. CASE QueueAgain(o)
  BY <1>1, <1>2, <1>7 DEF QueueAgain, TypeOK
<1>8. CASE CommitSale(o)
  <2>1. /\ stock' = [stock EXCEPT ![p] = @ \ {sale[o].secret}]
        /\ sold' = [sold EXCEPT ![p] = @ \cup {sale[o].secret}]
        /\ Gap(o, "plain", sale[o].path = "plain")
        /\ UNCHANGED <<redis, worker, listing, bound, outcome, unheard, faults, crashes>>
    BY <1>8 DEF CommitSale
  <2>2. gaps \subseteq gaps' /\ gaps' \subseteq Product \X Cause
    BY <1>1, <1>2, <2>1
  <2> QED
    BY <1>8, <2>1, <2>2 DEF TypeOK
<1> QED
  BY <1>3, <1>4, <1>5, <1>6, <1>7, <1>8 DEF Deliver

\* A sale that has placed a secret holds its row, which nobody else holds.
Locks == \A o \in Order :
    /\ sale[o].pc \in {"idle", "paid", "open", "soldout", "done"} => sale[o].secret = NoSecret
    /\ sale[o].pc \in {"placed", "queued"} => sale[o].secret # NoSecret
    /\ sale[o].secret # NoSecret =>
         /\ sale[o].secret \in stock[sale[o].product]
         /\ \A v \in Order \ {o} : sale[v].product = sale[o].product
                                   => sale[v].secret # sale[o].secret

LEMMA LocksSale ==
    ASSUME TypeOK, Locks, NEW o \in Order, Buy(o) \/ Deliver(o)
    PROVE  Locks'
<1> DEFINE p == sale[o].product
\* o keeps what it has, or has nothing any more.
<1>1. ASSUME NEW pcs, NEW secrets, Goes(o, pcs, secrets), UNCHANGED stock,
             secrets \subseteq {sale[o].secret, NoSecret},
             pcs \cap {"placed"} = {},
             "idle" \notin pcs,
             "queued" \in pcs => sale[o].secret # NoSecret /\ secrets = {sale[o].secret},
             pcs \cap {"paid", "open", "soldout", "done"} # {} =>
               sale[o].secret = NoSecret \/ secrets = {NoSecret}
      PROVE  Locks'
  <2>1. /\ sale'[o].product = p /\ sale'[o].pc \in pcs /\ sale'[o].secret \in secrets
        /\ \A v \in Order \ {o} : sale'[v] = sale[v]
    BY <1>1, GoesEffect
  <2>2. sale'[o].secret = sale[o].secret \/ sale'[o].secret = NoSecret
    BY <1>1, <2>1
  <2>3. /\ sale'[o].pc \in {"idle", "paid", "open", "soldout", "done"} => sale'[o].secret = NoSecret
        /\ sale'[o].pc \in {"placed", "queued"} => sale'[o].secret # NoSecret
    BY <1>1, <2>1, <2>2
  <2> SUFFICES ASSUME NEW v \in Order
               PROVE  /\ sale'[v].pc \in {"idle", "paid", "open", "soldout", "done"}
                           => sale'[v].secret = NoSecret
                      /\ sale'[v].pc \in {"placed", "queued"} => sale'[v].secret # NoSecret
                      /\ sale'[v].secret # NoSecret =>
                           /\ sale'[v].secret \in stock'[sale'[v].product]
                           /\ \A u \in Order \ {v} : sale'[u].product = sale'[v].product
                                                     => sale'[u].secret # sale'[v].secret
    BY DEF Locks
  <2>4. CASE v = o
    BY <1>1, <2>1, <2>2, <2>3, <2>4 DEF Locks
  <2>5. CASE v # o
    BY <1>1, <2>1, <2>2, <2>5 DEF Locks
  <2> QED
    BY <2>4, <2>5
<1> HIDE DEF p
<1>2. CASE Buy(o)
  <2>1. Goes(o, {"paid"}, {sale[o].secret}) /\ sale[o].secret = NoSecret
    BY <1>2, SaleGoes DEF Buy, Locks
  <2> QED
    BY <1>1, <1>2, <2>1 DEF Buy
<1>3. CASE OpenSession(o)
  <2>1. Goes(o, {"open", "done"}, {sale[o].secret, NoSecret}) /\ sale[o].secret = NoSecret
    BY <1>3, SaleGoes DEF OpenSession, Locks
  <2> QED
    BY <1>1, <1>3, <2>1 DEF OpenSession
<1>4. CASE TakeOne(o)
  <2>1. Goes(o, {"placed"}, Free(p))
    BY <1>4, SaleGoes DEF p
  <2>2. /\ sale'[o].product = p /\ sale'[o].pc = "placed" /\ sale'[o].secret \in Free(p)
        /\ \A v \in Order \ {o} : sale'[v] = sale[v]
    BY <2>1, GoesEffect DEF p
  <2>3. UNCHANGED stock
    BY <1>4 DEF TakeOne
  <2>4. /\ sale'[o].secret \in stock[p] /\ sale'[o].secret # NoSecret
        /\ \A v \in Order \ {o} : sale[v].product = p => sale[v].secret # sale'[o].secret
    <3>1. stock[p] \subseteq Secret /\ NoSecret \notin Secret
      BY SaleTyped DEF p, TypeOK, NoSecret
    <3> QED
      BY <2>2, <3>1 DEF Free, Sales
  <2> QED
    BY <2>2, <2>3, <2>4 DEF Locks, p
<1>5. CASE TakeNone(o)
  <2>1. Goes(o, {"soldout", "done"}, {sale[o].secret, NoSecret}) /\ sale[o].secret = NoSecret
    BY <1>5, SaleGoes DEF TakeNone, Locks
  <2> QED
    BY <1>1, <1>5, <2>1 DEF TakeNone
<1>6. CASE QueueTask(o) \/ QueueFails(o) \/ QueueAgain(o)
  <2>1. Goes(o, {"resending", After(o)}, {sale[o].secret})
    BY <1>6, SaleGoes DEF Goes
  <2> QED
    BY <1>1, <1>6, <2>1 DEF After, QueueTask, QueueFails, QueueAgain
<1>7. CASE CommitSale(o)
  <2>1. Goes(o, {"done"}, {NoSecret})
    BY <1>7, SaleGoes
  <2>2. /\ sale'[o].product = p /\ sale'[o].pc = "done" /\ sale'[o].secret = NoSecret
        /\ \A v \in Order \ {o} : sale'[v] = sale[v]
    BY <2>1, GoesEffect DEF p
  <2>3. stock' = [stock EXCEPT ![p] = @ \ {sale[o].secret}] /\ sale[o].secret # NoSecret
    BY <1>7 DEF CommitSale, Locks, p
  <2>4. ASSUME NEW v \in Order \ {o}, sale[v].secret # NoSecret
        PROVE  sale[v].secret \in stock'[sale[v].product]
    <3>1. sale[v].secret \in stock[sale[v].product] /\ sale[v].product \in Product
      BY <2>4, SaleTyped DEF Locks
    <3>2. sale[v].product = p => sale[v].secret # sale[o].secret
      BY <2>4 DEF Locks, p
    <3> QED
      BY <2>3, <3>1, <3>2 DEF TypeOK
  <2> QED
    BY <2>2, <2>4 DEF Locks
<1>8. CASE AbortSale(o)
  <2>1. Goes(o, {"done"}, {NoSecret})
    BY <1>8, SaleGoes
  <2> QED
    BY <1>1, <1>8, <2>1 DEF AbortSale
<1> QED
  BY <1>2, <1>3, <1>4, <1>5, <1>6, <1>7, <1>8 DEF Deliver

LEMMA LocksStep == TypeOK /\ Locks /\ [Next]_vars => Locks'
<1> SUFFICES ASSUME TypeOK, Locks, [Next]_vars PROVE Locks'
  OBVIOUS
<1> USE DEF redis, shop
<1>1. ASSUME NEW p \in Product, Restock(p) PROVE Locks'
  <2>1. UNCHANGED sale /\ \A q \in Product : stock[q] \subseteq stock'[q]
    BY <1>1 DEF Restock, TypeOK
  <2> QED
    BY <2>1, SaleTyped DEF Locks
<1>2. CASE UNCHANGED <<sale, stock>>
  BY <1>2 DEF Locks
<1> QED
  BY <1>1, <1>2, LocksSale
  DEF Next, Ripen, Crash, vars, Move, Work, Miss, BeginDrain, PushDue, PushAgain, RemoveDue,
      StartPulling, Pop, DropOrphan, Execute, ExecuteFails, RemapFails, Commit, Requeue,
      RequeueFails, DeadLetter, Fault, EndDrain, PopUnheard, BreakOff

LEMMA LocksInit == Init => Locks
BY DEF Init, Locks

LEMMA TypeStep == TypeOK /\ Hands /\ Locks /\ [Next]_vars => (TypeOK /\ Hands /\ Locks)'
<1> SUFFICES ASSUME TypeOK, Hands, Locks, [Next]_vars PROVE TypeOK' /\ Hands'
  BY LocksStep
<1> USE DEF redis, shop
<1>1. ASSUME NEW o \in Order, Buy(o) \/ Deliver(o) PROVE TypeOK' /\ Hands'
  <2>1. queue' \in Seq(Task)
    <3>1. queue' = queue \/ queue' = Append(queue, TaskOf(o))
      BY <1>1, SaleEffect
    <3>2. queue \in Seq(Task) /\ TaskOf(o) \in Task
      BY TaskOfTyped DEF TypeOK
    <3>3. Append(queue, TaskOf(o)) \in Seq(Task)
      BY <3>2, TasksOfAppend
    <3> QED
      BY <3>1, <3>2, <3>3
  <2>2. sale' \in [Order -> Sale]
    BY <1>1, SaleGoes, GoesEffect DEF Deliver
  <2>3. sold' \in [Product -> SUBSET Secret]
    <3>1. CASE UNCHANGED sold
      BY <3>1 DEF TypeOK
    <3>2. CASE CommitSale(o)
      <4>1. sale[o].secret \in Secret /\ sale[o].product \in Product
        BY <3>2, SaleTyped DEF CommitSale, Locks
      <4> QED
        BY <3>2, <4>1 DEF CommitSale, TypeOK
    <3> QED
      BY <1>1, <3>1, <3>2, SaleEffect
  <2> QED
    BY <1>1, <2>1, <2>2, <2>3, SaleEffect DEF TypeOK, Hands, InHand
<1>2. ASSUME NEW p \in Product, Restock(p) PROVE TypeOK' /\ Hands'
  BY <1>2 DEF Restock, TypeOK, Hands, InHand
<1>3. ASSUME NEW t \in delayed, Ripen(t) PROVE TypeOK' /\ Hands'
  BY <1>3 DEF Ripen, TypeOK, Hands, InHand
<1>4. ASSUME NEW w \in Drainer, Move(w) PROVE TypeOK' /\ Hands'
  BY <1>4, MoveType
<1>5. ASSUME NEW w \in Drainer, Work(w) PROVE TypeOK' /\ Hands'
  BY <1>5, WorkType
<1>6. ASSUME NEW w \in Drainer, Miss(w) PROVE TypeOK' /\ Hands'
  BY <1>6, MissType
<1>7. CASE Crash
  <2>1. worker' \in [Drainer -> Drain] /\ Hands'
    BY <1>7, IdleTyped DEF Crash, Hands, InHand, IdleDrain
  <2>2. \A w \in Drainer : InHand(w) # NoTask => InHand(w).product \in Product
    BY DrainTyped DEF InHand, Task
  <2>3. gaps' \subseteq Product \X Cause
    BY <1>7, <2>2 DEF Crash, Cause, TypeOK
  <2> QED
    BY <1>7, <2>1, <2>3 DEF Crash, TypeOK
<1>8. CASE UNCHANGED vars
  BY <1>8 DEF vars, TypeOK, Hands, InHand
<1> QED
  BY <1>1, <1>2, <1>3, <1>4, <1>5, <1>6, <1>7, <1>8 DEF Next

(* Every variable keeps its type, and a drain has a task in hand exactly   *)
(* from its push or pop until it lets go of it.                            *)
THEOREM TypeCorrect == Spec => [](TypeOK /\ Hands)
<1>1. Init => TypeOK /\ Hands /\ Locks
  BY InitType, LocksInit
<1>2. TypeOK /\ Hands /\ Locks /\ [Next]_vars => (TypeOK /\ Hands /\ Locks)'
  BY TypeStep
<1> QED
  BY <1>1, <1>2, PTL DEF Spec
-----------------------------------------------------------------------------
(* What a step of a drain does to the tasks: it leaves the hand empty, it  *)
(* fills it, it keeps the task, or it lets go of it with a line in the log.*)

LEMMA StepEffect ==
    ASSUME TypeOK, NEW w \in Drainer, NEW a, Step(w, a)
    PROVE  worker'[w] = a /\ \A v \in Drainer \ {w} : worker'[v] = worker[v]
BY DEF TypeOK, Step

\* w works on a task it took off the queue.
Working(w) == worker[w].pc \in {"popped", "executed", "failing"}

\* w moves a task that has come due.
Pushing(w) == worker[w].pc \in {"repushing", "pushed"}

LEMMA MoveEffect ==
    ASSUME TypeOK, Hands, NEW w \in Drainer, Move(w)
    PROVE  /\ \A v \in Drainer \ {w} : worker'[v] = worker[v]
           /\ UNCHANGED <<listing, stock, sale, outcome, gaps, unheard, crashes>>
           /\ ~Working(w) /\ ~Working(w)'
           /\ worker'[w].due \subseteq worker[w].due \cup ripe
           /\ \/ /\ UNCHANGED <<queue, delayed>>
                 /\ InHand(w) = NoTask /\ InHand(w)' = NoTask /\ ~Pushing(w)'
              \/ /\ Pushing(w)' /\ InHand(w)' \in Task
                 /\ \/ InHand(w) = NoTask /\ InHand(w)' \in worker[w].due
                    \/ Pushing(w) /\ InHand(w)' = InHand(w)
                 /\ queue' = Append(queue, InHand(w)') /\ UNCHANGED delayed
              \/ /\ worker[w].pc = "pushed" /\ UNCHANGED queue
                 /\ InHand(w)' = NoTask /\ worker'[w].pc = "moving"
                 /\ delayed' = delayed \ {InHand(w)}
<1> USE DEF redis, shop
<1>0. worker[w] \in Drain
  BY DrainTyped
<1>1. CASE BeginDrain(w)
  <2>a. worker'[w] = [IdleDrain EXCEPT !.pc = "moving", !.due = ripe]
    BY <1>1, StepEffect DEF BeginDrain
  <2>1. InHand(w)' = NoTask /\ worker'[w].pc = "moving" /\ worker'[w].due = ripe
    BY <2>a DEF IdleDrain, InHand
  <2> QED
    BY <1>1, <2>1, StepEffect DEF BeginDrain, Hands, Working, Pushing
<1>2. CASE PushDue(w)
  <2>1. PICK t \in worker[w].due, pc \in {"pushed", "repushing"} :
          /\ queue' = Append(queue, t)
          /\ Step(w, [worker[w] EXCEPT !.pc = pc, !.task = t])
    BY <1>2 DEF PushDue
  <2>a. worker'[w] = [worker[w] EXCEPT !.pc = pc, !.task = t]
    BY <2>1, StepEffect
  <2>2. InHand(w)' = t /\ worker'[w].pc = pc /\ t \in Task /\ worker'[w].due = worker[w].due
    BY <1>0, <2>a, DrainTyped DEF InHand, Drain
  <2> QED
    BY <1>2, <2>1, <2>2, StepEffect DEF PushDue, Hands, Working, Pushing
<1>2a. CASE PushAgain(w)
  <2>a. worker'[w] = [worker[w] EXCEPT !.pc = "pushed"]
    BY <1>2a, StepEffect DEF PushAgain
  <2>1. InHand(w)' = InHand(w) /\ worker'[w].pc = "pushed" /\ worker'[w].due = worker[w].due
    BY <1>0, <2>a DEF InHand, Drain
  <2>2. InHand(w) \in Task
    BY <1>2a, HandTyped DEF PushAgain
  <2> QED
    BY <1>2a, <2>1, <2>2, StepEffect DEF PushAgain, Working, Pushing
<1>3. CASE RemoveDue(w)
  <2>a. worker'[w] = [worker[w] EXCEPT !.pc = "moving", !.task = NoTask,
                                       !.due = @ \ {InHand(w)}]
    BY <1>3, StepEffect DEF RemoveDue
  <2>1. InHand(w)' = NoTask /\ worker'[w].pc = "moving" /\ worker'[w].due \subseteq worker[w].due
    BY <1>0, <2>a DEF InHand, Drain
  <2> QED
    BY <1>3, <2>1, StepEffect DEF RemoveDue, Working
<1>4. CASE StartPulling(w)
  <2>1. InHand(w)' = InHand(w) /\ worker'[w].pc = "pulling" /\ worker'[w].due = worker[w].due
    BY <1>0, <1>4, StepEffect DEF StartPulling, InHand, Drain
  <2> QED
    BY <1>4, <2>1, StepEffect DEF StartPulling, Hands, Working, Pushing
<1> QED
  BY <1>1, <1>2, <1>2a, <1>3, <1>4 DEF Move

\* While it executes, a drain keeps its task and leaves Redis alone.
LEMMA HoldEffect ==
    ASSUME TypeOK, NEW w \in Drainer, Execute(w) \/ ExecuteFails(w) \/ RemapFails(w)
    PROVE  /\ Working(w) /\ Working(w)' /\ InHand(w)' = InHand(w)
           /\ \A v \in Drainer \ {w} : worker'[v] = worker[v]
           /\ UNCHANGED <<queue, delayed, ripe, stock, sold, sale, outcome, notes, crashes>>
           /\ worker[w].pc = "popped" \/ UNCHANGED listing
           /\ worker'[w].pc \in {"executed", "failing"} /\ worker'[w].due = worker[w].due
<1> USE DEF redis, shop
<1>0. worker[w] \in Drain
  BY DrainTyped
<1>1. CASE Execute(w)
  <2>1. PICK gen \in Gen : Step(w, [worker[w] EXCEPT !.pc = "executed", !.gen = gen])
    BY <1>1 DEF Execute
  <2>a. worker'[w] = [worker[w] EXCEPT !.pc = "executed", !.gen = gen]
    BY <2>1, StepEffect
  <2>2. InHand(w)' = InHand(w) /\ worker'[w].pc = "executed" /\ worker'[w].due = worker[w].due
    BY <1>0, <2>a DEF InHand, Drain
  <2> QED
    BY <1>1, <2>1, <2>2, StepEffect DEF Execute, Working
<1>2. CASE ExecuteFails(w)
  <2>1. InHand(w)' = InHand(w) /\ worker'[w].pc = "failing" /\ worker'[w].due = worker[w].due
    BY <1>0, <1>2, StepEffect DEF ExecuteFails, InHand, Drain
  <2> QED
    BY <1>2, <2>1, StepEffect DEF ExecuteFails, Working
<1>3. CASE RemapFails(w)
  <2>a. worker'[w] = [worker[w] EXCEPT !.pc = "failing", !.gen = 0]
    BY <1>3, StepEffect DEF RemapFails
  <2>1. InHand(w)' = InHand(w) /\ worker'[w].pc = "failing" /\ worker'[w].due = worker[w].due
    BY <1>0, <2>a DEF InHand, Drain
  <2> QED
    BY <1>3, <2>1, StepEffect DEF RemapFails, Working
<1> QED
  BY <1>1, <1>2, <1>3

LEMMA WorkEffect ==
    ASSUME TypeOK, Hands, NEW w \in Drainer, Work(w)
    PROVE  /\ \A v \in Drainer \ {w} : worker'[v] = worker[v]
           /\ outcome \subseteq outcome' /\ UNCHANGED <<stock, sale, unheard, crashes>>
           /\ ~Pushing(w) /\ ~Pushing(w)'
           /\ worker'[w].due \subseteq worker[w].due
           /\ UNCHANGED gaps \/ Pop(w)
           /\ \/ /\ UNCHANGED <<queue, delayed>>
                 /\ InHand(w) = NoTask /\ InHand(w)' = NoTask /\ ~Working(w)'
              \/ /\ InHand(w) = NoTask /\ queue # <<>> /\ UNCHANGED delayed
                 /\ InHand(w)' = Head(queue) /\ queue' = Tail(queue) /\ worker'[w].pc = "popped"
                 /\ gaps' = gaps \cup Overtaken(w, Head(queue))
              \/ /\ Working(w) /\ worker'[w].pc \in {"executed", "failing"}
                 /\ InHand(w)' = InHand(w)
                 /\ UNCHANGED <<queue, delayed>>
              \/ /\ Working(w) /\ ~Working(w)' /\ InHand(w)' = NoTask
                 /\ \E what \in Outcome : <<InHand(w), what>> \in outcome'
                 /\ UNCHANGED queue /\ delayed \subseteq delayed'
                 /\ \A t \in delayed' \ delayed :
                      /\ t = RetryOf(InHand(w)) /\ InHand(w).retry < MaxRetry
                      /\ \E what \in {"failed", "fault"} : <<InHand(w), what>> \in outcome'
<1> USE DEF redis, shop
<1>0. worker[w] \in Drain
  BY DrainTyped
<1>a. ASSUME Step(w, Released(w)) \/ Step(w, IdleDrain)
      PROVE  /\ InHand(w)' = NoTask /\ worker'[w].pc \in {"idle", "pulling"}
             /\ worker'[w].due \subseteq worker[w].due
             /\ \A v \in Drainer \ {w} : worker'[v] = worker[v]
  <2>1. CASE Step(w, Released(w))
    BY <2>1, ReleasedTyped, StepEffect DEF InHand
  <2>2. CASE Step(w, IdleDrain)
    BY <2>2, StepEffect DEF InHand, IdleDrain
  <2> QED
    BY <1>a, <2>1, <2>2
<1>1. CASE Pop(w)
  <2>a. worker'[w] = [worker[w] EXCEPT !.pc = "popped", !.task = Head(queue), !.popped = @ + 1]
    BY <1>1, StepEffect DEF Pop
  <2>1. InHand(w)' = Head(queue) /\ worker'[w].pc = "popped" /\ worker'[w].due = worker[w].due
    BY <1>0, <2>a DEF InHand, Drain
  <2> QED
    BY <1>1, <2>1, StepEffect DEF Pop, Hands, Working, Pushing
<1>2. CASE DropOrphan(w)
  <2>1. outcome \subseteq outcome' /\ Working(w)
        /\ \E what \in Outcome : <<InHand(w), what>> \in outcome'
    BY <1>2 DEF DropOrphan, Report, Outcome, Working, Pushing
  <2> QED
    BY <1>a, <1>2, <2>1 DEF DropOrphan, Working, Pushing
<1>3. CASE Execute(w) \/ ExecuteFails(w) \/ RemapFails(w)
  BY <1>3, HoldEffect DEF Working, Pushing
<1>4. CASE Commit(w)
  <2>1. outcome \subseteq outcome' /\ Working(w)
        /\ \E what \in Outcome : <<InHand(w), what>> \in outcome'
    BY <1>4 DEF Commit, Report, Outcome, Working, Pushing
  <2> QED
    BY <1>a, <1>4, <2>1 DEF Commit, Working, Pushing
<1>5. CASE Requeue(w)
  <2>1. outcome \subseteq outcome' /\ Working(w)
        /\ \E what \in Outcome : <<InHand(w), what>> \in outcome'
    BY <1>5 DEF Requeue, Report, Outcome, Working, Pushing
  <2>2. /\ delayed' = delayed \cup {RetryOf(InHand(w))} /\ InHand(w).retry < MaxRetry
        /\ <<InHand(w), "failed">> \in outcome'
        /\ UNCHANGED <<queue, stock, sale, gaps, unheard, crashes>> /\ worker[w].pc = "failing"
        /\ Step(w, Released(w))
    BY <1>5 DEF Requeue, Report
  <2>3. \A t \in delayed' \ delayed : t = RetryOf(InHand(w))
    BY <2>2
  <2> HIDE DEF RetryOf
  <2> QED
    BY <1>a, <2>1, <2>2, <2>3 DEF Working, Pushing
<1>5a. CASE RequeueFails(w)
  <2>1. outcome \subseteq outcome' /\ Working(w)
        /\ \E what \in Outcome : <<InHand(w), what>> \in outcome'
    BY <1>5a DEF RequeueFails, Report, Outcome, Working
  <2>2. /\ delayed' \in {delayed, delayed \cup {RetryOf(InHand(w))}}
        /\ InHand(w).retry < MaxRetry /\ <<InHand(w), "fault">> \in outcome'
        /\ UNCHANGED <<queue, stock, sale, gaps, unheard, crashes>> /\ worker[w].pc = "failing"
        /\ Step(w, IdleDrain)
    BY <1>5a DEF RequeueFails, Report
  <2>3. /\ \A t \in delayed' \ delayed : t = RetryOf(InHand(w))
        /\ delayed \subseteq delayed'
    BY <2>2
  <2> HIDE DEF RetryOf
  <2> QED
    BY <1>a, <2>1, <2>2, <2>3 DEF Working, Pushing
<1>6. CASE DeadLetter(w)
  <2>1. outcome \subseteq outcome' /\ Working(w)
        /\ \E what \in Outcome : <<InHand(w), what>> \in outcome'
    BY <1>6 DEF DeadLetter, Outcome, Working, Pushing
  <2> QED
    BY <1>a, <1>6, <2>1 DEF DeadLetter, Working, Pushing
<1>7. CASE Fault(w)
  <2>1. outcome \subseteq outcome' /\ Working(w)
        /\ \E what \in Outcome : <<InHand(w), what>> \in outcome'
    BY <1>7 DEF Fault, Report, Outcome, Working, Pushing
  <2> QED
    BY <1>a, <1>7, <2>1 DEF Fault, Working, Pushing
<1>8. CASE EndDrain(w)
  BY <1>a, <1>8 DEF EndDrain, Hands, Working, Pushing
<1> QED
  BY <1>1, <1>2, <1>3, <1>4, <1>5, <1>5a, <1>6, <1>7, <1>8 DEF Work
LEMMA MissEffect ==
    ASSUME TypeOK, Hands, NEW w \in Drainer, Miss(w)
    PROVE  /\ \A v \in Drainer \ {w} : worker'[v] = worker[v]
           /\ UNCHANGED <<listing, stock, sale, outcome, delayed, crashes>>
           /\ gaps \subseteq gaps' /\ unheard \subseteq unheard'
           /\ ~Working(w) /\ ~Working(w)' /\ ~Pushing(w)' /\ InHand(w)' = NoTask
           /\ worker'[w].due \subseteq worker[w].due
           /\ \/ UNCHANGED queue
              \/ /\ queue # <<>> /\ queue' = Tail(queue) /\ InHand(w) = NoTask
                 /\ Head(queue) \in unheard'
                 /\ <<Head(queue).product, "lost">> \in gaps'
                 /\ Overtaken(w, Head(queue)) \subseteq gaps'
<1> USE DEF redis, shop
<1>0. worker[w] \in Drain
  BY DrainTyped
<1>1. CASE PopUnheard(w)
  <2>a. worker'[w] \in {[worker[w] EXCEPT !.pc = "repulling"], IdleDrain}
    BY <1>1, StepEffect DEF PopUnheard
  <2>b. InHand(w) = NoTask
    BY <1>1 DEF PopUnheard, Hands
  <2>1. /\ InHand(w)' = NoTask /\ worker'[w].pc \in {"repulling", "idle"}
        /\ worker'[w].due \subseteq worker[w].due
    <3>1. CASE worker'[w] = [worker[w] EXCEPT !.pc = "repulling"]
      BY <1>0, <2>b, <3>1 DEF InHand, Drain
    <3>2. CASE worker'[w] = IdleDrain
      BY <3>2 DEF InHand, IdleDrain
    <3> QED
      BY <2>a, <3>1, <3>2
  <2> QED
    BY <1>1, <2>1, StepEffect DEF PopUnheard, Hands, Working, Pushing
<1>2. CASE BreakOff(w)
  <2>1. worker'[w] = IdleDrain
    BY <1>2, StepEffect DEF BreakOff
  <2> QED
    BY <1>2, <2>1, StepEffect DEF BreakOff, IdleDrain, InHand, Working, Pushing
<1> QED
  BY <1>1, <1>2 DEF Miss
-----------------------------------------------------------------------------
(* No waiting task gets lost.  Between RPUSH and ZREM the task is in the   *)
(* queue and in the delayed set; by the time of the ZREM another drain may *)
(* have taken it off the queue, but then it has it in hand, or the log     *)
(* says what became of it, or it had it from an LPOP whose answer was lost.*)

Accounted(t) == \/ t \in TasksOf(queue) \/ Logged(t) \/ t \in unheard
                \/ \E v \in Drainer : Working(v) /\ InHand(v) = t
Covered == \A w \in Drainer : Pushing(w) => Accounted(InHand(w))

LEMMA SalePushes ==
    ASSUME TypeOK, NEW o \in Order, Buy(o) \/ Deliver(o)
    PROVE  TasksOf(queue) \subseteq TasksOf(queue)'
<1>1. CASE UNCHANGED queue
  BY <1>1 DEF TasksOf
<1>2. CASE queue' = Append(queue, TaskOf(o))
  <2>1. TasksOf(Append(queue, TaskOf(o))) = TasksOf(queue) \cup {TaskOf(o)}
    BY TaskOfTyped, TasksOfAppend DEF TypeOK
  <2> QED
    BY <1>2, <2>1 DEF TasksOf
<1> QED
  BY <1>1, <1>2, SaleEffect

\* Whatever happens, short of a death, an accounted task stays accounted.
LEMMA AccountedStays ==
    ASSUME TypeOK, Hands, [Next]_vars, ~Crash, NEW t \in Task, Accounted(t)
    PROVE  Accounted(t)'
<1> USE DEF redis, shop
<1>1. ASSUME NEW o \in Order, Buy(o) \/ Deliver(o) PROVE Accounted(t)'
  <2>1. UNCHANGED <<worker, outcome, unheard>>
    BY <1>1, SaleEffect
  <2> QED
    BY <1>1, <2>1, SalePushes DEF Accounted, Logged, Working, InHand
<1>2. ASSUME UNCHANGED <<queue, worker, outcome, unheard>> PROVE Accounted(t)'
  BY <1>2 DEF Accounted, Logged, Working, InHand, TasksOf
<1>3. ASSUME NEW w \in Drainer, Move(w) PROVE Accounted(t)'
  <2>1. TasksOf(queue) \subseteq TasksOf(queue)'
    <3>1. CASE UNCHANGED queue
      BY <3>1 DEF TasksOf
    <3>2. CASE InHand(w)' \in Task /\ queue' = Append(queue, InHand(w)')
      <4>1. TasksOf(Append(queue, InHand(w)')) = TasksOf(queue) \cup {InHand(w)'}
        BY <3>2, TasksOfAppend DEF TypeOK
      <4> QED
        BY <3>2, <4>1 DEF TasksOf
    <3> QED
      BY <1>3, <3>1, <3>2, MoveEffect
  <2>2. \A v \in Drainer : Working(v) => v # w /\ worker'[v] = worker[v]
    BY <1>3, MoveEffect
  <2>3. UNCHANGED unheard /\ (Logged(t) => Logged(t)')
    BY <1>3, MoveEffect DEF Logged
  <2> QED
    BY <2>1, <2>2, <2>3 DEF Accounted, Working, InHand
<1>4. ASSUME NEW w \in Drainer, Work(w) PROVE Accounted(t)'
  <2>1. UNCHANGED unheard /\ (Logged(t) => Logged(t)')
    BY <1>4, WorkEffect DEF Logged
  <2>2. ASSUME NEW v \in Drainer, Working(v), InHand(v) = t PROVE Accounted(t)'
    <3>1. CASE v = w
      <4>1. InHand(w) # NoTask
        BY <2>2, <3>1, NoTaskApart
      <4>2. \/ Working(w)' /\ InHand(w)' = t
            \/ \E what \in Outcome : <<t, what>> \in outcome'
        BY <1>4, <2>2, <3>1, <4>1, WorkEffect DEF Working
      <4> QED
        BY <4>2 DEF Accounted, Logged
    <3>2. CASE v # w
      BY <1>4, <2>2, <3>2, WorkEffect DEF Accounted, Working, InHand
    <3> QED
      BY <3>1, <3>2
  <2>3. ASSUME t \in TasksOf(queue) PROVE Accounted(t)'
    <3>1. CASE UNCHANGED queue
      BY <2>3, <3>1 DEF Accounted, TasksOf
    <3>2. CASE /\ queue # <<>> /\ InHand(w)' = Head(queue) /\ queue' = Tail(queue)
               /\ worker'[w].pc = "popped"
      <4>1. TasksOf(queue) = {Head(queue)} \cup TasksOf(queue')
        BY <3>2, TasksOfTail DEF TypeOK
      <4>2. TasksOf(queue') = TasksOf(queue)'
        BY DEF TasksOf
      <4> QED
        BY <2>3, <3>2, <4>1, <4>2 DEF Accounted, Working
    <3> QED
      BY <1>4, <3>1, <3>2, WorkEffect
  <2> QED
    BY <2>1, <2>2, <2>3 DEF Accounted
<1>5. ASSUME NEW w \in Drainer, Miss(w) PROVE Accounted(t)'
  <2>1. t \in unheard \/ Logged(t) => Accounted(t)'
    BY <1>5, MissEffect DEF Accounted, Logged
  <2>2. \A v \in Drainer : Working(v) => worker'[v] = worker[v]
    BY <1>5, MissEffect
  <2>3. ASSUME t \in TasksOf(queue) PROVE Accounted(t)'
    <3>1. CASE UNCHANGED queue
      BY <2>3, <3>1 DEF Accounted, TasksOf
    <3>2. CASE queue # <<>> /\ queue' = Tail(queue) /\ Head(queue) \in unheard'
      <4>1. TasksOf(queue) = {Head(queue)} \cup TasksOf(queue')
        BY <3>2, TasksOfTail DEF TypeOK
      <4>2. TasksOf(queue') = TasksOf(queue)'
        BY DEF TasksOf
      <4> QED
        BY <2>3, <3>2, <4>1, <4>2 DEF Accounted
    <3> QED
      BY <1>5, <3>1, <3>2, MissEffect
  <2> QED
    BY <2>1, <2>2, <2>3 DEF Accounted, Working, InHand
<1> QED
  BY <1>1, <1>2, <1>3, <1>4, <1>5 DEF Next, Restock, Ripen, vars

LEMMA CoveredStep ==
    ASSUME TypeOK, Hands, Covered, [Next]_vars PROVE Covered'
<1> USE DEF redis, shop
<1>1. CASE Crash
  BY <1>1 DEF Crash, Covered, IdleDrain, Pushing
<1>2. CASE ~Crash
  <2> SUFFICES ASSUME NEW w \in Drainer, Pushing(w)',
                      NEW t, t = InHand(w)'
               PROVE  Accounted(t)'
    BY DEF Covered
  <2>1. ASSUME worker'[w] = worker[w] PROVE Accounted(t)'
    <3>1. t = InHand(w) /\ Pushing(w)
      BY <2>1 DEF InHand, Pushing
    <3>2. t \in Task
      BY <3>1, HandTyped DEF Pushing
    <3>3. Accounted(t)
      BY <3>1 DEF Covered
    <3> QED
      BY <1>2, <3>2, <3>3, AccountedStays
  <2>2. ASSUME NEW v \in Drainer, Move(v), worker'[w] # worker[w] PROVE Accounted(t)'
    <3>1. t \in Task /\ queue' = Append(queue, t)
      BY <2>2, MoveEffect DEF Pushing
    <3>2. t \in TasksOf(queue')
      BY <3>1, TasksOfAppend DEF TypeOK
    <3> QED
      BY <3>2 DEF Accounted, TasksOf
  <2>3. ASSUME NEW v \in Drainer, Work(v), worker'[w] # worker[w] PROVE Accounted(t)'
    BY <2>3, WorkEffect
  <2>4. ASSUME NEW v \in Drainer, Miss(v), worker'[w] # worker[w] PROVE Accounted(t)'
    BY <2>4, MissEffect
  <2>5. UNCHANGED worker \/ \E v \in Drainer : Move(v) \/ Work(v) \/ Miss(v)
    BY <1>2, SaleEffect DEF Next, Restock, Ripen, vars
  <2> QED
    BY <2>1, <2>2, <2>3, <2>4, <2>5
<1> QED
  BY <1>1, <1>2

\* A task of the system afterwards: where it is, or what the log says.
LEMMA StillLive ==
    ASSUME NEW t, t # NoTask,
           \/ t \in TasksOf(queue)' \/ t \in delayed'
           \/ \E v \in Drainer : InHand(v)' = t
    PROVE  t \in Live'
BY DEF Live, Waiting, Held

LEMMA SurviveStep ==
    ASSUME TypeOK, Hands, Covered, [Next]_vars, NEW t \in Live
    PROVE  \/ t \in Live' \/ Logged(t)' \/ t \in unheard'
           \/ t \notin Waiting /\ crashes' # crashes
<1> USE DEF redis, shop
<1> DEFINE Kept == t \in Live' \/ Logged(t)' \/ t \in unheard'
<1>1. t \in Task
  <2>1. ASSUME NEW w \in Drainer, InHand(w) # NoTask PROVE InHand(w) \in Task
    BY <2>1, DrainTyped DEF InHand
  <2> QED
    BY <2>1, TasksOfType DEF Live, Waiting, Held, TypeOK
<1>2. /\ t # NoTask
      /\ t \in TasksOf(queue) \/ t \in delayed \/ \E v \in Drainer : InHand(v) = t
  BY <1>1, NoTaskApart DEF Live, Waiting, Held
<1>3. CASE Crash
  <2>1. crashes' # crashes /\ UNCHANGED <<queue, delayed>>
    BY <1>3 DEF Crash, TypeOK
  <2>2. t \in Waiting => t \in TasksOf(queue)' \/ t \in delayed'
    BY <2>1 DEF Waiting, TasksOf
  <2> QED
    BY <1>2, <2>1, <2>2, StillLive
<1>4. ASSUME NEW w \in Drainer, Move(w) PROVE Kept
  <2>1. ASSUME Accounted(t) PROVE Kept
    <3>1. Accounted(t)' \/ Crash
      BY <1>1, <2>1, AccountedStays
    <3>2. ~Crash
      BY <1>4, MoveEffect DEF Crash, TypeOK
    <3> QED
      BY <1>2, <3>1, <3>2, StillLive DEF Accounted, InHand
  <2>2. ASSUME NEW v \in Drainer, v # w, InHand(v) = t PROVE Kept
    BY <1>2, <1>4, <2>2, MoveEffect, StillLive DEF InHand
  <2>3. CASE Pushing(w) /\ t = InHand(w)
    BY <2>1, <2>3 DEF Covered
  <2>4. CASE ~(Pushing(w) /\ t = InHand(w))
    <3>1. t \in delayed => t \in delayed'
      BY <1>4, <2>4, MoveEffect DEF Pushing
    <3>2. t \in TasksOf(queue) => Accounted(t)
      BY DEF Accounted
    <3>3. InHand(w) # t
      BY <1>2, <1>4, <2>4, MoveEffect DEF Pushing
    <3> QED
      BY <1>2, <2>1, <2>2, <3>1, <3>2, <3>3, StillLive
  <2> QED
    BY <2>3, <2>4
<1>5. ASSUME NEW w \in Drainer, Work(w) PROVE Kept
  <2>1. ASSUME t \in TasksOf(queue) \/ t = InHand(w) PROVE Kept
    <3>1. crashes' = crashes /\ crashes \in Nat
      BY <1>5, WorkEffect DEF TypeOK
    <3>a. ~Crash
      BY <3>1 DEF Crash
    <3>2. Accounted(t)
      BY <1>2, <1>5, <2>1, WorkEffect DEF Accounted
    <3>3. Accounted(t)'
      BY <1>1, <3>a, <3>2, AccountedStays
    <3> QED
      BY <1>2, <3>3, StillLive DEF Accounted, InHand
  <2>2. ASSUME NEW v \in Drainer, v # w, InHand(v) = t PROVE Kept
    BY <1>2, <1>5, <2>2, WorkEffect, StillLive DEF InHand
  <2>3. t \in delayed => t \in delayed'
    BY <1>5, WorkEffect
  <2> QED
    BY <1>2, <2>1, <2>2, <2>3, StillLive
<1>6. ASSUME TasksOf(queue) \subseteq TasksOf(queue)', UNCHANGED <<delayed, worker>>
      PROVE  t \in Live'
  BY <1>2, <1>6, StillLive DEF InHand
<1>7. ASSUME NEW o \in Order, Buy(o) \/ Deliver(o) PROVE Kept
  BY <1>6, <1>7, SaleEffect, SalePushes
<1>8. CASE UNCHANGED <<queue, delayed, worker>>
  BY <1>6, <1>8 DEF TasksOf
<1>9. ASSUME NEW w \in Drainer, Miss(w) PROVE Kept
  <2>1. ASSUME Accounted(t) PROVE Kept
    <3>1. Accounted(t)' \/ Crash
      BY <1>1, <2>1, AccountedStays
    <3>2. ~Crash
      BY <1>9, MissEffect DEF Crash, TypeOK
    <3> QED
      BY <1>2, <3>1, <3>2, StillLive DEF Accounted, InHand
  <2>2. ASSUME NEW v \in Drainer, InHand(v) = t PROVE Kept
    <3>1. CASE v = w
      <4>1. Pushing(w)
        BY <1>2, <1>9, <2>2, <3>1, MissEffect, DrainTyped DEF Hands, Working, Pushing
      <4> QED
        BY <2>1, <2>2, <3>1, <4>1 DEF Covered
    <3>2. CASE v # w
      BY <1>2, <1>9, <2>2, <3>2, MissEffect, StillLive DEF InHand
    <3> QED
      BY <3>1, <3>2
  <2>3. t \in delayed => Kept
    BY <1>2, <1>9, MissEffect, StillLive
  <2>4. t \in TasksOf(queue) => Kept
    BY <2>1 DEF Accounted
  <2> QED
    BY <1>2, <2>2, <2>3, <2>4
<1> QED
  BY <1>3, <1>4, <1>5, <1>7, <1>8, <1>9 DEF Next, Restock, Ripen, vars

(* Nothing that waits in Redis gets lost, with any number of drains, sales *)
(* and deaths, and whichever call fails, of Redis too: it goes on waiting, *)
(* is in hand, or the log says what became of it; a death loses at most the*)
(* tasks in hand.  The exception is named: an LPOP whose answer was lost,  *)
(* which the client sends again, loses the task it took.                   *)
THEOREM WaitingSurvives == Spec => WaitingTasksSurvive
<1> DEFINE IInv == TypeOK /\ Hands /\ Locks /\ Covered
<1>1. Init => IInv
  BY InitType, LocksInit DEF Init, Covered, IdleDrain, Pushing
<1>2. IInv /\ [Next]_vars => IInv'
  BY TypeStep, CoveredStep
<1>3. IInv /\ [Next]_vars
      => [ \A t \in Live : \/ t \in Live' \/ Logged(t)' \/ t \in unheard'
                           \/ t \notin Waiting /\ crashes' # crashes ]_vars
  BY SurviveStep
<1> QED
  BY <1>1, <1>2, <1>3, PTL DEF Spec, WaitingTasksSurvive
-----------------------------------------------------------------------------
(* Failures are retried.                                                   *)

LEMMA RetriedStep ==
    ASSUME DatabaseFails \subseteq {"remap"}, MaxFaults = 0,
           TypeOK, Hands, [Next]_vars, NEW w \in Drainer,
           InHand(w) # NoTask, worker[w].pc \notin {"repushing", "pushed"},
           InHand(w)' = NoTask, crashes' = crashes
    PROVE  \/ \E what \in {"ok", "dropped", "dead"} : <<InHand(w), what>> \in outcome'
           \/ InHand(w).retry < MaxRetry /\ RetryOf(InHand(w)) \in delayed'
<1>1. ~Crash
  BY DEF Crash, TypeOK
<1>2. worker'[w] # worker[w]
  BY DEF InHand
<1>3. Move(w) \/ Work(w)
  <2>1. \A v \in Drainer : Move(v) \/ Work(v) => v = w
    BY <1>2, MoveEffect, WorkEffect
  <2>2. \A v \in Drainer : ~Miss(v)
    BY DEF Miss, PopUnheard, BreakOff, Fail, TypeOK
  <2> QED
    BY <1>1, <1>2, <2>1, <2>2, SaleEffect DEF Next, Restock, Ripen, vars
<1>4. ~Move(w)
  BY MoveEffect DEF Pushing
<1>5. ~Pop(w) /\ ~EndDrain(w)
  BY DEF Pop, EndDrain, Hands
<1>6. ~(Execute(w) \/ ExecuteFails(w) \/ RemapFails(w))
  BY HoldEffect
<1>7. ~Fault(w) /\ ~RequeueFails(w)
  BY DEF Fault, RequeueFails, Fail, TypeOK
<1>8. CASE DropOrphan(w)
  BY <1>8 DEF DropOrphan, Report
<1>9. CASE Commit(w)
  BY <1>9 DEF Commit, Report
<1>10. CASE Requeue(w)
  BY <1>10 DEF Requeue
<1>11. CASE DeadLetter(w)
  BY <1>11 DEF DeadLetter
<1> QED
  BY <1>3, <1>4, <1>5, <1>6, <1>7, <1>8, <1>9, <1>10, <1>11 DEF Work

(* When the account lookup, the commit and Redis answer, a task in hand is *)
(* done, dropped, dead, or its next retry is in the queue: the promise of  *)
(* drain_queue.  A fault of one of them ends the drain with the task in no *)
(* queue, which is the case the assumptions exclude; the calls to the      *)
(* platform and remap_item_id may fail at any time.                        *)
THEOREM FailuresAreRetried ==
    ASSUME DatabaseFails \subseteq {"remap"}, MaxFaults = 0
    PROVE  Spec => FailuresRetried
<1>1. TypeOK /\ Hands /\ [Next]_vars
      => [ \A w \in Drainer :
             (/\ InHand(w) # NoTask /\ worker[w].pc \notin {"repushing", "pushed"}
              /\ InHand(w)' = NoTask /\ crashes' = crashes)
             => \/ \E what \in {"ok", "dropped", "dead"} : <<InHand(w), what>> \in outcome'
                \/ InHand(w).retry < MaxRetry /\ RetryOf(InHand(w)) \in delayed' ]_vars
  BY RetriedStep
<1> QED
  BY <1>1, TypeCorrect, PTL DEF Spec, FailuresRetried
-----------------------------------------------------------------------------
(* The order of the queue.  When nobody has a secret of a product any more *)
(* and none of the gaps happened (Calm), the last task its sales pushed is *)
(* a fresh offline task, behind all fresh relist tasks; what comes back    *)
(* from the delayed set is never fresh.                                    *)

Fresh(t, action, p) == t.action = action /\ t.product = p /\ t.retry = 0
OfflineIn(q, p) == \E t \in TasksOf(q) : Fresh(t, "offline", p)

\* Behind every fresh relist task of p there is a fresh offline task of p.
Followed(q, p) == \A i \in DOMAIN q : Fresh(q[i], "relist", p) =>
                    \E j \in DOMAIN q : i < j /\ Fresh(q[j], "offline", p)

\* Where tasks that come due can be.
Due == UNION {worker[w].due : w \in Drainer}
Retries == /\ \A t \in delayed \cup Due : t.retry > 0
           /\ \A w \in Drainer : Pushing(w) => InHand(w).retry > 0

\* The task w has taken off the queue and not yet carried out.
Holds(w, action, p) == worker[w].pc = "popped" /\ Fresh(InHand(w), action, p)

\* All of p is sold or in a sale that has queued what it queues.
GapCauses == {"stale", "plain", "unqueued", "overtaken"}
Calm(p) == /\ Free(p) = {} /\ ~Met(p, GapCauses)
           /\ \A o \in Sales(p) : sale[o].pc # "placed"

Ordered == \A p \in Product : Calm(p) =>
             /\ Followed(queue, p)
             /\ \A w \in Drainer : Holds(w, "relist", p) => OfflineIn(queue, p)

LEMMA FollowedAppend ==
    ASSUME NEW q \in Seq(Task), NEW t \in Task, NEW p,
           \/ Fresh(t, "offline", p)
           \/ Followed(q, p) /\ ~Fresh(t, "relist", p)
    PROVE  Followed(Append(q, t), p)
<1> DEFINE r == Append(q, t)
<1>1. /\ Len(r) = Len(q) + 1 /\ Len(q) \in Nat
      /\ DOMAIN r = 1 .. Len(r) /\ DOMAIN q = 1 .. Len(q)
      /\ \A i \in 1 .. Len(q) : r[i] = q[i]
      /\ r[Len(q) + 1] = t
  OBVIOUS
<1> HIDE DEF r
<1> SUFFICES ASSUME NEW i \in DOMAIN r, Fresh(r[i], "relist", p)
             PROVE  \E j \in DOMAIN r : i < j /\ Fresh(r[j], "offline", p)
  BY DEF Followed, r
<1>2. i \in DOMAIN q
  <2>1. ~Fresh(t, "relist", p)
    BY DEF Fresh
  <2> QED
    BY <1>1, <2>1
<1>3. CASE Fresh(t, "offline", p)
  BY <1>1, <1>2, <1>3
<1>4. CASE Followed(q, p)
  <2>1. PICK j \in DOMAIN q : i < j /\ Fresh(q[j], "offline", p)
    BY <1>1, <1>2, <1>4 DEF Followed
  <2> QED
    BY <1>1, <2>1
<1> QED
  BY <1>3, <1>4

LEMMA FollowedTail ==
    ASSUME NEW q \in Seq(Task), q # <<>>, NEW p, Followed(q, p)
    PROVE  /\ Followed(Tail(q), p)
           /\ Fresh(Head(q), "relist", p) => OfflineIn(Tail(q), p)
<1> DEFINE r == Tail(q)
<1>1. /\ Len(r) = Len(q) - 1 /\ Len(q) \in Nat \ {0}
      /\ DOMAIN r = 1 .. Len(r) /\ DOMAIN q = 1 .. Len(q)
      /\ \A i \in 1 .. Len(r) : r[i] = q[i + 1]
      /\ Head(q) = q[1]
  OBVIOUS
<1> HIDE DEF r
\* What follows i in q is in r.
<1>2. ASSUME NEW i \in DOMAIN q, Fresh(q[i], "relist", p)
      PROVE  \E j \in DOMAIN r : i < j + 1 /\ Fresh(r[j], "offline", p)
  <2>1. PICK j \in DOMAIN q : i < j /\ Fresh(q[j], "offline", p)
    BY <1>2 DEF Followed
  <2>2. j - 1 \in DOMAIN r /\ r[j - 1] = q[j] /\ (j - 1) + 1 = j
    BY <1>1, <2>1
  <2> QED
    BY <2>1, <2>2
<1>3. Followed(r, p)
  <2> SUFFICES ASSUME NEW i \in DOMAIN r, Fresh(r[i], "relist", p)
               PROVE  \E j \in DOMAIN r : i < j /\ Fresh(r[j], "offline", p)
    BY DEF Followed
  <2>1. i + 1 \in DOMAIN q /\ q[i + 1] = r[i]
    BY <1>1
  <2>2. PICK j \in DOMAIN r : i + 1 < j + 1 /\ Fresh(r[j], "offline", p)
    BY <1>2, <2>1
  <2> QED
    BY <1>1, <2>2
<1>4. Fresh(Head(q), "relist", p) => OfflineIn(r, p)
  <2>1. 1 \in DOMAIN q /\ q[1] = Head(q)
    BY <1>1
  <2> QED
    BY <1>2, <2>1 DEF OfflineIn, TasksOf
<1> QED
  BY <1>3, <1>4 DEF r

\* What comes due has failed before.
LEMMA RetriesStep ==
    ASSUME TypeOK, Hands, Retries, [Next]_vars PROVE Retries'
<1> USE DEF redis, shop
<1>1. ASSUME UNCHANGED <<delayed, worker>> PROVE Retries'
  BY <1>1 DEF Retries, Due, Pushing, InHand
<1>2. ASSUME NEW w \in Drainer, Move(w) PROVE Retries'
  <2>1. delayed' \subseteq delayed
    BY <1>2, MoveEffect
  <2>2. /\ worker'[w].due \subseteq worker[w].due \cup delayed
        /\ \A v \in Drainer \ {w} : worker'[v] = worker[v]
    BY <1>2, MoveEffect DEF TypeOK
  <2>3. \A v \in Drainer : worker'[v].due \subseteq Due \cup delayed
    BY <2>2 DEF Due
  <2>4. Pushing(w)' => InHand(w)'.retry > 0
    BY <1>2, MoveEffect DEF Retries, Due, Pushing
  <2> QED
    BY <2>1, <2>2, <2>3, <2>4 DEF Retries, Due, Pushing, InHand
<1>3. ASSUME NEW w \in Drainer, Work(w) PROVE Retries'
  <2>1. \A v \in Drainer : worker'[v].due \subseteq Due
    BY <1>3, WorkEffect DEF Due
  <2>2. ASSUME NEW t \in delayed' \ delayed PROVE t.retry > 0
    <3>1. Working(w) /\ t = RetryOf(InHand(w)) /\ InHand(w).retry < MaxRetry
      BY <1>3, WorkEffect
    <3> QED
      BY <3>1, HandTyped, RetryTyped DEF Working
  <2>3. \A v \in Drainer : Pushing(v)' => Pushing(v) /\ InHand(v)' = InHand(v)
    BY <1>3, WorkEffect DEF Pushing, InHand
  <2> QED
    BY <2>1, <2>2, <2>3 DEF Retries, Due
<1>4. ASSUME NEW w \in Drainer, Miss(w) PROVE Retries'
  <2>1. \A v \in Drainer : worker'[v].due \subseteq Due
    BY <1>4, MissEffect DEF Due
  <2>2. \A v \in Drainer : Pushing(v)' => Pushing(v) /\ InHand(v)' = InHand(v)
    BY <1>4, MissEffect DEF Pushing, InHand
  <2>3. UNCHANGED delayed
    BY <1>4, MissEffect
  <2> QED
    BY <2>1, <2>2, <2>3 DEF Retries, Due
<1>5. CASE Crash
  BY <1>5 DEF Crash, Retries, Due, IdleDrain, Pushing
<1> QED
  BY <1>1, <1>2, <1>3, <1>4, <1>5, SaleEffect DEF Next, Restock, Ripen, vars

LEMMA GapsGrow ==
    ASSUME TypeOK, Hands, [Next]_vars PROVE gaps \subseteq gaps'
<1> USE DEF redis, shop
<1>1. \A w \in Drainer : Work(w) => gaps \subseteq gaps'
  BY WorkEffect DEF Pop
<1> QED
  BY <1>1, SaleEffect, MoveEffect, MissEffect DEF Next, Restock, Ripen, Crash, vars

LEMMA MetStays ==
    ASSUME gaps \subseteq gaps', NEW p, NEW causes, Met(p, causes) PROVE Met(p, causes)'
BY DEF Met

\* What nobody has of the products, before and after a step of one sale.
LEMMA FreeEffect ==
    ASSUME TypeOK, NEW o \in Order, NEW p \in Product,
           sale'[o].product = sale[o].product,
           \A v \in Order \ {o} : sale'[v] = sale[v]
    PROVE  /\ Sales(p)' = Sales(p)
           /\ p # sale[o].product /\ stock'[p] = stock[p] => Free(p)' = Free(p)
           /\ sale'[o].secret = sale[o].secret /\ stock'[p] = stock[p] => Free(p)' = Free(p)
           /\ /\ p = sale[o].product /\ sale'[o].secret = NoSecret
              /\ stock'[p] = stock[p] \ {sale[o].secret}
              => Free(p)' = Free(p)
<1>1. Sales(p)' = Sales(p)
  BY DEF Sales
<1>2. NoSecret \notin stock[p]
  BY DEF TypeOK, NoSecret
<1>3. ASSUME p # sale[o].product, stock'[p] = stock[p] PROVE Free(p)' = Free(p)
  <2>1. \A v \in Sales(p) : sale'[v] = sale[v]
    BY <1>3 DEF Sales
  <2> QED
    BY <1>1, <1>3, <2>1 DEF Free
<1>4. ASSUME sale'[o].secret = sale[o].secret, stock'[p] = stock[p] PROVE Free(p)' = Free(p)
  <2>1. \A v \in Order : sale'[v].secret = sale[v].secret
    BY <1>4
  <2>2. \A v \in Sales(p) : sale'[v].secret = sale[v].secret
    BY <2>1 DEF Sales
  <2> QED
    BY <1>1, <1>4, <2>2 DEF Free
<1>5. ASSUME p = sale[o].product, sale'[o].secret = NoSecret,
             stock'[p] = stock[p] \ {sale[o].secret}
      PROVE  Free(p)' = Free(p)
  <2>1. o \in Sales(p) /\ \A v \in Sales(p) \ {o} : sale'[v] = sale[v]
    BY <1>5 DEF Sales
  <2>2. \A x : x \in Free(p)' <=>
                 x \in stock'[p] /\ \A v \in Sales(p) : sale'[v].secret # x
    BY <1>1 DEF Free
  <2>3. \A x : x \in Free(p) <=> x \in stock[p] /\ \A v \in Sales(p) : sale[v].secret # x
    BY DEF Free
  <2>4. \A x : x \in Free(p)' <=> x \in Free(p)
    BY <1>2, <1>5, <2>1, <2>2, <2>3
  <2> QED
    BY <2>4
<1> QED
  BY <1>1, <1>3, <1>4, <1>5

\* A product gets calm only by the push of a fresh offline task, and while
\* it stays so no fresh relist task of it is pushed.
LEMMA CalmSale ==
    ASSUME TypeOK, Locks, NEW o \in Order, Buy(o) \/ Deliver(o),
           NEW p \in Product, Calm(p)'
    PROVE  \/ UNCHANGED queue /\ Calm(p)
           \/ /\ queue' = Append(queue, TaskOf(o))
              /\ \/ Fresh(TaskOf(o), "offline", p)
                 \/ Calm(p) /\ ~Fresh(TaskOf(o), "relist", p)
<1> USE DEF redis
<1>0. /\ ~Met(p, GapCauses) /\ ~Met(p, GapCauses)'
      /\ TaskOf(o).product = sale[o].product /\ TaskOf(o).retry = 0
      /\ ~CountsMore(o) => TaskOf(o).action = "offline"
  BY SaleEffect, MetStays, TaskOfTyped DEF Calm
<1>a. /\ sale'[o].product = sale[o].product
      /\ \A v \in Order \ {o} : sale'[v] = sale[v]
  BY SaleGoes, GoesEffect DEF Deliver
<1>b. ASSUME Free(p)' = Free(p), p = sale[o].product => sale[o].pc # "placed"
      PROVE  Calm(p)
  <2>1. Sales(p)' = Sales(p)
    BY <1>a, FreeEffect
  <2>2. \A v \in Sales(p) : v # o => sale[v].pc # "placed"
    BY <1>a, <2>1 DEF Calm, Sales
  <2> QED
    BY <1>0, <1>b, <2>2 DEF Calm, Sales
\* A gap of p is none of a calm product.
<1>c. ASSUME NEW cause \in GapCauses, NEW bad, Gap(o, cause, bad), bad,
             p = sale[o].product, Free(p)' = Free(p)
      PROVE  FALSE
  <2>1. Free(p) = {}
    BY <1>c DEF Calm
  <2>2. <<p, cause>> \in gaps'
    BY <1>c, <2>1 DEF Gap
  <2> QED
    BY <1>0, <1>c, <2>2 DEF Met
<1>1. CASE p # sale[o].product
  <2>1. stock'[p] = stock[p]
    BY <1>1, SaleTyped
    DEF Deliver, Buy, OpenSession, TakeOne, TakeNone, QueueTask, QueueFails, QueueAgain,
        CommitSale, AbortSale, TypeOK
  <2>2. Free(p)' = Free(p)
    BY <1>1, <1>a, <2>1, FreeEffect
  <2>3. Calm(p)
    BY <1>1, <1>b, <2>2
  <2>4. ~Fresh(TaskOf(o), "relist", p)
    BY <1>0, <1>1 DEF Fresh
  <2> QED
    BY <2>3, <2>4, SaleEffect
<1>2. CASE p = sale[o].product
  <2>0. o \in Sales(p) /\ o \in Sales(p)'
    BY <1>2, <1>a DEF Sales
  <2>1. CASE Buy(o) \/ OpenSession(o) \/ TakeNone(o)
    <3>1. sale[o].pc # "placed" /\ sale[o].secret = NoSecret /\ UNCHANGED <<queue, stock>>
      BY <2>1 DEF Buy, OpenSession, TakeNone, Locks
    <3>a. \E pcs : Goes(o, pcs, {sale[o].secret, NoSecret})
      <4>1. Goes(o, {"paid"}, {sale[o].secret}) => Goes(o, {"paid"}, {sale[o].secret, NoSecret})
        BY DEF Goes
      <4> QED
        BY <2>1, <4>1, SaleGoes
    <3>2. sale'[o].secret \in {sale[o].secret, NoSecret}
      BY <3>a, GoesEffect
    <3>3. Free(p)' = Free(p)
      BY <1>a, <3>1, <3>2, FreeEffect
    <3> QED
      BY <1>b, <3>1, <3>3
  <2>2. CASE TakeOne(o)
    <3>a. Goes(o, {"placed"}, Free(sale[o].product))
      BY <2>2, SaleGoes
    <3>1. sale'[o].pc = "placed"
      BY <3>a, GoesEffect
    <3> QED
      BY <2>0, <3>1 DEF Calm
  <2>3. CASE QueueTask(o) \/ QueueAgain(o)
    <3>1. /\ queue' = Append(queue, TaskOf(o)) /\ UNCHANGED stock
          /\ Gap(o, "stale", CountsMore(o))
      BY <2>3 DEF QueueTask, QueueAgain
    <3>a. \E pcs : Goes(o, pcs, {sale[o].secret})
      BY <2>3, SaleGoes
    <3>2. sale'[o].secret = sale[o].secret
      BY <3>a, GoesEffect
    <3>3. Free(p)' = Free(p)
      BY <1>a, <3>1, <3>2, FreeEffect
    <3>4. ~CountsMore(o)
      BY <1>2, <1>c, <3>1, <3>3 DEF GapCauses
    <3> QED
      BY <1>0, <1>2, <3>1, <3>4 DEF Fresh
  <2>4. CASE QueueFails(o)
    <3>1. /\ UNCHANGED <<queue, stock>>
          /\ Gap(o, "unqueued", sale[o].secret # NoSecret)
      BY <2>4 DEF QueueFails
    <3>a. Goes(o, {After(o)}, {sale[o].secret})
      BY <2>4, SaleGoes
    <3>2. sale'[o].secret = sale[o].secret
      BY <3>a, GoesEffect
    <3>3. Free(p)' = Free(p)
      BY <1>a, <3>1, <3>2, FreeEffect
    <3>4. sale[o].secret = NoSecret
      BY <1>2, <1>c, <3>1, <3>3 DEF GapCauses
    <3>5. sale[o].pc # "placed"
      BY <3>4 DEF Locks
    <3> QED
      BY <1>b, <3>1, <3>3, <3>5
  <2>5. CASE CommitSale(o)
    <3>1. /\ UNCHANGED queue /\ stock' = [stock EXCEPT ![p] = @ \ {sale[o].secret}]
          /\ Gap(o, "plain", sale[o].path = "plain")
          /\ sale[o].pc = "placed" => sale[o].path = "plain"
      BY <1>2, <2>5 DEF CommitSale
    <3>2. sale'[o].secret = NoSecret
      BY <2>5, SaleGoes, GoesEffect
    <3>3. Free(p)' = Free(p)
      BY <1>2, <1>a, <3>1, <3>2, FreeEffect DEF TypeOK
    <3>4. sale[o].path # "plain"
      BY <1>2, <1>c, <3>1, <3>3 DEF GapCauses
    <3> QED
      BY <1>b, <3>1, <3>3, <3>4
  <2>6. CASE AbortSale(o)
    <3>1. UNCHANGED <<queue, stock>>
      BY <2>6 DEF AbortSale
    <3>2. sale'[o].secret = NoSecret
      BY <2>6, SaleGoes, GoesEffect
    <3>3. sale[o].secret = NoSecret
      <4>1. ASSUME sale[o].secret # NoSecret PROVE sale[o].secret \in Free(p)'
        <5>1. sale[o].secret \in stock[p]
          BY <1>2, <4>1 DEF Locks
        <5>2. \A v \in Sales(p)' : sale'[v].secret # sale[o].secret
          BY <1>2, <1>a, <3>2, <4>1 DEF Locks, Sales
        <5> QED
          BY <3>1, <5>1, <5>2 DEF Free
      <4> QED
        BY <4>1 DEF Calm
    <3>4. Free(p)' = Free(p) /\ sale[o].pc # "placed"
      BY <1>a, <3>1, <3>2, <3>3, FreeEffect DEF Locks
    <3> QED
      BY <1>b, <3>1, <3>4
  <2> QED
    BY <2>1, <2>2, <2>3, <2>4, <2>5, <2>6 DEF Deliver
<1> QED
  BY <1>1, <1>2

LEMMA CalmRestock ==
    ASSUME TypeOK, Locks, NEW q \in Product, Restock(q), NEW p \in Product, Calm(p)'
    PROVE  Calm(p) /\ stock'[p] = stock[p]
<1> USE DEF redis
<1>1. PICK x \in Secret : /\ \A y \in stock[q] \cup sold[q] : y < x
                         /\ stock' = [stock EXCEPT ![q] = @ \cup {x}]
  BY DEF Restock
<1>2. UNCHANGED <<sale, gaps>>
  BY DEF Restock
<1>3. CASE p = q
  <2>1. x \notin stock[q]
    BY <1>1
  <2>2. \A o \in Sales(p) : sale[o].secret # x
    BY <1>3, <2>1, SaleTyped DEF Locks, Sales, NoSecret
  <2>3. x \in Free(p)'
    BY <1>1, <1>2, <1>3, <2>2 DEF Free, Sales, TypeOK
  <2> QED
    BY <2>3 DEF Calm
<1>4. CASE p # q
  BY <1>1, <1>2, <1>4 DEF Calm, Free, Sales, Met, TypeOK
<1> QED
  BY <1>3, <1>4

LEMMA CalmStays ==
    ASSUME gaps \subseteq gaps', UNCHANGED <<stock, sale>>, NEW p, Calm(p)'
    PROVE  Calm(p)
BY DEF Calm, Free, Sales, Met

LEMMA OrderedStep ==
    ASSUME TypeOK, Hands, Locks, Retries, Ordered, [Next]_vars
    PROVE  Ordered'
<1> USE DEF redis, shop
<1> DEFINE Goal(p) == /\ Followed(queue', p)
                      /\ \A w \in Drainer : Holds(w, "relist", p)' => OfflineIn(queue', p)
<1> SUFFICES ASSUME NEW p \in Product, Calm(p)' PROVE Goal(p)
  BY DEF Ordered, Followed, OfflineIn, TasksOf
<1>0. queue \in Seq(Task)
  BY DEF TypeOK
<1>a. ASSUME Calm(p)
      PROVE  /\ Followed(queue, p)
             /\ \A w \in Drainer : Holds(w, "relist", p) => OfflineIn(queue, p)
  BY <1>a DEF Ordered
<1>b. ASSUME Calm(p), UNCHANGED <<queue, worker>> PROVE Goal(p)
  BY <1>a, <1>b DEF Holds, InHand
<1>c. ASSUME UNCHANGED <<stock, sale>> PROVE Calm(p)
  BY <1>c, CalmStays, GapsGrow
<1>1. ASSUME NEW o \in Order, Buy(o) \/ Deliver(o) PROVE Goal(p)
  <2>0. UNCHANGED worker
    BY <1>1, SaleEffect
  <2>1. CASE UNCHANGED queue /\ Calm(p)
    BY <1>b, <2>0, <2>1
  <2>2. CASE queue' = Append(queue, TaskOf(o))
    <3>1. TaskOf(o) \in Task
      BY TaskOfTyped
    <3>2. TasksOf(queue') = TasksOf(queue) \cup {TaskOf(o)}
      BY <1>0, <2>2, <3>1, TasksOfAppend
    <3>3. CASE Fresh(TaskOf(o), "offline", p)
      BY <1>0, <2>2, <3>1, <3>2, <3>3, FollowedAppend DEF OfflineIn
    <3>4. CASE Calm(p) /\ ~Fresh(TaskOf(o), "relist", p)
      BY <1>0, <1>a, <2>0, <2>2, <3>1, <3>2, <3>4, FollowedAppend DEF OfflineIn, Holds, InHand
    <3> QED
      BY <1>1, <2>1, <3>3, <3>4, CalmSale
  <2> QED
    BY <1>1, <2>1, <2>2, CalmSale
<1>2. ASSUME NEW q \in Product, Restock(q) PROVE Goal(p)
  <2>1. UNCHANGED <<queue, worker>>
    BY <1>2 DEF Restock
  <2> QED
    BY <1>2, <1>b, <2>1, CalmRestock
\* w takes the head off the queue, and keeps it or loses it.
<1>3. ASSUME NEW w \in Drainer, Calm(p), queue # <<>>, queue' = Tail(queue),
             \A v \in Drainer \ {w} : worker'[v] = worker[v],
             Overtaken(w, Head(queue)) \subseteq gaps',
             Holds(w, "relist", p)' => Fresh(Head(queue), "relist", p)
      PROVE  Goal(p)
  <2>1. /\ Followed(Tail(queue), p)
        /\ Fresh(Head(queue), "relist", p) => OfflineIn(Tail(queue), p)
    BY <1>0, <1>a, <1>3, FollowedTail
  <2>2. TasksOf(queue) = {Head(queue)} \cup TasksOf(Tail(queue))
    BY <1>0, <1>3, TasksOfTail
  <2>3. ASSUME NEW v \in Drainer \ {w}, Holds(v, "relist", p)'
        PROVE  OfflineIn(Tail(queue), p)
    <3>1. Holds(v, "relist", p)
      BY <1>3, <2>3 DEF Holds, InHand
    <3>2. OfflineIn(queue, p)
      BY <1>3, <1>a, <3>1
    <3>3. ~Fresh(Head(queue), "offline", p)
      <4>1. ASSUME Fresh(Head(queue), "offline", p)
            PROVE  <<p, "overtaken">> \in Overtaken(w, Head(queue))
        BY <3>1, <4>1 DEF Overtaken, Holds, Fresh
      <4> QED
        BY <1>3, <4>1 DEF Calm, Met, GapCauses
    <3> QED
      BY <2>2, <3>2, <3>3 DEF OfflineIn
  <2> QED
    BY <1>3, <2>1, <2>3
<1>4. ASSUME NEW w \in Drainer, Move(w) PROVE Goal(p)
  <2>1. Calm(p) /\ ~Working(w)'
    BY <1>4, <1>c, MoveEffect
  <2>2. \A v \in Drainer : Holds(v, "relist", p)' => Holds(v, "relist", p)
    BY <1>4, <2>1, MoveEffect DEF Holds, Working, InHand
  <2>3. CASE UNCHANGED queue
    BY <1>a, <2>1, <2>2, <2>3
  <2>4. ASSUME NEW t \in Task, t.retry > 0, queue' = Append(queue, t) PROVE Goal(p)
    <3>1. ~Fresh(t, "relist", p)
      BY <2>4 DEF Fresh
    <3>2. TasksOf(queue') = TasksOf(queue) \cup {t}
      BY <1>0, <2>4, TasksOfAppend
    <3> QED
      BY <1>0, <1>a, <2>1, <2>2, <2>4, <3>1, <3>2, FollowedAppend DEF OfflineIn
  <2>5. \A t \in worker[w].due : t.retry > 0
    BY DEF Retries, Due
  <2>6. Pushing(w) => InHand(w).retry > 0
    BY DEF Retries
  <2> QED
    BY <1>4, <2>3, <2>4, <2>5, <2>6, MoveEffect
<1>5. ASSUME NEW w \in Drainer, Work(w) PROVE Goal(p)
  <2>1. Calm(p)
    BY <1>5, <1>c, WorkEffect
  <2>2. CASE UNCHANGED queue /\ worker'[w].pc # "popped"
    <3>1. \A v \in Drainer : Holds(v, "relist", p)' => Holds(v, "relist", p)
      BY <1>5, <2>2, WorkEffect DEF Holds, InHand
    <3> QED
      BY <1>a, <2>1, <2>2, <3>1
  <2>3. CASE /\ queue # <<>> /\ InHand(w)' = Head(queue) /\ queue' = Tail(queue)
             /\ gaps' = gaps \cup Overtaken(w, Head(queue))
    BY <1>3, <1>5, <2>1, <2>3, WorkEffect DEF Holds
  <2> QED
    BY <1>5, <2>2, <2>3, WorkEffect DEF Working
<1>6. ASSUME NEW w \in Drainer, Miss(w) PROVE Goal(p)
  <2>1. Calm(p) /\ ~Working(w)'
    BY <1>6, <1>c, MissEffect
  <2>2. ~Holds(w, "relist", p)'
    BY <2>1 DEF Holds, Working
  <2>3. CASE UNCHANGED queue
    <3>1. \A v \in Drainer : Holds(v, "relist", p)' => Holds(v, "relist", p)
      BY <1>6, <2>2, MissEffect DEF Holds, InHand
    <3> QED
      BY <1>a, <2>1, <2>3, <3>1
  <2>4. CASE /\ queue # <<>> /\ queue' = Tail(queue)
             /\ Overtaken(w, Head(queue)) \subseteq gaps'
    BY <1>3, <1>6, <2>1, <2>2, <2>4, MissEffect
  <2> QED
    BY <1>6, <2>3, <2>4, MissEffect
<1>7. CASE Crash
  <2>1. Calm(p) /\ \A w \in Drainer : ~Holds(w, "relist", p)'
    BY <1>7, <1>c DEF Crash, Holds, IdleDrain
  <2> QED
    BY <1>a, <1>7, <2>1 DEF Crash
<1>8. CASE UNCHANGED <<queue, worker, stock, sale>>
  BY <1>b, <1>c, <1>8
<1> QED
  BY <1>1, <1>2, <1>4, <1>5, <1>6, <1>7, <1>8 DEF Next, Ripen, vars

\* Only a relist task in hand puts a product on sale that was off it.
LEMMA OnlineByRelist ==
    ASSUME TypeOK, Hands, [Next]_vars, NEW p \in Product,
           ~listing[p].online, listing'[p].online
    PROVE  \E w \in Drainer :
             /\ Execute(w) \/ ExecuteFails(w)
             /\ worker[w].pc = "popped" /\ InHand(w).action = "relist"
             /\ InHand(w).product = p
<1> USE DEF redis, shop
<1>1. ASSUME NEW o \in Order, Buy(o) \/ Deliver(o) PROVE FALSE
  BY <1>1, SaleEffect
<1>2. ~UNCHANGED listing
  OBVIOUS
<1>3. PICK w \in Drainer : Execute(w) \/ ExecuteFails(w)
  <2>1. \A w \in Drainer : ~Move(w) /\ ~Miss(w)
    BY <1>2, MoveEffect, MissEffect
  <2> QED
    BY <1>1, <1>2, <2>1
    DEF Next, Work, Restock, Ripen, Crash, vars, Pop, DropOrphan, RemapFails, Commit,
        Requeue, RequeueFails, DeadLetter, Fault, EndDrain
<1>4. PICK gen \in Gen : Carried(InHand(w), gen)
  BY <1>2, <1>3 DEF Execute, ExecuteFails
<1>5. worker[w].pc = "popped" /\ InHand(w).product \in Product
  BY <1>3, HandTyped DEF Execute, ExecuteFails
<1>6. CASE listing' = [listing EXCEPT ![InHand(w).product].online = FALSE]
  BY <1>5, <1>6 DEF TypeOK, Listing
<1>7. CASE InHand(w).action = "relist" /\ \E l : listing' = [listing EXCEPT ![InHand(w).product] = l]
  BY <1>3, <1>5, <1>7 DEF TypeOK
<1> QED
  BY <1>4, <1>6, <1>7 DEF Carried

\* An empty product that met none of the gaps is calm.
LEMMA EmptyIsCalm ==
    ASSUME TypeOK, Locks, NEW p \in Product, stock[p] = {}, ~Met(p, GapCauses)
    PROVE  Calm(p)
BY DEF Calm, Free, Sales, Locks

LEMMA LateStep ==
    ASSUME TypeOK, Hands, Locks, Ordered, [Next]_vars, NEW p \in Product,
           stock[p] = {}, ~listing[p].online, listing'[p].online
    PROVE  \/ \E t \in Held : t.product = p /\ t.retry > 0
           \/ \E t \in Waiting : t.product = p /\ t.action = "offline"
           \/ Met(p, {"stale", "plain", "unqueued", "overtaken"})
<1>1. PICK w \in Drainer : /\ worker[w].pc = "popped" /\ InHand(w).action = "relist"
                           /\ InHand(w).product = p
  BY OnlineByRelist
<1>2. InHand(w) \in Task /\ InHand(w).retry \in 0..MaxRetry
  BY <1>1, HandTyped
<1>3. CASE InHand(w).retry > 0
  <2>1. InHand(w) \in Held
    BY <1>2, NoTaskApart DEF Held
  <2> QED
    BY <1>1, <1>3, <2>1
<1>4. CASE InHand(w).retry = 0
  <2>1. CASE Calm(p)
    <3>1. OfflineIn(queue, p)
      BY <1>1, <1>4, <2>1 DEF Ordered, Holds, Fresh
    <3> QED
      BY <3>1 DEF OfflineIn, Fresh, Waiting
  <2>2. CASE ~Calm(p)
    BY <2>2, EmptyIsCalm DEF GapCauses
  <2> QED
    BY <2>1, <2>2
<1> QED
  BY <1>2, <1>3, <1>4

LEMMA CalmNotYet ==
    ASSUME Init, NEW p \in Product PROVE ~Calm(p)
<1>1. stock[p] # {} /\ stock[p] \subseteq Secret /\ NoSecret \notin Secret
  BY DEF Init, NoSecret
<1>2. \A o \in Order : sale[o].secret = NoSecret
  BY DEF Init
<1>3. Free(p) = stock[p]
  BY <1>1, <1>2 DEF Free, Sales
<1> QED
  BY <1>1, <1>3 DEF Calm

LEMMA OrderedInit == Init => Retries /\ Ordered
<1> SUFFICES ASSUME Init PROVE Retries /\ Ordered
  OBVIOUS
<1>1. Retries
  BY DEF Init, Retries, Due, IdleDrain, Pushing
<1>2. \A p \in Product : ~Calm(p)
  BY CalmNotYet
<1> QED
  BY <1>1, <1>2 DEF Ordered

(* An empty product goes on sale again only by the retry of a relisting    *)
(* that failed before, while an offline task for it still waits, or after  *)
(* one of four gaps: a sale that counted what others had taken, a last     *)
(* sale on the path without a task, a push of a sale that failed, or an    *)
(* offline task taken while a second drain had the relisting before it.    *)
(* So for any number of drains and overlapping sales, whatever calls to    *)
(* the platform, the database or Redis fail, and whenever the scheduler    *)
(* dies.                                                                   *)
THEOREM EmptyRelistsAreLate == Spec => EmptyRelistIsLate
<1> DEFINE IInv == TypeOK /\ Hands /\ Locks /\ Retries /\ Ordered
<1>1. Init => IInv
  BY InitType, LocksInit, OrderedInit
<1>2. IInv /\ [Next]_vars => IInv'
  BY TypeStep, RetriesStep, OrderedStep
<1>3. IInv /\ [Next]_vars
      => [ \A p \in Product :
             stock[p] = {} /\ ~listing[p].online /\ listing'[p].online =>
               \/ \E t \in Held : t.product = p /\ t.retry > 0
               \/ \E t \in Waiting : t.product = p /\ t.action = "offline"
               \/ Met(p, {"stale", "plain", "unqueued", "overtaken"}) ]_vars
  BY LateStep
<1> QED
  BY <1>1, <1>2, <1>3, PTL DEF Spec, EmptyRelistIsLate
-----------------------------------------------------------------------------
(* The last task of the last sale has the last word.                       *)

\* A task that is no longer fresh has a failure of its product behind it.
Blamed == \A t \in Live \cup Due : t.retry > 0 => Troubled(t.product)

\* A calm product on sale, no task of which failed or got lost: the fresh
\* offline task waits, or is in hand, or is failing at this moment.
Ending == \A p \in Product :
    Calm(p) /\ ~Met(p, {"lost", "died"}) /\ ~Troubled(p) /\ listing[p].online =>
      \/ OfflineIn(queue, p)
      \/ \E w \in Drainer : Holds(w, "offline", p)
      \/ \E w \in Drainer : worker[w].pc = "failing" /\ InHand(w).product = p

LEMMA TroubledStays ==
    ASSUME outcome \subseteq outcome', NEW p, Troubled(p) PROVE Troubled(p)'
BY DEF Troubled

LEMMA OutcomeGrows ==
    ASSUME TypeOK, Hands, [Next]_vars PROVE outcome \subseteq outcome'
<1>1. \A w \in Drainer : Move(w) => outcome \subseteq outcome'
  BY MoveEffect
<1>2. \A w \in Drainer : Work(w) => outcome \subseteq outcome'
  BY WorkEffect
<1> QED
  BY <1>1, <1>2, SaleEffect, MissEffect DEF Next, Restock, Ripen, Crash, vars

\* A drain lets go of a task of p unfinished only with trouble for p.
LEMMA LetGoIsTrouble ==
    ASSUME TypeOK, Hands, NEW w \in Drainer, NEW t, t = InHand(w),
           DropOrphan(w) \/ Fault(w) \/ Requeue(w) \/ RequeueFails(w) \/ DeadLetter(w)
    PROVE  Troubled(t.product)'
<1>1. t \in Task
  BY HandTyped DEF DropOrphan, Fault, Requeue, RequeueFails, DeadLetter
<1>2. \E what \in {"failed", "fault", "dropped"} : <<t, what>> \in outcome'
  BY DEF DropOrphan, Fault, Requeue, RequeueFails, DeadLetter, Report
<1> QED
  BY <1>1, <1>2 DEF Troubled

\* The members of Live and Due, place by place.
LEMMA Places ==
    ASSUME NEW t
    PROVE  /\ t \in Live \cup Due <=>
                \/ t \in TasksOf(queue) \/ t \in delayed
                \/ \E w \in Drainer : t = InHand(w) /\ t # NoTask
                \/ \E w \in Drainer : t \in worker[w].due
           /\ t \in (Live \cup Due)' <=>
                \/ t \in TasksOf(queue') \/ t \in delayed'
                \/ \E w \in Drainer : t = InHand(w)' /\ t # NoTask
                \/ \E w \in Drainer : t \in worker'[w].due
BY DEF Live, Waiting, Held, Due, TasksOf

\* A new task is fresh, or the retry of one that has just failed.
LEMMA NewTasks ==
    ASSUME TypeOK, Hands, [Next]_vars, NEW t \in (Live \cup Due)'
    PROVE  \/ t \in Live \cup Due \/ t.retry = 0
           \/ \E w \in Drainer : /\ Working(w) /\ InHand(w).retry < MaxRetry
                                 /\ t = RetryOf(InHand(w))
                                 /\ \E what \in {"failed", "fault"} : <<InHand(w), what>> \in outcome'
<1> USE DEF redis, shop
<1>1. ASSUME UNCHANGED <<queue, delayed, worker>> PROVE t \in Live \cup Due
  BY <1>1, Places DEF InHand
<1>2. ASSUME NEW o \in Order, Buy(o) \/ Deliver(o) PROVE t \in Live \cup Due \/ t.retry = 0
  <2>1. UNCHANGED <<delayed, worker>>
    BY <1>2, SaleEffect
  <2>2. CASE UNCHANGED queue
    BY <1>1, <2>1, <2>2
  <2>3. CASE queue' = Append(queue, TaskOf(o))
    <3>1. TaskOf(o) \in Task /\ TaskOf(o).retry = 0
      BY TaskOfTyped
    <3>2. TasksOf(queue') = TasksOf(queue) \cup {TaskOf(o)}
      BY <2>3, <3>1, TasksOfAppend DEF TypeOK
    <3> QED
      BY <2>1, <3>1, <3>2, Places DEF InHand
  <2> QED
    BY <1>2, <2>2, <2>3, SaleEffect
<1>3. ASSUME NEW w \in Drainer, Move(w) PROVE t \in Live \cup Due
  <2>1. TasksOf(queue') \subseteq TasksOf(queue) \cup worker[w].due \cup ({InHand(w)} \ {NoTask})
    <3>1. CASE UNCHANGED queue
      BY <3>1
    <3>2. ASSUME NEW u \in Task, u \in worker[w].due \/ u = InHand(w), queue' = Append(queue, u)
          PROVE  TasksOf(queue') \subseteq TasksOf(queue) \cup worker[w].due
                                          \cup ({InHand(w)} \ {NoTask})
      BY <3>2, TasksOfAppend, NoTaskApart DEF TypeOK
    <3> QED
      BY <1>3, <3>1, <3>2, MoveEffect
  <2>2. delayed' \subseteq delayed /\ ripe \subseteq delayed
    BY <1>3, MoveEffect DEF TypeOK
  <2>3. \A v \in Drainer : InHand(v)' # NoTask => InHand(v)' = InHand(v) \/ InHand(v)' \in worker[v].due
    BY <1>3, MoveEffect DEF InHand
  <2>4. \A v \in Drainer : worker'[v].due \subseteq worker[v].due \cup ripe
    BY <1>3, MoveEffect
  <2> QED
    BY <2>1, <2>2, <2>3, <2>4, Places
<1>4. ASSUME NEW w \in Drainer, Work(w)
      PROVE  \/ t \in Live \cup Due
             \/ /\ Working(w) /\ InHand(w).retry < MaxRetry
                /\ t = RetryOf(InHand(w)) /\ \E what \in {"failed", "fault"} : <<InHand(w), what>> \in outcome'
  <2>1. /\ TasksOf(queue') \subseteq TasksOf(queue)
        /\ InHand(w)' # NoTask => InHand(w)' = InHand(w) \/ InHand(w)' \in TasksOf(queue)
    <3>1. CASE UNCHANGED queue /\ InHand(w)' \in {NoTask, InHand(w)}
      BY <3>1
    <3>2. CASE queue # <<>> /\ InHand(w)' = Head(queue) /\ queue' = Tail(queue)
      BY <3>2, TasksOfTail DEF TypeOK
    <3> QED
      BY <1>4, <3>1, <3>2, WorkEffect
  <2>2. \A v \in Drainer \ {w} : InHand(v)' = InHand(v)
    BY <1>4, WorkEffect DEF InHand
  <2>3. \A v \in Drainer : worker'[v].due \subseteq worker[v].due
    BY <1>4, WorkEffect
  <2>4. CASE t \in delayed' \ delayed
    BY <1>4, <2>4, WorkEffect
  <2>5. CASE t \notin delayed' \ delayed
    BY <2>1, <2>2, <2>3, <2>5, Places
  <2> QED
    BY <2>4, <2>5
<1>4a. ASSUME NEW w \in Drainer, Miss(w) PROVE t \in Live \cup Due
  <2>1. TasksOf(queue') \subseteq TasksOf(queue)
    <3>1. CASE UNCHANGED queue
      BY <3>1
    <3>2. CASE queue # <<>> /\ queue' = Tail(queue)
      BY <3>2, TasksOfTail DEF TypeOK
    <3> QED
      BY <1>4a, <3>1, <3>2, MissEffect
  <2>2. /\ \A v \in Drainer : InHand(v)' # NoTask => InHand(v)' = InHand(v)
        /\ \A v \in Drainer : worker'[v].due \subseteq worker[v].due
        /\ UNCHANGED delayed
    BY <1>4a, MissEffect DEF InHand
  <2> QED
    BY <2>1, <2>2, Places
<1>5. CASE Crash
  <2>1. \A w \in Drainer : InHand(w)' = NoTask /\ worker'[w].due = {}
    BY <1>5 DEF Crash, InHand, IdleDrain
  <2>2. UNCHANGED <<queue, delayed>>
    BY <1>5 DEF Crash
  <2> QED
    BY <2>1, <2>2, Places
<1> QED
  BY <1>1, <1>2, <1>3, <1>4, <1>4a, <1>5 DEF Next, Restock, Ripen, vars

LEMMA BlamedStep ==
    ASSUME TypeOK, Hands, Blamed, [Next]_vars PROVE Blamed'
<1> SUFFICES ASSUME NEW t \in (Live \cup Due)', t.retry > 0 PROVE Troubled(t.product)'
  BY DEF Blamed
<1>1. CASE t \in Live \cup Due
  BY <1>1, OutcomeGrows, TroubledStays DEF Blamed
<1>2. CASE t.retry = 0
  BY <1>2
<1>3. ASSUME NEW w \in Drainer, Working(w), InHand(w).retry < MaxRetry,
             t = RetryOf(InHand(w)),
             \E what \in {"failed", "fault"} : <<InHand(w), what>> \in outcome'
      PROVE  Troubled(t.product)'
  <2>1. InHand(w) \in Task /\ t.product = InHand(w).product
    BY <1>3, HandTyped, RetryTyped DEF Working
  <2> QED
    BY <1>3, <2>1 DEF Troubled
<1> QED
  BY <1>1, <1>2, <1>3, NewTasks

LEMMA EndingStep ==
    ASSUME TypeOK, Hands, Locks, Ordered, Blamed, Ending, [Next]_vars
    PROVE  Ending'
<1> USE DEF redis, shop
<1> DEFINE Goal(p) == \/ OfflineIn(queue', p)
                      \/ \E w \in Drainer : Holds(w, "offline", p)'
                      \/ \E w \in Drainer : worker'[w].pc = "failing" /\ InHand(w)'.product = p
<1> SUFFICES ASSUME NEW p \in Product, Calm(p)', ~Met(p, {"lost", "died"})',
                    ~Troubled(p)', listing'[p].online
             PROVE  Goal(p)
  BY DEF Ending, OfflineIn, TasksOf
<1>0. /\ queue \in Seq(Task) /\ ~Troubled(p) /\ gaps \subseteq gaps'
      /\ ~Met(p, {"lost", "died"})
  BY OutcomeGrows, TroubledStays, GapsGrow, MetStays DEF TypeOK
\* p gets calm by a push of its fresh offline task.
<1>1. ASSUME ~Calm(p) PROVE Goal(p)
  <2>1. PICK o \in Order : Buy(o) \/ Deliver(o)
    <3>1. ~UNCHANGED <<stock, sale>>
      BY <1>0, <1>1, CalmStays
    <3>2. \A w \in Drainer : ~Move(w) /\ ~Work(w) /\ ~Miss(w)
      BY <3>1, MoveEffect, WorkEffect, MissEffect
    <3>3. \A q \in Product : ~Restock(q)
      BY <1>1, CalmRestock
    <3> QED
      BY <3>1, <3>2, <3>3 DEF Next, Ripen, Crash, vars
  <2>2. queue' = Append(queue, TaskOf(o)) /\ Fresh(TaskOf(o), "offline", p)
    BY <1>1, <2>1, CalmSale
  <2>3. TasksOf(queue') = TasksOf(queue) \cup {TaskOf(o)}
    BY <1>0, <2>2, TaskOfTyped, TasksOfAppend
  <2> QED
    BY <2>2, <2>3 DEF OfflineIn
\* A relist task puts it on sale: a fresh one, with the offline task behind.
<1>3. ASSUME Calm(p), ~listing[p].online PROVE Goal(p)
  <2>1. PICK w \in Drainer : /\ Execute(w) \/ ExecuteFails(w)
                             /\ worker[w].pc = "popped" /\ InHand(w).action = "relist"
                             /\ InHand(w).product = p
    BY <1>3, OnlineByRelist
  <2>2. InHand(w) \in Task /\ InHand(w).retry \in Nat
    BY <2>1, HandTyped
  <2>3. InHand(w) \in Live
    BY <2>2, NoTaskApart DEF Live, Held
  <2>4. InHand(w).retry = 0
    BY <1>0, <2>1, <2>2, <2>3 DEF Blamed
  <2>5. OfflineIn(queue, p)
    BY <1>3, <2>1, <2>4 DEF Ordered, Holds, Fresh
  <2> QED
    BY <2>1, <2>5, HoldEffect
<1>4. ASSUME OfflineIn(queue, p) PROVE Goal(p)
  <2>1. CASE UNCHANGED queue
    BY <1>4, <2>1
  <2>2. ASSUME NEW t \in Task, queue' = Append(queue, t) PROVE Goal(p)
    <3>1. TasksOf(queue') = TasksOf(queue) \cup {t}
      BY <1>0, <2>2, TasksOfAppend
    <3> QED
      BY <1>4, <3>1 DEF OfflineIn
  <2>3. ASSUME NEW w \in Drainer, queue # <<>>, InHand(w)' = Head(queue),
               queue' = Tail(queue), worker'[w].pc = "popped"
        PROVE  Goal(p)
    <3>1. TasksOf(queue) = {Head(queue)} \cup TasksOf(queue')
      BY <1>0, <2>3, TasksOfTail
    <3> QED
      BY <1>4, <2>3, <3>1 DEF OfflineIn, Holds
  <2>4. ASSUME NEW o \in Order, Buy(o) \/ Deliver(o) PROVE Goal(p)
    BY <2>1, <2>2, <2>4, SaleEffect, TaskOfTyped
  <2>5. ASSUME NEW w \in Drainer, Move(w) PROVE Goal(p)
    BY <2>1, <2>2, <2>5, MoveEffect
  <2>6. ASSUME NEW w \in Drainer, Work(w) PROVE Goal(p)
    BY <2>1, <2>3, <2>6, WorkEffect
  \* An LPOP whose answer was lost did not take it.
  <2>7. ASSUME NEW w \in Drainer, Miss(w) PROVE Goal(p)
    <3>1. CASE /\ queue # <<>> /\ queue' = Tail(queue)
               /\ <<Head(queue).product, "lost">> \in gaps'
      <4>1. TasksOf(queue) = {Head(queue)} \cup TasksOf(queue')
        BY <1>0, <3>1, TasksOfTail
      <4>2. Head(queue).product # p
        BY <3>1 DEF Met
      <4> QED
        BY <1>4, <4>1, <4>2 DEF OfflineIn, Fresh
    <3> QED
      BY <2>1, <2>7, <3>1, MissEffect
  <2> QED
    BY <2>1, <2>4, <2>5, <2>6, <2>7 DEF Next, Restock, Ripen, Crash, vars
\* The drain lets go of the task, or the task goes its way.
<1>5. ASSUME NEW w \in Drainer, InHand(w).product = p, Working(w)
      PROVE  /\ worker'[w] = worker[w] \/ Work(w)
             /\ ~DropOrphan(w) /\ ~Fault(w) /\ ~Requeue(w) /\ ~RequeueFails(w) /\ ~DeadLetter(w)
  <2>1. ~DropOrphan(w) /\ ~Fault(w) /\ ~Requeue(w) /\ ~RequeueFails(w) /\ ~DeadLetter(w)
    BY <1>5, LetGoIsTrouble
  <2>2. \A v \in Drainer : Work(v) \/ Move(v) \/ Miss(v) => worker'[w] = worker[w] \/ Work(w)
    BY <1>5, MoveEffect, WorkEffect, MissEffect
  <2>3. ~Crash
    <3>1. InHand(w) # NoTask
      BY <1>5 DEF Hands, Working
    <3>2. Crash => <<p, "died">> \in gaps'
      BY <1>5, <3>1 DEF Crash
    <3> QED
      BY <3>2 DEF Met
  <2> QED
    BY <2>1, <2>2, <2>3, SaleEffect DEF Next, Restock, Ripen, vars
<1>6. ASSUME NEW w \in Drainer, worker[w].pc = "failing", InHand(w).product = p
      PROVE  Goal(p)
  <2>1. worker'[w] = worker[w]
    BY <1>5, <1>6
    DEF Working, Work, Pop, Execute, ExecuteFails, RemapFails, Commit, EndDrain
  <2> QED
    BY <1>6, <2>1 DEF InHand
<1>7. ASSUME NEW w \in Drainer, Holds(w, "offline", p) PROVE Goal(p)
  <2>0. Working(w) /\ InHand(w).product = p /\ InHand(w).action = "offline"
    BY <1>7 DEF Holds, Fresh, Working
  <2>1. worker'[w] = worker[w] \/ Execute(w) \/ ExecuteFails(w)
    <3>1. worker'[w] = worker[w] \/ Work(w)
      BY <1>5, <2>0
    <3>2. ~DropOrphan(w) /\ ~Fault(w) /\ ~Requeue(w) /\ ~RequeueFails(w) /\ ~DeadLetter(w)
      BY <1>5, <2>0
    <3>3. ~Pop(w) /\ ~RemapFails(w) /\ ~Commit(w) /\ ~EndDrain(w)
      BY <1>7 DEF Holds, Pop, RemapFails, Commit, EndDrain
    <3> QED
      BY <3>1, <3>2, <3>3 DEF Work
  <2>2. CASE worker'[w] = worker[w]
    BY <1>7, <2>2 DEF Holds, InHand
  <2>3. CASE Execute(w)
    <3>1. PICK gen \in Gen : Carried(InHand(w), gen)
      BY <2>3 DEF Execute
    <3>2. listing' = [listing EXCEPT ![p].online = FALSE]
      BY <2>0, <3>1 DEF Carried
    <3> QED
      BY <3>2 DEF TypeOK, Listing
  <2>4. CASE ExecuteFails(w)
    <3>1. worker'[w] = [worker[w] EXCEPT !.pc = "failing"]
      BY <2>4, StepEffect DEF ExecuteFails
    <3>2. worker'[w].pc = "failing" /\ InHand(w)' = InHand(w)
      BY <3>1, DrainTyped DEF Drain, InHand
    <3> QED
      BY <2>0, <3>2
  <2> QED
    BY <2>1, <2>2, <2>3, <2>4
<1> QED
  BY <1>0, <1>1, <1>3, <1>4, <1>6, <1>7 DEF Ending

LEMMA EndingInit == Init => Blamed /\ Ending
<1> SUFFICES ASSUME Init PROVE Blamed /\ Ending
  OBVIOUS
<1>1. \A t : t \notin Live \cup Due
  BY Places DEF Init, IdleDrain, InHand, TasksOf
<1>2. \A p \in Product : ~Calm(p)
  BY CalmNotYet
<1> QED
  BY <1>1, <1>2 DEF Blamed, Ending

\* Quiet leaves none of the three places Ending names.
LEMMA EndingQuiet ==
    ASSUME TypeOK, Hands, Locks, Ending PROVE SoldOutItemIsOffline
<1> SUFFICES ASSUME Quiet, NEW p \in Product, stock[p] = {}, ~Troubled(p),
                    ~Met(p, Cause), listing[p].online
             PROVE  FALSE
  BY DEF SoldOutItemIsOffline
<1>1. TasksOf(queue) = {} /\ \A w \in Drainer : InHand(w) = NoTask
  BY DEF Quiet, Live, Waiting, Held
<1>2. \A w \in Drainer : worker[w].pc \notin {"popped", "failing"}
  BY <1>1 DEF Hands
<1>3. ~Met(p, GapCauses) /\ ~Met(p, {"lost", "died"})
  BY DEF Met, GapCauses, Cause
<1>4. Calm(p)
  BY <1>3, EmptyIsCalm
<1> QED
  BY <1>1, <1>2, <1>3, <1>4 DEF Ending, OfflineIn, Holds

(* When the queue has been worked off, a product with nothing to sell is   *)
(* off the platform, unless an execution for it failed, broke off or was   *)
(* dropped, or one of the named gaps happened: a task lost with the answer *)
(* of its LPOP or with a death, an overlapping count, a sale without a     *)
(* task, a push that failed, an offline task taken too early.  For any     *)
(* number of drains, sales, failures and deaths.                           *)
THEOREM SoldOutIsOffline == Spec => []SoldOutItemIsOffline
<1> DEFINE IInv == TypeOK /\ Hands /\ Locks /\ Retries /\ Ordered /\ Blamed /\ Ending
<1>1. Init => IInv
  BY InitType, LocksInit, OrderedInit, EndingInit
<1>2. IInv /\ [Next]_vars => IInv'
  BY TypeStep, RetriesStep, OrderedStep, BlamedStep, EndingStep
<1>3. IInv => SoldOutItemIsOffline
  BY EndingQuiet
<1> QED
  BY <1>1, <1>2, <1>3, PTL DEF Spec
=============================================================================
