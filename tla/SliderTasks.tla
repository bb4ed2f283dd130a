----------------------------- MODULE SliderTasks ----------------------------
(***************************************************************************)
(* The sliders and logins of one websocket process: who gets the mouse and *)
(* who gets a browser.                                                     *)
(*                                                                         *)
(* Mouse tasks wait in an asyncio queue of their own; one dispatcher picks *)
(* them, local against remote by smooth weighted round robin, and puts one *)
(* at a time into the thread pool of all browser work.  A remote task with *)
(* a cookie comes after those without, unless it has waited 70 seconds.    *)
(* The coroutines of the queue run on the event loop between its awaits.   *)
(*                                                                         *)
(* Browser tasks take a slot and then the lock of their account, each with *)
(* a time limit.  A login that waits for the owner's face gives its slot   *)
(* back; the call that is to take it again does nothing, and closing the   *)
(* browser gives it back once more.  So does a user's login whose browser  *)
(* never came to be.                                                       *)
(***************************************************************************)
EXTENDS Integers, Sequences, FiniteSets

CONSTANTS Local, Plain, Cookie,   \* mouse tasks; each may come again and again
          Solver,                 \* browser tasks: sliders, with a second engine
          Login,                  \* logins of the account tasks
          UserLogin,              \* logins a user asked for, in threads of their own
          AccountOf,              \* the account of a browser task
          Loads,                  \* which tasks may come together
          Weights,                \* the weights the administrator may have set
          LoadFails,              \* may they be unreadable?
          MaxSlots,               \* max_captcha_concurrent
          Free, NoRound           \* nobody; no weights in use

Bucket == {"local", "remote"}
Mouse == Local \cup Plain \cup Cookie
Pooled == Solver \cup Login
Browser == Pooled \cup UserLogin
Task == Mouse \cup Browser
Account == {AccountOf[b] : b \in Browser}

ASSUME TasksAssumption ==
    /\ IsFiniteSet(Browser)
    /\ Local \cap (Plain \cup Cookie) = {} /\ Plain \cap Cookie = {}
    /\ Mouse \cap Browser = {} /\ UserLogin \cap Pooled = {} /\ Solver \cap Login = {}
    /\ DOMAIN AccountOf = Browser
    /\ Loads \subseteq SUBSET Task
    /\ Weights \subseteq [Bucket -> Nat] /\ NoRound \notin [Bucket -> Nat]
    /\ LoadFails \in BOOLEAN
    /\ MaxSlots \in Nat \ {0}
    /\ Free \notin Task

VARIABLES comers,      \* the tasks that come in this behaviour
          place,       \* where each task is
          ahead,       \* pairs of mouse tasks in line: who came before whom
          aged,        \* those that have waited 70 seconds
          dispatcher,  \* the dispatcher coroutine
          current,     \* the mouse task it waits for
          credit,      \* smooth round robin: what each bucket is owed
          round,       \* the weights that credit is counted in
          lead,        \* history: the turns of local less its share, in weights
          pool,        \* tasks waiting for a thread
          active,      \* browser slots counted as taken
          locks,       \* the browser lock of each account
          second,      \* sliders in their second engine
          extra        \* history: slots given back that were not held

queue == <<ahead, aged, dispatcher, current, credit, round, lead>>
slots == <<active, locks, second, extra>>
vars == <<comers, place, queue, pool, slots>>
-----------------------------------------------------------------------------
Init ==
    /\ comers \in Loads
    /\ place = [t \in Task |-> "idle"]
    /\ ahead = {} /\ aged = {}
    /\ dispatcher = "none" /\ current = Free
    /\ credit = [b \in Bucket |-> 0] /\ round = NoRound /\ lead = 0
    /\ pool = <<>>
    /\ active = 0 /\ extra = 0 /\ second = {}
    /\ locks = [a \in Account |-> Free]

BucketOf(m) == IF m \in Local THEN "local" ELSE "remote"

Goes(t, p) == place' = [place EXCEPT ![t] = p]

\* From the end of a task to the next choice nothing else runs on the loop.
LoopFree == dispatcher # "choosing"

\* Cancelled tasks stay in line until the dispatcher looks.
InLine == {m \in Mouse : place[m] \in {"queued", "cancelled"}}
Before(m, n) == <<m, n>> \in ahead

Submit(m) ==
    /\ LoopFree
    /\ m \in comers /\ place[m] = "idle"
    /\ Goes(m, "queued")
    /\ ahead' = ahead \cup (InLine \X {m})
    /\ dispatcher' = IF dispatcher = "none" THEN "starting" ELSE dispatcher
    /\ UNCHANGED <<comers, aged, current, credit, round, lead, pool, slots>>

\* The caller is cancelled: a waiting task will be skipped, one at work goes
\* on for nobody.
Cancel(m) ==
    /\ LoopFree
    /\ \/ place[m] = "queued" /\ Goes(m, "cancelled")
       \/ place[m] = "picked" /\ Goes(m, "dropped")
    /\ UNCHANGED <<comers, queue, pool, slots>>

\* Seventy seconds are over for the first that they are not over for yet.
Age ==
    /\ \E m \in InLine :
         /\ m \in (Plain \cup Cookie) \ aged
         /\ \A n \in InLine : Before(n, m) => n \in Local \cup aged
         /\ aged' = aged \cup {m}
    /\ UNCHANGED <<comers, place, ahead, dispatcher, current, credit, round, lead, pool, slots>>

\* What _purge_cancelled_locked leaves, and the buckets that have a task.
Waiting == {m \in Mouse : place[m] = "queued"}
Pending == {BucketOf(m) : m \in Waiting}

\* Seeded fault: waiting gives no precedence.
FirstOfYoung(b, m) ==
    /\ m \in Waiting /\ BucketOf(m) = b
    /\ \A n \in Waiting \ {m} : BucketOf(n) = b =>
         \/ m \in Plain /\ n \in Cookie
         \/ ~(m \in Cookie /\ n \in Plain) /\ Before(m, n)

\* The task of a bucket whose turn it is: those that have waited long by
\* their arrival, then those without a cookie, then the rest.
FirstOf(b, m) ==
    /\ m \in Waiting /\ BucketOf(m) = b
    /\ \A n \in Waiting \ {m} : BucketOf(n) = b =>
         \/ m \in aged /\ n \notin aged
         \/ m \notin aged /\ n \notin aged /\ m \in Plain /\ n \in Cookie
         \/ /\ (m \in aged) = (n \in aged)
            /\ m \in aged \/ ~(m \in Cookie /\ n \in Plain)
            /\ Before(m, n)

\* Cancelled tasks are forgotten; a task that is picked goes to the pool.
Settle(m) ==
    LET left == Waiting \ {m} IN
    /\ place' = [n \in Task |-> IF place[n] = "cancelled" THEN "idle"
                                ELSE IF n = m THEN "picked" ELSE place[n]]
    /\ ahead' = ahead \cap (left \X left)
    /\ aged' = aged \cap left
    /\ current' = m
    /\ pool' = IF m = Free THEN pool ELSE Append(pool, m)

ResetRound ==
    /\ credit' = [b \in Bucket |-> 0]
    /\ round' = NoRound
    /\ lead' = 0

\* Only one bucket has tasks: the weights do not matter.
PickAlone ==
    \E b \in Pending, m \in Waiting :
        /\ Pending = {b} /\ FirstOf(b, m)
        /\ Settle(m)
        /\ ResetRound
        /\ dispatcher' = "running"

Choose ==
    /\ dispatcher \in {"starting", "choosing"}
    /\ \/ /\ Pending = {}
          /\ Settle(Free)
          /\ ResetRound
          /\ dispatcher' = "none"
       \/ PickAlone
       \/ /\ Pending = Bucket
          /\ Settle(Free)
          /\ dispatcher' = "weighing"
          /\ UNCHANGED <<credit, round, lead>>
    /\ UNCHANGED <<comers, slots>>

Other(b) == IF b = "local" THEN "remote" ELSE "local"
Sum(w) == w["local"] + w["remote"]
Even == [b \in Bucket |-> 1]

\* Weights that are all zero count as equal.
Effective(w) == IF Sum(w) = 0 THEN Even ELSE w

\* The credit with which a round goes on, or starts anew after a change.
Owed(w, b) == (IF round = w THEN credit[b] ELSE 0) + w[b]

\* Seeded fault: the bucket that is served pays nothing.
PickWeighedFree(w) ==
    \E b \in Bucket, m \in Waiting :
        /\ \/ Owed(w, b) > Owed(w, Other(b))
           \/ Owed(w, b) = Owed(w, Other(b)) /\ b = "local"
        /\ FirstOf(b, m)
        /\ Settle(m)
        /\ credit' = [c \in Bucket |-> Owed(w, c)]
        /\ lead' = (IF round = w THEN lead ELSE 0)
                     + (IF b = "local" THEN w["remote"] ELSE -w["local"])
        /\ round' = w

\* Each bucket is credited its weight, and the richer one is served and pays
\* for both; of equals the local one.
PickWeighed(w) ==
    \E b \in Bucket, m \in Waiting :
        /\ \/ Owed(w, b) > Owed(w, Other(b))
           \/ Owed(w, b) = Owed(w, Other(b)) /\ b = "local"
        /\ FirstOf(b, m)
        /\ Settle(m)
        /\ credit' = [c \in Bucket |-> Owed(w, c) - (IF c = b THEN Sum(w) ELSE 0)]
        /\ lead' = (IF round = w THEN lead ELSE 0)
                     + (IF b = "local" THEN w["remote"] ELSE -w["local"])
        /\ round' = w

\* The weights have been read, in a thread; the queue may have changed.
Weigh ==
    /\ dispatcher = "weighing"
    /\ \/ /\ Pending = {}
          /\ Settle(Free)
          /\ dispatcher' = "choosing"
          /\ UNCHANGED <<credit, round, lead>>
       \/ PickAlone
       \/ /\ Pending = Bucket
          /\ \/ \E w \in Weights : PickWeighed(Effective(w))
             \/ LoadFails /\ PickWeighed(Even)
          /\ dispatcher' = "running"
    /\ UNCHANGED <<comers, slots>>

InPool(t) == \E i \in 1..Len(pool) : pool[i] = t

Finish ==
    /\ dispatcher = "running"
    /\ ~InPool(current)
    /\ Goes(current, "idle")
    /\ current' = Free
    /\ dispatcher' = "choosing"
    /\ UNCHANGED <<comers, ahead, aged, credit, round, lead, pool, slots>>
-----------------------------------------------------------------------------
\* run_browser_task, and the thread of a user's login.
Call(b) ==
    /\ LoopFree
    /\ b \in comers /\ place[b] = "idle"
    /\ IF b \in Pooled
       THEN Goes(b, "pooled") /\ pool' = Append(pool, b)
       ELSE Goes(b, "slot") /\ UNCHANGED pool
    /\ UNCHANGED <<comers, queue, slots>>

Busy == {b \in Pooled : place[b] \notin {"idle", "pooled", "over"}}
          \cup {m \in {current} \ {Free} : ~InPool(m)}

\* The pool has two threads more than there are slots.
Workers == MaxSlots + 2

\* A thread takes the next task of the pool.
Begin ==
    /\ pool # <<>>
    /\ Cardinality(Busy) < Workers
    /\ pool' = Tail(pool)
    /\ place' = [place EXCEPT ![Head(pool)] = IF @ = "pooled" THEN "slot" ELSE @]
    /\ UNCHANGED <<comers, queue, slots>>

\* Seeded fault: one browser more than there are slots.
TakeSlotMore(b) ==
    /\ place[b] = "slot"
    /\ active <= MaxSlots
    /\ active' = active + 1
    /\ Goes(b, "lock")
    /\ UNCHANGED <<comers, queue, pool, locks, second, extra>>

TakeSlot(b) ==
    /\ place[b] = "slot"
    /\ active < MaxSlots
    /\ active' = active + 1
    /\ Goes(b, "lock")
    /\ UNCHANGED <<comers, queue, pool, locks, second, extra>>

\* n slots fewer are counted as taken; the count stops at zero.
Fewer(n) == IF active > n THEN active - n ELSE 0

Holding == {b \in Browser : place[b] \in {"lock", "open", "after"}}

\* With the last browser gone the count is right again.
Forgive(b, n) ==
    IF \E x \in Browser \ {b} : place[x] \in {"lock", "open", "face", "after"}
    THEN extra + n ELSE 0

\* A slider that did not pass tries its second engine, as a new browser.
MoveOn(b) ==
    \/ Goes(b, "over") /\ UNCHANGED second
    \/ b \in Solver \ second /\ Goes(b, "slot") /\ second' = second \cup {b}

\* The constructor raises.  A user's login has no browser to close then, and
\* gives a slot back instead.
Fail(b, held) ==
    LET more == IF b \in UserLogin THEN 1 ELSE 0 IN
    /\ active' = Fewer(held + more)
    /\ extra' = Forgive(b, more)
    /\ MoveOn(b)

NoSlot(b) ==
    /\ place[b] = "slot"
    /\ active >= MaxSlots
    /\ Fail(b, 0)
    /\ UNCHANGED <<comers, queue, pool, locks>>

TakeLock(b) ==
    /\ place[b] = "lock"
    /\ locks[AccountOf[b]] = Free
    /\ locks' = [locks EXCEPT ![AccountOf[b]] = b]
    /\ Goes(b, "open")
    /\ UNCHANGED <<comers, queue, pool, active, second, extra>>

NoLock(b) ==
    /\ place[b] = "lock"
    /\ locks[AccountOf[b]] # Free
    /\ Fail(b, 1)
    /\ UNCHANGED <<comers, queue, pool, locks>>

\* The login asks for the owner's face, and others may have the slot.
AskFace(b) ==
    /\ b \in Login \cup UserLogin
    /\ place[b] = "open"
    /\ active' = Fewer(1)
    /\ Goes(b, "face")
    /\ UNCHANGED <<comers, queue, pool, locks, second, extra>>

\* register_instance takes no slot, but the browser is at work again.
FaceOver(b) ==
    /\ place[b] = "face"
    /\ Goes(b, "after")
    /\ extra' = extra + 1
    /\ UNCHANGED <<comers, queue, pool, active, locks, second>>

\* The browser is closed: the lock, then the slot.
Close(b) ==
    /\ place[b] \in {"open", "after"}
    /\ locks' = [locks EXCEPT ![AccountOf[b]] = Free]
    /\ active' = Fewer(1)
    /\ extra' = Forgive(b, 0)
    /\ MoveOn(b)
    /\ UNCHANGED <<comers, queue, pool>>
-----------------------------------------------------------------------------
Dispatch == Choose \/ Weigh \/ Finish
Run(b) == \/ TakeSlot(b) \/ NoSlot(b) \/ TakeLock(b) \/ NoLock(b)
          \/ FaceOver(b) \/ Close(b)

Next ==
    \/ \E m \in Mouse : Submit(m) \/ Cancel(m)
    \/ Age \/ Dispatch \/ Begin
    \/ \E b \in Browser : Call(b) \/ Run(b) \/ AskFace(b)

\* The event loop and the threads go on, every wait and every browser has a
\* time limit, and time passes.
Fairness ==
    /\ WF_vars(Age) /\ WF_vars(Dispatch) /\ WF_vars(Begin)
    /\ \A b \in Browser : WF_vars(Run(b))

Spec == Init /\ [][Next]_vars
FairSpec == Spec /\ Fairness
-----------------------------------------------------------------------------
(* Every variable keeps its type.                                          *)
TypeOK ==
    /\ comers \subseteq Task
    /\ place \in [Task -> {"idle", "queued", "cancelled", "picked", "dropped", "pooled",
                           "slot", "lock", "open", "face", "after", "over"}]
    /\ ahead \subseteq Mouse \X Mouse
    /\ aged \subseteq Mouse
    /\ dispatcher \in {"none", "starting", "choosing", "weighing", "running"}
    /\ current \in Mouse \cup {Free}
    /\ credit \in [Bucket -> Int]
    /\ round \in [Bucket -> Nat] \cup {NoRound}
    /\ lead \in Int
    /\ pool \in Seq(Task)
    /\ active \in Nat
    /\ locks \in [Account -> Browser \cup {Free}]
    /\ second \subseteq Solver
    /\ extra \in Nat

(* No more browsers are at work than there are slots, but for the slots    *)
(* that were given back twice since the last time no browser was open.     *)
WithinLimit ==
    Cardinality({b \in Browser : place[b] \in {"open", "after"}}) <= MaxSlots + extra

(* While local and remote tasks compete with the same weights, each side   *)
(* gets its turns in proportion: it is never more than half a round ahead  *)
(* of its share or behind it.                                              *)
TurnsInProportion ==
    IF round = NoRound THEN lead = 0
    ELSE 2 * lead <= Sum(round) /\ -2 * lead <= Sum(round)

(* Every task has its turn and ends, whatever else keeps coming: a remote  *)
(* task with a cookie is not passed over for ever, the dispatcher is never *)
(* lost, and no browser waits for ever for a slot or for a lock.           *)
TasksEnd ==
    /\ \A m \in Mouse : place[m] \in {"queued", "picked"} ~>
                          place[m] \in {"idle", "cancelled", "dropped"}
    /\ \A b \in Browser : place[b] \notin {"idle", "over"} ~> place[b] = "over"
=============================================================================
