--------------------------- MODULE StockTaskWorker --------------------------
(***************************************************************************)
(* The relist and offline tasks a sale leaves in Redis, and the scheduler  *)
(* that carries them out on the platform: process_stock_task, drain_queue, *)
(* relist_and_remap, and the stock guard's run.                            *)
(*                                                                         *)
(* Two drains may run at once: the guard's periodic loop and a manual      *)
(* trigger call run in the same process.  The guard's own patrol does      *)
(* nothing: is_item_online returns False, which closes its offline branch, *)
(* and no caller passes relist_enabled, which closes its relist branch.    *)
(*                                                                         *)
(* A product is a listing with its secrets; a relisting may give it a new  *)
(* item id (the next generation), and the platform knows only the latest.  *)
(* A sale counts in the snapshot its session opened with and queues its    *)
(* task before it commits; on the plain path (the deliver endpoint) it     *)
(* queues none.                                                            *)
(*                                                                         *)
(* The client of Redis waits five seconds for an answer and sends the      *)
(* command once more (retry_on_timeout).  An RPUSH whose answer was lost   *)
(* is so done twice, an LPOP takes a task that nobody has.                 *)
(***************************************************************************)
EXTENDS Naturals, Sequences

CONSTANTS Product,        \* products with secrets of the seller's own
          Drainer,        \* the callers of run
          MaxRetry,       \* MAX_RETRY, 5 in the code
          DrainLimit,     \* _DRAIN_LIMIT, 100 in the code
          Order,          \* orders, each delivered once
          Secret,         \* keys the secrets of a product may get
          MaxGen,         \* bound on the new item ids a product gets
          MaxCrashes,     \* bound on the deaths of the scheduler
          AccountsVanish, \* may the account record of a product be gone?
          PlatformFails,  \* may a platform call fail or time out?
          DatabaseFails,  \* the database calls that may fail, of {"lookup", "remap", "commit"}
          MaxFaults       \* bound on the Redis calls that fail or lose their answer

ASSUME WorkerAssumption ==
    /\ {MaxRetry, MaxGen, MaxCrashes, MaxFaults} \subseteq Nat
    /\ DrainLimit \in Nat \ {0}
    /\ Secret \subseteq Nat \ {0}
    /\ DatabaseFails \subseteq {"lookup", "remap", "commit"}
    /\ {AccountsVanish, PlatformFails} \subseteq BOOLEAN

VARIABLES queue,     \* Redis list stock_tasks
          delayed,   \* Redis sorted set stock_tasks:delayed
          ripe,      \* the members of delayed whose time has come
          worker,    \* the drains
          listing,   \* the platform's side of each product
          bound,     \* the item id (generation) the database has for it
          stock,     \* secrets for sale, committed
          sold,      \* secrets sold, committed
          sale,      \* the orders and the open transactions of their deliveries
          outcome,   \* history: what the log says of each execution
          gaps,      \* history: why a product may have no offline task
          unheard,   \* history: tasks taken by an LPOP whose answer was lost
          faults,    \* Redis calls that failed so far
          crashes    \* deaths so far

vars == <<queue, delayed, ripe, worker, listing, bound, stock, sold, sale,
          outcome, gaps, unheard, faults, crashes>>
redis == <<queue, delayed, ripe>>
shop == <<listing, bound, stock, sold, sale>>
notes == <<gaps, unheard, faults>>
-----------------------------------------------------------------------------
Gen == 0..MaxGen
Task == [action : {"relist", "offline"}, product : Product, gen : Gen, retry : 0..MaxRetry]
NoTask == [action |-> "none"]
Outcome == {"ok", "failed", "dead", "dropped", "fault"}

Listing == [gen : Gen, online : BOOLEAN]

Drain == [pc     : {"idle", "moving", "repushing", "pushed", "pulling", "repulling",
                    "popped", "executed", "failing"},
          due    : SUBSET Task,
          task   : Task \cup {NoTask},
          popped : 0..DrainLimit,
          gen    : Gen]

IdleDrain == [pc |-> "idle", due |-> {}, task |-> NoTask, popped |-> 0, gen |-> 0]

\* A sale: the item id and the secrets it saw, and the secret it has locked.
NoSecret == 0
Sale == [pc      : {"idle", "paid", "open", "placed", "soldout", "resending", "queued", "done"},
         product : Product,
         path    : {"hook", "plain"},
         gen     : Gen,
         view    : SUBSET Secret,
         secret  : Secret \cup {NoSecret}]

Cause == {"stale", "plain", "unqueued", "overtaken", "lost", "died"}

FreshTask(action, p, g) == [action |-> action, product |-> p, gen |-> g, retry |-> 0]
RetryOf(t) == [t EXCEPT !.retry = @ + 1]

\* The task a drain has in hand, and the same drain with nothing in hand.
InHand(w) == worker[w].task
Released(w) == [worker[w] EXCEPT !.pc = "pulling", !.task = NoTask, !.gen = 0]
Step(w, a) == worker' = [worker EXCEPT ![w] = a]
Report(t, what) == outcome' = outcome \cup {<<t, what>>}

\* The sales of p that have locked a secret, and the secrets nobody has.
Sales(p) == {o \in Order : sale[o].product = p}
Free(p) == stock[p] \ {sale[o].secret : o \in Sales(p)}
Serve(o, a) == sale' = [sale EXCEPT ![o] = a]
Served(o) == [sale[o] EXCEPT !.pc = "done", !.gen = 0, !.view = {}, !.secret = NoSecret]
Fail == faults < MaxFaults /\ faults' = faults + 1

\* The platform still knows the item id the task names.
Known(t) == t.gen = listing[t.product].gen
-----------------------------------------------------------------------------
Init ==
    /\ queue = <<>> /\ delayed = {} /\ ripe = {}
    /\ worker = [w \in Drainer |-> IdleDrain]
    /\ listing = [p \in Product |-> [gen |-> 0, online |-> TRUE]]
    /\ bound = [p \in Product |-> 0]
    /\ stock \in [Product -> (SUBSET Secret) \ {{}}]
    /\ sold = [p \in Product |-> {}]
    /\ sale \in [Order -> {[pc |-> "idle", product |-> p, path |-> way, gen |-> 0,
                            view |-> {}, secret |-> NoSecret] :
                             p \in Product, way \in {"hook", "plain"}}]
    /\ outcome = {} /\ gaps = {} /\ unheard = {}
    /\ faults = 0 /\ crashes = 0

\* A buyer pays.  The sale may take the listing off the platform, or only
\* one of its pieces.
Buy(o) ==
    /\ sale[o].pc = "idle"
    /\ LET p == sale[o].product IN
         /\ listing[p].online
         /\ \E online \in BOOLEAN : listing' = [listing EXCEPT ![p].online = online]
         /\ Serve(o, [sale[o] EXCEPT !.pc = "paid", !.gen = listing[p].gen])
    /\ UNCHANGED <<redis, worker, bound, stock, sold, outcome, notes, crashes>>

\* The delivery opens its session, which fixes what stock_of will count in.
\* An order under an item id the database does not have matches no card.
OpenSession(o) ==
    /\ sale[o].pc = "paid"
    /\ LET p == sale[o].product IN
         Serve(o, IF bound[p] = sale[o].gen
                  THEN [sale[o] EXCEPT !.pc = "open", !.view = stock[p]]
                  ELSE Served(o))
    /\ UNCHANGED <<redis, worker, listing, bound, stock, sold, outcome, notes, crashes>>

\* take_one: the oldest secret that no other transaction has locked, or none.
TakeOne(o) ==
    /\ sale[o].pc = "open"
    /\ \E x \in Free(sale[o].product) :
         /\ \A y \in Free(sale[o].product) : x <= y
         /\ Serve(o, [sale[o] EXCEPT !.pc = "placed", !.secret = x])
    /\ UNCHANGED <<redis, worker, listing, bound, stock, sold, outcome, notes, crashes>>

TakeNone(o) ==
    /\ sale[o].pc = "open" /\ Free(sale[o].product) = {}
    /\ Serve(o, IF sale[o].path = "hook" THEN [sale[o] EXCEPT !.pc = "soldout"]
                                         ELSE Served(o))
    /\ UNCHANGED <<redis, worker, listing, bound, stock, sold, outcome, notes, crashes>>

\* stock_of counts the snapshot less the secret taken here.
CountsMore(o) == sale[o].secret # NoSecret /\ sale[o].view \ {sale[o].secret} # {}

\* Seeded fault: the secret taken here is counted too.
TaskBeforeTake(o) ==
    FreshTask(IF sale[o].secret # NoSecret /\ sale[o].view # {} THEN "relist" ELSE "offline",
              sale[o].product, sale[o].gen)

TaskOf(o) == FreshTask(IF CountsMore(o) THEN "relist" ELSE "offline",
                       sale[o].product, sale[o].gen)

\* A sale has done its part with no secret left, and yet no offline task:
\* it counted secrets that others have taken, or its push failed, or it is
\* of the path that queues none.
Gap(o, cause, bad) ==
    gaps' = IF bad /\ Free(sale[o].product) = {}
            THEN gaps \cup {<<sale[o].product, cause>>}
            ELSE gaps

\* Where a sale goes on after its push.
Pushed(o) == IF sale[o].secret = NoSecret THEN Served(o)
                                          ELSE [sale[o] EXCEPT !.pc = "queued"]

\* The hook pushes its task; the answer of Redis may get lost,
QueueTask(o) ==
    /\ \/ sale[o].pc = "placed" /\ sale[o].path = "hook"
       \/ sale[o].pc = "soldout"
    /\ queue' = Append(queue, TaskOf(o))
    /\ Gap(o, "stale", CountsMore(o))
    /\ \/ Serve(o, Pushed(o)) /\ UNCHANGED faults
       \/ Serve(o, [sale[o] EXCEPT !.pc = "resending"]) /\ Fail
    /\ UNCHANGED <<delayed, ripe, worker, listing, bound, stock, sold, outcome, unheard, crashes>>

\* the push fails, which _safe_enqueue swallows,
QueueFails(o) ==
    /\ \/ sale[o].pc = "placed" /\ sale[o].path = "hook"
       \/ sale[o].pc = "soldout"
    /\ Fail
    /\ Gap(o, "unqueued", sale[o].secret # NoSecret)
    /\ Serve(o, Pushed(o))
    /\ UNCHANGED <<redis, worker, listing, bound, stock, sold, outcome, unheard, crashes>>

\* or is sent once more.
QueueAgain(o) ==
    /\ sale[o].pc = "resending"
    /\ queue' = Append(queue, TaskOf(o))
    /\ Gap(o, "stale", CountsMore(o))
    /\ Serve(o, Pushed(o))
    /\ UNCHANGED <<delayed, ripe, worker, listing, bound, stock, sold, outcome,
                   unheard, faults, crashes>>

CommitSale(o) ==
    /\ \/ sale[o].pc = "queued"
       \/ sale[o].pc = "placed" /\ sale[o].path = "plain"
    /\ LET p == sale[o].product IN
         /\ stock' = [stock EXCEPT ![p] = @ \ {sale[o].secret}]
         /\ sold' = [sold EXCEPT ![p] = @ \cup {sale[o].secret}]
    /\ Gap(o, "plain", sale[o].path = "plain")
    /\ Serve(o, Served(o))
    /\ UNCHANGED <<redis, worker, listing, bound, outcome, unheard, faults, crashes>>

\* A callback raises, the database fails or the process dies: the row is
\* free again, and a task that was pushed stays.
AbortSale(o) ==
    /\ sale[o].pc \in {"open", "placed", "soldout", "resending", "queued"}
    /\ Serve(o, Served(o))
    /\ UNCHANGED <<redis, worker, listing, bound, stock, sold, outcome, notes, crashes>>

\* add_batch: a new row, with the next key; no task is queued.
Restock(p) ==
    /\ \E x \in Secret :
         /\ \A y \in stock[p] \cup sold[p] : y < x
         /\ stock' = [stock EXCEPT ![p] = @ \cup {x}]
    /\ UNCHANGED <<redis, worker, listing, bound, sold, sale, outcome, notes, crashes>>

\* Time passes: a delayed task comes due.
Ripen(t) ==
    /\ t \in delayed \ ripe
    /\ ripe' = ripe \cup {t}
    /\ UNCHANGED <<queue, delayed, worker, shop, outcome, notes, crashes>>
-----------------------------------------------------------------------------
\* Seeded fault: the due tasks are taken off the set as they are read.
FetchDue(w) ==
    /\ worker[w].pc = "idle"
    /\ delayed' = delayed \ ripe /\ ripe' = {}
    /\ Step(w, [IdleDrain EXCEPT !.pc = "moving", !.due = ripe])
    /\ UNCHANGED <<queue, shop, outcome, notes, crashes>>

\* drain_queue reads the due tasks with ZRANGEBYSCORE.
BeginDrain(w) ==
    /\ worker[w].pc = "idle"
    /\ Step(w, [IdleDrain EXCEPT !.pc = "moving", !.due = ripe])
    /\ UNCHANGED <<redis, shop, outcome, notes, crashes>>

\* RPUSH of one of them, whose answer may get lost,
PushDue(w) ==
    /\ worker[w].pc = "moving"
    /\ \E t \in worker[w].due :
         /\ queue' = Append(queue, t)
         /\ \/ Step(w, [worker[w] EXCEPT !.pc = "pushed", !.task = t]) /\ UNCHANGED faults
            \/ Step(w, [worker[w] EXCEPT !.pc = "repushing", !.task = t]) /\ Fail
    /\ UNCHANGED <<delayed, ripe, shop, outcome, gaps, unheard, crashes>>

\* so that it is sent once more,
PushAgain(w) ==
    /\ worker[w].pc = "repushing"
    /\ queue' = Append(queue, InHand(w))
    /\ Step(w, [worker[w] EXCEPT !.pc = "pushed"])
    /\ UNCHANGED <<delayed, ripe, shop, outcome, notes, crashes>>

\* then ZREM.
RemoveDue(w) ==
    /\ worker[w].pc = "pushed"
    /\ delayed' = delayed \ {InHand(w)}
    /\ ripe' = ripe \ {InHand(w)}
    /\ Step(w, [worker[w] EXCEPT !.pc = "moving", !.task = NoTask,
                                 !.due = @ \ {InHand(w)}])
    /\ UNCHANGED <<queue, shop, outcome, notes, crashes>>

StartPulling(w) ==
    /\ worker[w].pc = "moving" /\ worker[w].due = {}
    /\ Step(w, [worker[w] EXCEPT !.pc = "pulling"])
    /\ UNCHANGED <<redis, shop, outcome, notes, crashes>>

\* The products whose relist task another drain has taken and not yet
\* carried out, when w takes the offline task t behind it.
Overtaken(w, t) ==
    {<<t.product, "overtaken">> :
       v \in {x \in Drainer \ {w} : /\ worker[x].pc = "popped" /\ t.action = "offline"
                                    /\ InHand(x).action = "relist"
                                    /\ InHand(x).product = t.product}}

\* Seeded fault: RPOP, the newest task first.
PopNewest(w) ==
    /\ worker[w].pc \in {"pulling", "repulling"} /\ worker[w].popped < DrainLimit
    /\ queue # <<>>
    /\ queue' = SubSeq(queue, 1, Len(queue) - 1)
    /\ Step(w, [worker[w] EXCEPT !.pc = "popped", !.task = queue[Len(queue)], !.popped = @ + 1])
    /\ gaps' = gaps \cup Overtaken(w, queue[Len(queue)])
    /\ UNCHANGED <<delayed, ripe, shop, outcome, unheard, faults, crashes>>

\* LPOP: from here the task is in the memory of the process only.
Pop(w) ==
    /\ worker[w].pc \in {"pulling", "repulling"} /\ worker[w].popped < DrainLimit
    /\ queue # <<>>
    /\ queue' = Tail(queue)
    /\ Step(w, [worker[w] EXCEPT !.pc = "popped", !.task = Head(queue), !.popped = @ + 1])
    /\ gaps' = gaps \cup Overtaken(w, Head(queue))
    /\ UNCHANGED <<delayed, ripe, shop, outcome, unheard, faults, crashes>>

\* The answer of the LPOP gets lost: the task is nowhere, and the client
\* sends the command once more; when that is in vain too, the drain ends.
PopUnheard(w) ==
    /\ worker[w].pc \in {"pulling", "repulling"} /\ worker[w].popped < DrainLimit
    /\ queue # <<>>
    /\ Fail
    /\ queue' = Tail(queue)
    /\ unheard' = unheard \cup {Head(queue)}
    /\ gaps' = gaps \cup {<<Head(queue).product, "lost">>} \cup Overtaken(w, Head(queue))
    /\ Step(w, IF worker[w].pc = "pulling" THEN [worker[w] EXCEPT !.pc = "repulling"]
                                           ELSE IdleDrain)
    /\ UNCHANGED <<delayed, ripe, shop, outcome, crashes>>

\* A command fails for good: the except clause of drain_queue ends the drain.
BreakOff(w) ==
    /\ worker[w].pc \in {"moving", "repushing", "pushed", "pulling", "repulling"}
    /\ Fail
    /\ Step(w, IdleDrain)
    /\ UNCHANGED <<redis, shop, outcome, gaps, unheard, crashes>>

EndDrain(w) ==
    /\ worker[w].pc \in {"pulling", "repulling"}
    /\ queue = <<>> \/ worker[w].popped = DrainLimit
    /\ Step(w, IdleDrain)
    /\ UNCHANGED <<redis, shop, outcome, notes, crashes>>
-----------------------------------------------------------------------------
\* No account record: the task is dropped.
DropOrphan(w) ==
    /\ AccountsVanish
    /\ worker[w].pc = "popped"
    /\ Report(InHand(w), "dropped")
    /\ Step(w, Released(w))
    /\ UNCHANGED <<redis, shop, notes, crashes>>

\* The platform carries out the call, answered or not.
Carried(t, gen) ==
    /\ Known(t)
    /\ IF t.action = "relist"
       THEN /\ gen \in {t.gen, t.gen + 1} \cap Gen
            /\ listing' = [listing EXCEPT ![t.product] = [gen |-> gen, online |-> TRUE]]
       ELSE /\ gen = t.gen
            /\ listing' = [listing EXCEPT ![t.product].online = FALSE]

\* The call succeeds.  A new item id is written to both tables, uncommitted.
Execute(w) ==
    /\ worker[w].pc = "popped"
    /\ \E gen \in Gen :
         /\ Carried(InHand(w), gen)
         /\ Step(w, [worker[w] EXCEPT !.pc = "executed", !.gen = gen])
    /\ UNCHANGED <<redis, bound, stock, sold, sale, outcome, notes, crashes>>

\* The platform does not know the item id, or refuses, or does it and the
\* answer is lost: relist_and_remap returns None, the offline call fails.
ExecuteFails(w) ==
    /\ worker[w].pc = "popped"
    /\ \/ ~Known(InHand(w)) /\ UNCHANGED listing
       \/ PlatformFails /\ UNCHANGED listing
       \/ PlatformFails /\ \E gen \in Gen : Carried(InHand(w), gen)
    /\ Step(w, [worker[w] EXCEPT !.pc = "failing"])
    /\ UNCHANGED <<redis, bound, stock, sold, sale, outcome, notes, crashes>>

\* remap_item_id raises: the except clause makes the execution a failure.
RemapFails(w) ==
    /\ "remap" \in DatabaseFails
    /\ worker[w].pc = "executed" /\ worker[w].gen # InHand(w).gen
    /\ Step(w, [worker[w] EXCEPT !.pc = "failing", !.gen = 0])
    /\ UNCHANGED <<redis, shop, outcome, notes, crashes>>

\* The commit publishes the new item id where the old one was.
Commit(w) ==
    /\ worker[w].pc = "executed"
    /\ LET t == InHand(w) IN
         /\ bound' = [bound EXCEPT ![t.product] = IF @ = t.gen THEN worker[w].gen ELSE @]
         /\ Report(t, "ok")
    /\ Step(w, Released(w))
    /\ UNCHANGED <<redis, listing, stock, sold, sale, notes, crashes>>

\* Seeded fault: the limit is not checked.
RequeueUnlimited(w) ==
    /\ worker[w].pc = "failing"
    /\ delayed' = delayed \cup {RetryOf(InHand(w))}
    /\ ripe' = ripe \ {RetryOf(InHand(w))}
    /\ Report(InHand(w), "failed")
    /\ Step(w, Released(w))
    /\ UNCHANGED <<queue, shop, notes, crashes>>

\* Seeded fault: the retry count is not raised.
RequeueSameCount(w) ==
    /\ worker[w].pc = "failing" /\ InHand(w).retry < MaxRetry
    /\ delayed' = delayed \cup {InHand(w)}
    /\ ripe' = ripe \ {InHand(w)}
    /\ Report(InHand(w), "failed")
    /\ Step(w, Released(w))
    /\ UNCHANGED <<queue, shop, notes, crashes>>

\* ZADD of the task with its retry count one higher.
Requeue(w) ==
    /\ worker[w].pc = "failing" /\ InHand(w).retry < MaxRetry
    /\ LET t == RetryOf(InHand(w)) IN
         /\ delayed' = delayed \cup {t}
         /\ ripe' = ripe \ {t}
    /\ Report(InHand(w), "failed")
    /\ Step(w, Released(w))
    /\ UNCHANGED <<queue, shop, notes, crashes>>

\* Seeded fault: nobody is told.
DeadLetterSilent(w) ==
    /\ worker[w].pc = "failing" /\ InHand(w).retry >= MaxRetry
    /\ Report(InHand(w), "failed")
    /\ Step(w, Released(w))
    /\ UNCHANGED <<redis, shop, notes, crashes>>

\* notify_dead_letter, which writes a log line.
DeadLetter(w) ==
    /\ worker[w].pc = "failing" /\ InHand(w).retry >= MaxRetry
    /\ outcome' = outcome \cup {<<InHand(w), "failed">>, <<InHand(w), "dead">>}
    /\ Step(w, Released(w))
    /\ UNCHANGED <<redis, shop, notes, crashes>>

\* The account lookup or the commit raises: the drain ends, and the task
\* in hand is in no queue.
Fault(w) ==
    /\ \/ "lookup" \in DatabaseFails /\ worker[w].pc = "popped"
       \/ "commit" \in DatabaseFails /\ worker[w].pc = "executed"
    /\ Report(InHand(w), "fault")
    /\ Step(w, IdleDrain)
    /\ UNCHANGED <<redis, shop, notes, crashes>>

\* So it does when the ZADD raises, carried out or not.
RequeueFails(w) ==
    /\ worker[w].pc = "failing" /\ InHand(w).retry < MaxRetry
    /\ Fail
    /\ LET t == RetryOf(InHand(w)) IN
         \/ delayed' = delayed \cup {t} /\ ripe' = ripe \ {t}
         \/ UNCHANGED <<delayed, ripe>>
    /\ Report(InHand(w), "fault")
    /\ Step(w, IdleDrain)
    /\ UNCHANGED <<queue, shop, gaps, unheard, crashes>>

\* The scheduler dies, with what the drains have in hand, and is started again.
Crash ==
    /\ crashes < MaxCrashes
    /\ crashes' = crashes + 1
    /\ worker' = [w \in Drainer |-> IdleDrain]
    /\ gaps' = gaps \cup {<<InHand(w).product, "died">> :
                            w \in {v \in Drainer : InHand(v) # NoTask}}
    /\ UNCHANGED <<redis, shop, outcome, unheard, faults>>
-----------------------------------------------------------------------------
Move(w) == BeginDrain(w) \/ PushDue(w) \/ PushAgain(w) \/ RemoveDue(w) \/ StartPulling(w)
Work(w) == \/ Pop(w) \/ DropOrphan(w) \/ Execute(w) \/ ExecuteFails(w) \/ RemapFails(w)
           \/ Commit(w) \/ Requeue(w) \/ RequeueFails(w) \/ DeadLetter(w) \/ Fault(w)
           \/ EndDrain(w)
Miss(w) == PopUnheard(w) \/ BreakOff(w)
Deliver(o) == \/ OpenSession(o) \/ TakeOne(o) \/ TakeNone(o) \/ QueueTask(o) \/ QueueFails(o)
              \/ QueueAgain(o) \/ CommitSale(o) \/ AbortSale(o)

Next == \/ \E o \in Order : Buy(o) \/ Deliver(o)
        \/ \E p \in Product : Restock(p)
        \/ \E t \in delayed : Ripen(t)
        \/ \E w \in Drainer : Move(w) \/ Work(w) \/ Miss(w)
        \/ Crash

Spec == Init /\ [][Next]_vars

\* The guard loop runs again and again while the scheduler is up, and time
\* passes; nothing makes anybody buy or restock.
Fairness == /\ \A w \in Drainer : WF_vars(Move(w) \/ Work(w))
            /\ \A t \in Task : WF_vars(Ripen(t))

FairSpec == Spec /\ Fairness
-----------------------------------------------------------------------------
TasksOf(q) == {q[i] : i \in DOMAIN q}
Waiting == TasksOf(queue) \cup delayed
Held == {InHand(w) : w \in Drainer} \ {NoTask}
Live == Waiting \cup Held
Logged(t) == \E what \in Outcome : <<t, what>> \in outcome

(* Every variable keeps its type.                                          *)
TypeOK ==
    /\ queue \in Seq(Task)
    /\ delayed \subseteq Task
    /\ ripe \subseteq delayed
    /\ worker \in [Drainer -> Drain]
    /\ listing \in [Product -> Listing]
    /\ bound \in [Product -> Gen]
    /\ stock \in [Product -> SUBSET Secret]
    /\ sold \in [Product -> SUBSET Secret]
    /\ sale \in [Order -> Sale]
    /\ outcome \subseteq Task \X Outcome
    /\ gaps \subseteq Product \X Cause
    /\ unheard \subseteq Task
    /\ faults \in Nat
    /\ crashes \in Nat

(* Nothing that waits in Redis gets lost, not even when the scheduler dies *)
(* between RPUSH and ZREM: a task goes on waiting, is in hand, or the log  *)
(* says what became of it.  A death loses at most the tasks in hand.  The  *)
(* one gap is the LPOP: a task that was taken by one whose answer was lost *)
(* is gone.                                                                *)
WaitingTasksSurvive ==
    [][ \A t \in Live : \/ t \in Live' \/ Logged(t)' \/ t \in unheard'
                        \/ t \notin Waiting /\ crashes' # crashes ]_vars

(* "Failures go back to the queue with a back-off, and after the maximal   *)
(* number of retries to the dead letters": a task in hand is done, dropped,*)
(* dead, or its next retry is in the queue.                                *)
FailuresRetried ==
    [][ \A w \in Drainer :
          (/\ InHand(w) # NoTask /\ worker[w].pc \notin {"repushing", "pushed"}
           /\ InHand(w)' = NoTask /\ crashes' = crashes)
          => \/ \E what \in {"ok", "dropped", "dead"} : <<InHand(w), what>> \in outcome'
             \/ InHand(w).retry < MaxRetry /\ RetryOf(InHand(w)) \in delayed' ]_vars

\* Nothing is queued or in hand.
Quiet == Live = {}

\* An execution for p failed, broke off or was dropped at some time.
Troubled(p) == \E t \in Task, what \in {"failed", "fault", "dropped"} :
                 t.product = p /\ <<t, what>> \in outcome

\* p met one of the gaps by which an offline task is missing or comes early.
Met(p, causes) == \E c \in causes : <<p, c>> \in gaps

(* When the queue has been worked off, a product with nothing to sell is   *)
(* not on sale: the task of its last sale has the last word.  It takes a   *)
(* failed execution, a task lost with an answer or a death, or one of the  *)
(* gaps of EmptyRelistIsLate to leave it there.                            *)
SoldOutItemIsOffline ==
    Quiet => \A p \in Product :
               stock[p] = {} /\ ~Troubled(p) /\ ~Met(p, Cause) => ~listing[p].online

(* "Nothing in stock and still selling" has these causes and no other:     *)
(* whoever puts an empty product on sale retries a relisting that failed   *)
(* before, or the offline task is still to come; or a sale counted a       *)
(* secret that another had taken, the last secret was sold on the path     *)
(* that queues no task, the push of its task failed, or a second drain     *)
(* took the offline task while the relisting before it was under way.      *)
EmptyRelistIsLate ==
    [][ \A p \in Product :
          stock[p] = {} /\ ~listing[p].online /\ listing'[p].online =>
            \/ \E t \in Held : t.product = p /\ t.retry > 0
            \/ \E t \in Waiting : t.product = p /\ t.action = "offline"
            \/ Met(p, {"stale", "plain", "unqueued", "overtaken"}) ]_vars

(* No task stays in the system for ever: a platform that keeps refusing    *)
(* ends in dead letters.                                                   *)
TasksLeave == \A t \in Task : t \in Live ~> t \notin Live
=============================================================================
