---------------------------- MODULE OrderDelivery ---------------------------
(***************************************************************************)
(* One paid order and everybody who may deliver it: the handler coroutines *)
(* that messages about the order start (_handle_auto_delivery), the passes *)
(* of the scheduler (_process_order) and the seller's button, which both   *)
(* post to the deliver endpoint (deliver_order), each in its own process.  *)
(*                                                                         *)
(* What keeps them apart: a Redis lock with a time to live, which handlers *)
(* and scheduler take and the button does not; a hold, a cooldown and a    *)
(* note of the confirmation in the memory of the handlers' process; the    *)
(* status in the database; and the platform, which confirms an order once. *)
(*                                                                         *)
(* The order is for one piece, and the pre-check allows it.  Taking a      *)
(* secret is one step here; CardSecretStock opens it up.                   *)
(***************************************************************************)
EXTENDS Naturals, FiniteSets

CONSTANTS Handler,       \* the coroutines that may run for the order
          Scheduled,     \* the scheduler's redelivery loop (one, or none)
          Manual,        \* the seller's button (one, or none)
          Settings,      \* the account settings to consider
          MaxSecrets,    \* bound on the secrets of the card
          MaxPosts,      \* max_retries of the HTTP client, 3 in the code
          MaxMessages,   \* bound on the messages about the order and the clicks
          MaxRestarts,   \* bound on the deaths of the processes
          Dying,         \* the processes that may die, of {"websocket", "scheduler"}
          Slow,          \* may the lock expire while its holder works?
          RedisFails,    \* may a call to Redis fail?
          PlatformFails, \* how a platform call may fail, of {"refused", "lost"}
          SendFails,     \* how a message may fail, of {"rejected", "reported", "silent"}
          DatabaseFails, \* may an access to the order or the secrets fail?
          HttpFails,     \* may a post time out or its answer be lost?
          SellerShips,   \* may the seller ship the order on the platform?
          Free           \* no holder

Caller == Scheduled \cup Manual
Post == Caller \X (1..MaxPosts)        \* the requests, each its own coroutine
Deliverer == Handler \cup Post
Locker == Handler \cup Scheduled

AllSettings == [auto : BOOLEAN, confirmOnly : BOOLEAN, sendFirst : BOOLEAN]

ASSUME DeliveryAssumption ==
    /\ Handler \cap Caller = {} /\ Scheduled \cap Manual = {} /\ Deliverer \cap Caller = {}
    /\ Handler \cap Post = {} /\ Free \notin Locker
    /\ Settings \subseteq AllSettings
    /\ MaxMessages \in Nat /\ MaxRestarts \in Nat
    /\ MaxSecrets \in Nat \ {0} /\ MaxPosts \in Nat \ {0}
    /\ SendFails \subseteq {"rejected", "reported", "silent"}
    /\ PlatformFails \subseteq {"refused", "lost"}
    /\ Dying \subseteq {"websocket", "scheduler"}
    /\ {Slow, RedisFails, DatabaseFails, HttpFails, SellerShips} \subseteq BOOLEAN

VARIABLES settings,  \* of the account
          status,    \* of the order in the database
          recorded,  \* delivery_content of the order names the secret
          confirmed, \* the platform has the order as shipped
          stock,     \* secrets for sale
          lock,      \* the Redis key
          held,      \* _lock_hold_info, ten minutes
          cooled,    \* last_delivery_time, a minute
          noted,     \* confirmed_orders, five minutes
          pc,        \* where each actor is
          acquired,  \* redis_lock_acquired of each locker
          answer,    \* the last answer each deliverer has, or gives
          turn,      \* the post each caller is at
          taken,     \* history: secrets taken for the order
          sent,      \* history: secrets that reached the buyer
          excuse,    \* history, goods first: what had the order shipped without
          messages,  \* messages and clicks so far
          restarts   \* deaths so far

memory == <<held, cooled, noted>>
order == <<status, recorded, confirmed, stock>>
history == <<taken, sent, excuse>>
bounds == <<settings, messages, restarts>>
local == <<acquired, answer, turn>>
vars == <<order, lock, memory, pc, local, history, bounds>>
-----------------------------------------------------------------------------
Goto(a, place) == pc' = [pc EXCEPT ![a] = place]

Answers(d, what) == answer' = [answer EXCEPT ![d] = what]

\* A deliverer that is done: a request answers, and a handler releases the
\* lock.  (That it was told "shipped already" is kept for the properties.)
End(d, what) ==
    IF d \in Handler
    THEN Goto(d, "leaving") /\ Answers(d, IF what = "shipped" THEN what ELSE "none")
    ELSE Goto(d, "replied") /\ Answers(d, what)

Continue(d, place) == Goto(d, place) /\ UNCHANGED answer

Init ==
    /\ settings \in Settings
    /\ status = "pending" /\ recorded = FALSE /\ confirmed = FALSE
    /\ stock \in 0..MaxSecrets /\ lock = Free
    /\ held = FALSE /\ cooled = FALSE /\ noted = FALSE
    /\ pc = [a \in Deliverer \cup Caller |-> "idle"]
    /\ acquired = [a \in Locker |-> FALSE]
    /\ answer = [d \in Deliverer |-> "none"]
    /\ turn = [c \in Caller |-> 1]
    /\ taken = 0 /\ sent = 0 /\ excuse = "none" /\ messages = 0 /\ restarts = 0
-----------------------------------------------------------------------------
\* A message about the order: the first two checks, before the lock.
Receive(h) ==
    /\ pc[h] = "idle" /\ messages < MaxMessages
    /\ ~held /\ ~cooled
    /\ messages' = messages + 1
    /\ Goto(h, "waiting")
    /\ UNCHANGED <<order, lock, memory, local, history, settings, restarts>>

\* The scheduler reads the order into its session.
BeginPass(c) ==
    /\ c \in Scheduled
    /\ pc[c] = "idle"
    /\ settings.auto /\ status = "pending"
    /\ Goto(c, "waiting")
    /\ UNCHANGED <<order, lock, memory, local, history, bounds>>

\* The seller clicks.
Click(c) ==
    /\ c \in Manual
    /\ pc[c] = "idle" /\ messages < MaxMessages
    /\ messages' = messages + 1
    /\ Goto(c, "posting")
    /\ turn' = [turn EXCEPT ![c] = 1]
    /\ UNCHANGED <<order, lock, memory, acquired, answer, history, settings, restarts>>
-----------------------------------------------------------------------------
\* Seeded fault: SET without NX.
AcquireAnyway(a) ==
    /\ pc[a] = "waiting"
    /\ lock' = a
    /\ acquired' = [acquired EXCEPT ![a] = TRUE]
    /\ Goto(a, "inside")
    /\ UNCHANGED <<order, memory, answer, turn, history, bounds>>

\* SET NX EX: the key is set if nobody has it.
Acquire(a) ==
    /\ pc[a] = "waiting" /\ lock = Free
    /\ lock' = a
    /\ acquired' = [acquired EXCEPT ![a] = TRUE]
    /\ Goto(a, "inside")
    /\ UNCHANGED <<order, memory, answer, turn, history, bounds>>

\* Somebody had it for five seconds.
GiveUp(a) ==
    /\ pc[a] = "waiting" /\ lock # Free
    /\ Goto(a, "idle")
    /\ UNCHANGED <<order, lock, memory, local, history, bounds>>

\* Redis does not answer: on without the lock.  The SET may have been done.
Degrade(a) ==
    /\ RedisFails
    /\ pc[a] = "waiting"
    /\ lock' \in IF lock = Free THEN {Free, a} ELSE {lock}
    /\ Goto(a, "inside")
    /\ UNCHANGED <<order, memory, local, history, bounds>>

\* finally: the key is deleted if it still holds this attempt's value.
Leave(a) ==
    /\ pc[a] = "leaving"
    /\ \/ lock' = IF acquired[a] /\ lock = a THEN Free ELSE lock
       \/ RedisFails /\ acquired[a] /\ UNCHANGED lock
    /\ acquired' = [acquired EXCEPT ![a] = FALSE]
    /\ Goto(a, "idle")
    /\ UNCHANGED <<order, memory, answer, turn, history, bounds>>

\* The requests a locker has under way.
PostsOf(a) == {p \in Post : p[1] = a /\ pc[p] # "idle"}

\* 120 seconds are over.  Nothing ever extends the lock.
Expire ==
    /\ lock # Free
    /\ Slow \/ (pc[lock] \in {"idle", "waiting"} /\ PostsOf(lock) = {})
    /\ lock' = Free
    /\ UNCHANGED <<order, memory, pc, local, history, bounds>>
-----------------------------------------------------------------------------
\* Seeded fault: the database is not asked.
RecheckMemory(h) ==
    /\ pc[h] = "inside"
    /\ Continue(h, IF held \/ cooled THEN "leaving" ELSE "deciding")
    /\ UNCHANGED <<order, lock, memory, acquired, turn, history, bounds>>

\* The third and fourth check.  The database is asked only under the lock,
\* and when it fails the delivery goes on.
Recheck(h) ==
    /\ pc[h] = "inside"
    /\ LET shipped == acquired[h] /\ status = "shipped" IN
         \/ (held \/ cooled \/ shipped) /\ Continue(h, "leaving")
         \/ ~held /\ ~cooled /\ (shipped => DatabaseFails) /\ Continue(h, "deciding")
    /\ UNCHANGED <<order, lock, memory, acquired, turn, history, bounds>>

\* The secret is taken without a confirmation first: the settings say so,
\* or a handler got it in the last five minutes.
NoConfirm(d) ==
    \/ settings.sendFirst /\ settings.auto
    \/ ~settings.sendFirst /\ ~settings.auto /\ ~(d \in Handler /\ settings.confirmOnly)
    \/ ~settings.sendFirst /\ settings.auto /\ d \in Handler /\ noted

\* Nothing is delivered: a confirmation is required and switched off.  The
\* endpoint does not look at confirmOnly here.
Forbidden(d) ==
    /\ ~settings.auto
    /\ settings.sendFirst \/ (d \in Handler /\ settings.confirmOnly)

Decide(d) ==
    /\ pc[d] = "deciding"
    /\ IF Forbidden(d) THEN End(d, "failed")
       ELSE /\ Goto(d, IF NoConfirm(d) THEN "taking" ELSE "confirming")
            /\ Answers(d, "none")
    /\ UNCHANGED <<order, lock, memory, acquired, turn, history, bounds>>

\* Turned away before anything is done: no connection to the platform, no
\* card for the item, an item or an order that is not found.
Refuse(d) ==
    /\ "refused" \in PlatformFails \/ DatabaseFails
    /\ pc[d] = "deciding"
    /\ End(d, "failed")
    /\ UNCHANGED <<order, lock, memory, acquired, turn, history, bounds>>

\* auto_confirm as the caller sees it: retries are inside, and a retry of a
\* call that was carried out is told that the order is shipped already.
PlatformConfirms(what) ==
    \/ ~confirmed /\ what = "success" /\ confirmed' = TRUE
    \/ confirmed /\ what = "already" /\ UNCHANGED confirmed
    \/ "lost" \in PlatformFails /\ what = "already" /\ confirmed' = TRUE
    \/ "refused" \in PlatformFails /\ what = "error" /\ confirmed' \in {confirmed, TRUE}

Confirm(d) ==
    /\ pc[d] = "confirming"
    /\ \E what \in {"success", "already", "error"} :
         /\ PlatformConfirms(what)
         /\ Answers(d, what)
    /\ Goto(d, "answered")
    /\ UNCHANGED <<status, recorded, stock, lock, memory, acquired, turn, history, bounds>>

\* A handler notes the confirmation; "already" ends the delivery, and the
\* handler's update of the order fails there on an undefined name.
Confirmed(d) ==
    /\ pc[d] = "answered"
    /\ answer[d] \in {"success", "already"}
    /\ IF answer[d] = "success" THEN Continue(d, "taking") ELSE End(d, "shipped")
    /\ noted' = (noted \/ d \in Handler)
    /\ cooled' = (cooled \/ (d \in Handler /\ answer[d] = "already"))
    /\ UNCHANGED <<order, lock, held, acquired, turn, history, bounds>>

\* Seeded fault: goods without the confirmation that is required.
NotConfirmedAnyway(d) ==
    /\ pc[d] = "answered" /\ answer[d] = "error"
    /\ Continue(d, "taking")
    /\ UNCHANGED <<order, lock, memory, acquired, turn, history, bounds>>

NotConfirmed(d) ==
    /\ pc[d] = "answered" /\ answer[d] = "error"
    /\ IF settings.confirmOnly THEN End(d, "failed") ELSE Continue(d, "taking")
    /\ UNCHANGED <<order, lock, memory, acquired, turn, history, bounds>>

\* take_one and the commit.
Take(d) ==
    /\ pc[d] = "taking" /\ stock > 0
    /\ stock' = stock - 1
    /\ taken' = taken + 1
    /\ Continue(d, "sending")
    /\ UNCHANGED <<status, recorded, confirmed, lock, memory, acquired, turn, sent, excuse, bounds>>

TakeFails(d) ==
    /\ pc[d] = "taking"
    /\ stock = 0 \/ DatabaseFails
    /\ End(d, "failed")
    /\ UNCHANGED <<order, lock, memory, acquired, turn, history, bounds>>

\* Who is told that a message failed.  The platform rejects it in time, and
\* both paths wait for that; the helper reports that no attempt got through,
\* and the endpoint throws the result for a text away; or the message is
\* written to the connection and is lost, or is rejected too late.
Noticed(d, how) == how = "rejected" \/ (how = "reported" /\ d \in Handler)

\* Seeded fault: a failed message does not stop the confirmation.
ConfirmAfter(d, how) == settings.sendFirst

ConfirmNext(d, how) == settings.sendFirst /\ ~Noticed(d, how)

\* A handler marks the order and holds it, then sends; a request only sends.
\* (That a message failed unnoticed is kept for the properties.)
Send(d) ==
    /\ pc[d] = "sending"
    /\ \E how \in {"delivered"} \cup SendFails :
         /\ sent' = IF how = "delivered" THEN sent + 1 ELSE sent
         /\ Goto(d, IF ConfirmNext(d, how) THEN "closing" ELSE "recording")
         /\ Answers(d, IF settings.sendFirst /\ how # "delivered" /\ ~Noticed(d, how)
                        THEN "unsent" ELSE "none")
    /\ held' = (held \/ d \in Handler)
    /\ cooled' = (cooled \/ d \in Handler)
    /\ UNCHANGED <<order, lock, noted, acquired, turn, taken, excuse, bounds>>

\* Confirmation after the goods: a failure is only written down.
ConfirmSent(d) ==
    /\ pc[d] = "closing"
    /\ \E what \in {"success", "already", "error"} : PlatformConfirms(what)
    /\ excuse' = IF confirmed' /\ ~confirmed /\ answer[d] = "unsent" THEN "unnoticed" ELSE excuse
    /\ Continue(d, "recording")
    /\ UNCHANGED <<status, recorded, stock, lock, memory, acquired, turn, taken, sent, bounds>>

\* Seeded fault: the status is written and the content is not.
RecordStatus(d) ==
    /\ pc[d] = "recording"
    /\ status' = "shipped"
    /\ End(d, "delivered")
    /\ UNCHANGED <<recorded, confirmed, stock, lock, memory, acquired, turn, history, bounds>>

\* The order is written as shipped with the secret as its content, whatever
\* became of the message; an error there is swallowed.
Record(d) ==
    /\ pc[d] = "recording"
    /\ \/ status' = "shipped" /\ recorded' = TRUE
       \/ DatabaseFails /\ UNCHANGED <<status, recorded>>
    /\ End(d, "delivered")
    /\ UNCHANGED <<confirmed, stock, lock, memory, acquired, turn, history, bounds>>
-----------------------------------------------------------------------------
\* Seeded fault: what the platform has as shipped is left pending.
SyncNothing(c) ==
    /\ pc[c] = "inside" /\ confirmed
    /\ Goto(c, "leaving")
    /\ UNCHANGED <<order, lock, memory, local, history, bounds>>

\* check_can_ship.  The check of the status before it sees the row as the
\* pass read it, hence pending: the session keeps its copy.  What the
\* platform has as shipped becomes shipped in the database.
SyncShipped(c) ==
    /\ pc[c] = "inside" /\ confirmed
    /\ status' \in {"shipped"} \cup IF DatabaseFails THEN {status} ELSE {}
    /\ Goto(c, "leaving")
    /\ UNCHANGED <<recorded, confirmed, stock, lock, memory, local, history, bounds>>

CannotAsk(c) ==
    /\ "refused" \in PlatformFails
    /\ pc[c] = "inside"
    /\ Goto(c, "leaving")
    /\ UNCHANGED <<order, lock, memory, local, history, bounds>>

CanShip(c) ==
    /\ pc[c] = "inside" /\ ~confirmed
    /\ Goto(c, "posting")
    /\ turn' = [turn EXCEPT ![c] = 1]
    /\ UNCHANGED <<order, lock, memory, acquired, answer, history, bounds>>

Current(c) == <<c, turn[c]>>

\* The request starts.  (An earlier one with this number has ended.)
StartPost(c) ==
    /\ pc[c] = "posting" /\ pc[Current(c)] = "idle"
    /\ pc' = [pc EXCEPT ![c] = "awaiting", ![Current(c)] = "deciding"]
    /\ UNCHANGED <<order, lock, memory, local, history, bounds>>

\* No answer in thirty seconds, or the connection breaks: the client posts
\* again, and the request that got through goes on.
PostFails(c) ==
    /\ \/ HttpFails /\ pc[c] \in {"posting", "awaiting"}
       \/ pc[c] = "awaiting" /\ pc[Current(c)] = "idle"
    /\ IF turn[c] < MaxPosts
       THEN Goto(c, "posting") /\ turn' = [turn EXCEPT ![c] = @ + 1]
       ELSE Goto(c, IF c \in Scheduled THEN "leaving" ELSE "idle") /\ UNCHANGED turn
    /\ UNCHANGED <<order, lock, memory, acquired, answer, history, bounds>>

\* The answer arrives.  "Shipped already" is a success, without a content.
Hear(c) ==
    /\ pc[c] = "awaiting" /\ pc[Current(c)] = "replied"
    /\ LET what == answer[Current(c)]
           next == IF c \in Manual THEN "idle" ELSE
                   CASE what = "delivered" -> "settling"
                     [] what = "shipped" -> "adopting"
                     [] OTHER -> "leaving" IN
         pc' = [pc EXCEPT ![c] = next, ![Current(c)] = "idle"]
    /\ Answers(Current(c), "none")
    /\ UNCHANGED <<order, lock, memory, acquired, turn, history, bounds>>

\* Nobody listens any more.
Unheard(p) ==
    /\ pc[p] = "replied"
    /\ ~(pc[p[1]] = "awaiting" /\ Current(p[1]) = p)
    /\ Goto(p, "idle")
    /\ Answers(p, "none")
    /\ UNCHANGED <<order, lock, memory, acquired, turn, history, bounds>>

\* After a success the scheduler writes the order as shipped, with the
\* content of the answer: none at all if it was shipped already.
Settle(c) ==
    /\ pc[c] \in {"settling", "adopting"}
    /\ \/ status' = "shipped" /\ recorded' = (pc[c] = "settling")
       \/ DatabaseFails /\ UNCHANGED <<status, recorded>>
    /\ Goto(c, "leaving")
    /\ UNCHANGED <<confirmed, stock, lock, memory, local, history, bounds>>
-----------------------------------------------------------------------------
\* Timers.  The cooldown and the note outlast the five seconds of a wait;
\* the hold outlasts both, set no later, and an attempt that is not slow.
NobodyWaits == \A h \in Handler : pc[h] \notin {"waiting", "inside"}

CooldownEnds ==
    /\ cooled /\ NobodyWaits /\ cooled' = FALSE
    /\ UNCHANGED <<order, lock, held, noted, pc, local, history, bounds>>

NoteEnds ==
    /\ noted /\ NobodyWaits /\ noted' = FALSE
    /\ UNCHANGED <<order, lock, held, cooled, pc, local, history, bounds>>

HoldEnds ==
    /\ held /\ ~cooled /\ ~noted
    /\ Slow \/ \A h \in Handler : pc[h] \in {"idle", "waiting"}
    /\ held' = FALSE
    /\ UNCHANGED <<order, lock, cooled, noted, pc, local, history, bounds>>

\* The seller adds a secret.
Restock ==
    /\ stock + taken < MaxSecrets
    /\ stock' = stock + 1
    /\ UNCHANGED <<status, recorded, confirmed, lock, memory, pc, local, history, bounds>>

\* The seller ships the order in the platform's own application.
ShipByHand ==
    /\ SellerShips /\ ~confirmed
    /\ confirmed' = TRUE
    /\ excuse' = IF settings.sendFirst THEN "seller" ELSE excuse
    /\ UNCHANGED <<status, recorded, stock, lock, memory, pc, local, taken, sent, bounds>>

\* The process of the handlers and the endpoint dies: its memory is gone,
\* the lock is not.
Restart ==
    /\ "websocket" \in Dying /\ restarts < MaxRestarts
    /\ restarts' = restarts + 1
    /\ pc' = [a \in DOMAIN pc |-> IF a \in Deliverer THEN "idle" ELSE pc[a]]
    /\ acquired' = [a \in Locker |-> IF a \in Handler THEN FALSE ELSE acquired[a]]
    /\ answer' = [d \in Deliverer |-> "none"]
    /\ held' = FALSE /\ cooled' = FALSE /\ noted' = FALSE
    /\ UNCHANGED <<order, lock, turn, history, settings, messages>>

\* The scheduler dies; a request of its goes on.
SchedulerRestart ==
    /\ "scheduler" \in Dying /\ restarts < MaxRestarts
    /\ restarts' = restarts + 1
    /\ pc' = [a \in DOMAIN pc |-> IF a \in Scheduled THEN "idle" ELSE pc[a]]
    /\ acquired' = [a \in Locker |-> IF a \in Scheduled THEN FALSE ELSE acquired[a]]
    /\ UNCHANGED <<order, lock, memory, answer, turn, history, settings, messages>>
-----------------------------------------------------------------------------
Locking(a) == Acquire(a) \/ GiveUp(a) \/ Degrade(a) \/ Leave(a)

Delivering(d) == \/ Decide(d) \/ Refuse(d) \/ Confirm(d) \/ Confirmed(d)
                 \/ NotConfirmed(d) \/ Take(d) \/ TakeFails(d) \/ Send(d) \/ ConfirmSent(d) \/ Record(d)

Calling(c) == StartPost(c) \/ PostFails(c) \/ Hear(c)

Passing(c) == \/ BeginPass(c) \/ SyncShipped(c) \/ CannotAsk(c) \/ CanShip(c)
              \/ Settle(c)

Timers == CooldownEnds \/ NoteEnds \/ HoldEnds

Next == \/ \E h \in Handler : Receive(h) \/ Recheck(h)
        \/ \E a \in Locker : Locking(a)
        \/ \E d \in Deliverer : Delivering(d)
        \/ \E p \in Post : Unheard(p)
        \/ \E c \in Caller : Calling(c)
        \/ \E c \in Scheduled : Passing(c)
        \/ \E c \in Manual : Click(c)
        \/ Expire \/ Timers \/ Restock \/ ShipByHand \/ Restart \/ SchedulerRestart

Spec == Init /\ [][Next]_vars

\* Coroutines go on, the scheduler's loop runs every five seconds, and time
\* passes; nobody need write, click or restock.
Fairness ==
    /\ \A h \in Handler : WF_vars(Recheck(h) \/ Locking(h) \/ Delivering(h))
    /\ \A p \in Post : WF_vars(Delivering(p) \/ Unheard(p))
    /\ \A c \in Scheduled : WF_vars(Locking(c) \/ Passing(c) \/ Calling(c))
    /\ \A c \in Manual : WF_vars(Calling(c))
    /\ WF_vars(Expire) /\ WF_vars(Timers)

FairSpec == Spec /\ Fairness
-----------------------------------------------------------------------------
Place == {"idle", "waiting", "inside", "deciding", "confirming", "answered", "taking",
          "sending", "closing", "recording", "leaving", "replied", "posting",
          "awaiting", "settling", "adopting"}
Answer == {"none", "success", "already", "error", "failed", "shipped", "delivered",
           "unsent"}

(* Every variable keeps its type.                                          *)
TypeOK ==
    /\ settings \in Settings
    /\ status \in {"pending", "shipped"}
    /\ stock \in 0..MaxSecrets /\ stock + taken <= MaxSecrets
    /\ recorded \in BOOLEAN /\ confirmed \in BOOLEAN /\ held \in BOOLEAN
    /\ cooled \in BOOLEAN /\ noted \in BOOLEAN
    /\ lock \in Locker \cup {Free}
    /\ pc \in [Deliverer \cup Caller -> Place]
    /\ acquired \in [Locker -> BOOLEAN]
    /\ answer \in [Deliverer -> Answer]
    /\ turn \in [Caller -> 1..MaxPosts]
    /\ taken \in Nat /\ sent \in Nat /\ excuse \in {"none", "seller", "unnoticed"}
    /\ messages \in 0..MaxMessages /\ restarts \in 0..MaxRestarts

(* The buyer of an order gets one secret, whoever delivers it, retries,    *)
(* clicks or dies.                                                         *)
IssuedOnce == taken <= 1

(* At most one of the handlers and the scheduler works under the lock.     *)
LockExcludes ==
    \A a, b \in Locker : acquired[a] /\ acquired[b] => a = b

(* The database has an order as shipped only if a secret was taken for it  *)
(* or the platform has it as shipped.                                      *)
ShippedForAReason == status = "shipped" => taken > 0 \/ confirmed

(* "Secret first, confirmation after it was sent": with this setting an    *)
(* order that the platform has as shipped has reached the buyer, but where *)
(* the seller shipped it by hand, or the deliverer who told the platform   *)
(* had sent a message whose failure it did not notice.                     *)
ConfirmedAfterGoods ==
    settings.sendFirst /\ confirmed => sent > 0 \/ excuse \in {"seller", "unnoticed"}

(* "Every secret that was taken can be traced through the delivery_content *)
(* of its order": once whoever took it is done, the order names it.        *)
Traceable ==
    taken > 0 /\ (\A d \in Deliverer : pc[d] \notin {"sending", "closing", "recording"})
      => recorded

\* Who has acquired the lock has it, and is under way: if no lock expires
\* under its holder, what LockExcludes needs.
LockInv ==
    \A a \in Locker : acquired[a] => lock = a /\ pc[a] \notin {"idle", "waiting"}

\* What each place and answer says about the secrets and the platform: what
\* ShippedForAReason needs.
ReasonInv ==
    /\ ShippedForAReason
    /\ \A d \in Deliverer :
         /\ pc[d] \in {"sending", "closing", "recording"} => taken > 0
         /\ pc[d] = "answered" /\ answer[d] \in {"success", "already"} => confirmed
         /\ pc[d] = "replied" =>
              \/ answer[d] = "failed"
              \/ answer[d] = "delivered" /\ taken > 0
              \/ answer[d] = "shipped" /\ confirmed
    /\ \A c \in Scheduled : pc[c] \in {"settling", "adopting"} => taken > 0 \/ confirmed

\* With "secret first" who is about to tell the platform has sent the goods,
\* or believes so: what ConfirmedAfterGoods needs.
GoodsFirstInv ==
    settings.sendFirst =>
      /\ confirmed => sent > 0 \/ excuse \in {"seller", "unnoticed"}
      /\ \A d \in Deliverer : /\ pc[d] \notin {"confirming", "answered"}
                              /\ pc[d] = "closing" => sent > 0 \/ answer[d] = "unsent"

\* Nobody works without the lock: a locker at work has acquired it, and
\* while a request of the scheduler is under way the key stays the
\* scheduler's, also when the scheduler died meanwhile.
UnderLock ==
    /\ \A a \in Locker : pc[a] \notin {"idle", "waiting"} => acquired[a]
    /\ \A p \in Post : pc[p] # "idle" =>
         /\ lock = p[1]
         /\ \/ pc[p[1]] \in {"idle", "waiting"}
            \/ pc[p[1]] = "awaiting" /\ p = Current(p[1])
    /\ \A p, q \in Post : pc[p] # "idle" /\ pc[q] # "idle" => p = q
    /\ \A c \in Scheduled : pc[c] = "awaiting" => pc[Current(c)] # "idle"

\* A secret is taken only for a confirmed order, once, and whoever took it
\* writes the order as shipped, with the secret; nobody who was told that
\* the order is shipped overwrites it.  What IssuedOnce and Traceable need.
OnceInv ==
    /\ IssuedOnce
    /\ noted \/ taken > 0 => confirmed
    /\ \A d \in Deliverer :
         /\ pc[d] \in {"deciding", "confirming", "answered", "taking"} => taken = 0
         /\ pc[d] = "taking" => confirmed
         /\ pc[d] = "answered" /\ answer[d] \in {"success", "already"} => confirmed
         /\ pc[d] = "replied" /\ answer[d] = "shipped" => taken = 0
    /\ \A c \in Scheduled : pc[c] \in {"posting", "adopting"} => taken = 0
    /\ taken > 0 => \/ status = "shipped" /\ recorded
                    \/ \E d \in Deliverer : pc[d] \in {"sending", "recording"}

(* An attempt that outlived its lock does not delete its successor's.      *)
NoForeignRelease ==
    [][ \A a \in Locker : pc[a] = "leaving" /\ pc'[a] = "idle" /\ restarts' = restarts
                            => lock' \in {lock, IF lock = a THEN Free ELSE lock} ]_vars

(* An order of an account with automatic confirmation does not stay        *)
(* pending for ever where the platform is told first: a delivery that went *)
(* wrong half way is settled by the scheduler.                             *)
OrderSettles == settings.auto /\ ~settings.sendFirst ~> status = "shipped"
=============================================================================
