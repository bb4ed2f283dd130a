----------------------------- MODULE AccountTasks -----------------------------
(***************************************************************************)
(* The task that keeps one account connected, and the calls that start,    *)
(* stop and restart it: CookieManager, the start / stop / restart          *)
(* endpoints, update_cookie after a password login, and the restart an     *)
(* instance asks for itself.  CookieManager keeps everything per account,  *)
(* so one account is the whole of it.                                      *)
(*                                                                         *)
(* Coroutines take turns at their awaits: a call that is "going" or has    *)
(* "entered" the lock at once goes on before anybody else does.  A         *)
(* cancelled coroutine sees the cancellation when it next runs; one that   *)
(* never ran simply ends.                                                  *)
(*                                                                         *)
(* The cookie's value, the keywords and the switches kept in memory are    *)
(* left out, and so is the deletion of an account.                         *)
(***************************************************************************)
EXTENDS Naturals, Sequences, FiniteSets

CONSTANTS Start,    \* calls of the start endpoint
          Stop,     \* calls of the stop endpoint, after the account was disabled
          Restart,  \* calls of the restart endpoint: a stop ...
          AddOf,    \* ... and the start scheduled right after it
          Update,   \* calls of update_cookie
          Renew,    \* restarts an instance schedules for itself
          Slow,     \* may a run take longer to end than a stop waits for it?
          NoRun, NoLock

Bare == Update \cup Renew        \* these stop without the lock, then add with it
Second == {AddOf[c] : c \in Restart}
Adding == Start \cup Second \cup Bare
Removing == Stop \cup Restart
Call == Adding \cup Removing

ASSUME AccountAssumption ==
    /\ AddOf \in [Restart -> Second]
    /\ \A c, d \in Restart : AddOf[c] = AddOf[d] => c = d
    /\ Adding \cap Removing = {} /\ Start \cap (Second \cup Bare) = {}
    /\ Second \cap Bare = {} /\ Update \cap Renew = {} /\ Stop \cap Restart = {}
    /\ NoRun \notin Call /\ NoLock \notin Call /\ Slow \in BOOLEAN

VARIABLES account,    \* status of the account in the database
          asking,     \* calls of the user's switch the web backend has not heard of
          tasks,      \* the manager's task: the call that created it
          instances,  \* the manager's instance
          registered, \* XianyuAsync._instances
          state,      \* where each task is
          asked,      \* tasks whose cancellation has been asked for and not seen
          taskLock,   \* the lock in _task_locks: the call that created it
          line,       \* who has each lock, and who waits for it
          lockOf,     \* the lock a call uses
          pc,         \* where each call is
          old,        \* the task a call waits for
          lapses      \* history: the gaps of the calls' exclusion met so far

backend == <<account, asking>>
manager == <<tasks, instances, registered>>
locks == <<taskLock, line, lockOf>>
vars == <<backend, manager, state, asked, locks, pc, old, lapses>>
-----------------------------------------------------------------------------
Init ==
    /\ account \in {"active", "disabled"}
    /\ asking = {}
    /\ tasks = NoRun /\ instances = NoRun /\ registered = NoRun
    /\ state = [r \in Adding |-> "none"]
    /\ asked = {}
    /\ taskLock = NoLock
    /\ line = [l \in Call |-> <<>>]
    /\ lockOf = [c \in Call |-> NoLock]
    /\ pc = [c \in Call |-> "new"]
    /\ old = [c \in Call |-> NoRun]
    /\ lapses = {}

\* Has the coroutine of a call the event loop, and has nobody?
Going(c) == pc[c] \in {"going", "entered"}
Quiet == \A c \in Call : ~Going(c)

At(c, places) == pc[c] \in places /\ \A d \in Call : Going(d) => d = c

\* A task that goes on by itself.
Ready(r, places) == state[r] \in places /\ r \notin asked /\ Quiet

Goto(c, place) == pc' = [pc EXCEPT ![c] = place]
Become(r, place) == state' = [state EXCEPT ![r] = place]

\* task.done()
Ended(r) == state[r] = "done"
NoTask == tasks \in {NoRun} \cup {r \in Adding : Ended(r)}
-----------------------------------------------------------------------------
(* The calls.  The database is written first, then the request is sent: by *)
(* the user's switch if the status differs, or after new cookies came.     *)
Send(c) ==
    /\ pc[c] = "new" /\ Quiet
    /\ \/ c \in Start \cup Update /\ account' = "active" /\ UNCHANGED asking
       \/ c \in Start /\ account = "disabled" /\ account' = "active" /\ asking' = asking \cup {c}
       \/ c \in Stop /\ account = "active" /\ account' = "disabled" /\ asking' = asking \cup {c}
       \/ c \in Restart /\ UNCHANGED backend
    /\ Goto(c, "sent")
    /\ UNCHANGED <<manager, state, asked, locks, old, lapses>>

\* Of the endpoints the start awaits the manager's coroutine, the others only
\* schedule it; update_cookie's begins with a stop.
FirstPlace(c) == IF c \in Update THEN "bare" ELSE IF c \in Start THEN "going" ELSE "called"

Arrive(c) ==
    /\ At(c, {"sent"})
    /\ pc' = IF c \in Restart
             THEN [pc EXCEPT ![c] = "called", ![AddOf[c]] = "called"]
             ELSE [pc EXCEPT ![c] = FirstPlace(c)]
    /\ asking' = asking \ (Stop \cap {c})
    /\ UNCHANGED <<account, manager, state, asked, locks, old, lapses>>

\* restart_instance: an instance that got new cookies schedules its restart.
\* Two seconds later it runs, whatever has become of the instance.
Schedule(c) ==
    /\ pc[c] = "new" /\ c \in Renew /\ Quiet
    /\ \E r \in Adding : state[r] \in {"connecting", "connected"}
    /\ Goto(c, "bare")
    /\ UNCHANGED <<backend, manager, state, asked, locks, old, lapses>>

\* A start is answered when it is done (a stop at once, when it is scheduled).
Hear(c) ==
    /\ c \in asking /\ pc[c] = "done" /\ Quiet
    /\ asking' = asking \ {c}
    /\ UNCHANGED <<account, manager, state, locks, asked, pc, old, lapses>>

\* No answer came, the request may have come or not: the switch goes back.
PutBack(c) ==
    /\ c \in asking /\ Quiet
    /\ account' = IF c \in Start THEN "disabled" ELSE "active"
    /\ asking' = asking \ {c}
    /\ \/ UNCHANGED pc
       \/ pc[c] = "sent" /\ Goto(c, "done")
    /\ lapses' = lapses \cup IF c \in Start THEN {"unheard"} ELSE {}
    /\ UNCHANGED <<manager, state, locks, asked, old>>
-----------------------------------------------------------------------------
(* _stop_task_async, which takes no lock.                                  *)
StopNow(c) ==
    /\ At(c, {"bare"}) /\ NoTask
    /\ tasks' = NoRun /\ instances' = NoRun
    /\ Goto(c, "going")
    /\ UNCHANGED <<backend, registered, state, asked, locks, old, lapses>>

StopAsk(c) ==
    /\ At(c, {"bare"}) /\ ~NoTask
    /\ asked' = asked \cup {tasks}
    /\ old' = [old EXCEPT ![c] = tasks]
    /\ Goto(c, "stopping")
    /\ UNCHANGED <<backend, manager, state, locks, lapses>>

\* What the stop drops that has not ended: another task, or the one it no
\* longer waits for.
Dropped(c) ==
    IF NoTask THEN {} ELSE IF tasks = old[c] THEN {"slow"} ELSE {"stop"}

StopDone(c) ==
    /\ At(c, {"stopping"})
    /\ Ended(old[c]) \/ Slow
    /\ lapses' = lapses \cup Dropped(c)
    /\ tasks' = NoRun /\ instances' = NoRun
    /\ Goto(c, "going")
    /\ old' = [old EXCEPT ![c] = NoRun]
    /\ UNCHANGED <<backend, registered, state, asked, locks>>
-----------------------------------------------------------------------------
(* The lock of the account, first come first served.                       *)
Turn(c) == At(c, {"queued", "entered"})
InLine(c) == pc[c] \in {"queued", "entered", "waiting", "insisting"}

LockFor(c) == IF taskLock = NoLock THEN c ELSE taskLock

\* _get_task_lock, acquire.  A restart's stop was scheduled before its start.
Enter(c) ==
    /\ At(c, {"called", "going"})
    /\ \A d \in Restart : c = AddOf[d] => pc[d] # "called"
    /\ taskLock' = LockFor(c)
    /\ lockOf' = [lockOf EXCEPT ![c] = LockFor(c)]
    /\ line' = [line EXCEPT ![LockFor(c)] = Append(@, c)]
    /\ lapses' = lapses \cup IF \E d \in Call : InLine(d) /\ lockOf[d] # LockFor(c)
                             THEN {"lock"} ELSE {}
    /\ Goto(c, IF line[LockFor(c)] = <<>> THEN "entered" ELSE "queued")
    /\ UNCHANGED <<backend, manager, state, asked, old>>

\* Seeded fault: the lock is not waited for.
HasLockAtOnce(c) == lockOf[c] # NoLock /\ line[lockOf[c]] # <<>>

HasLock(c) == lockOf[c] # NoLock /\ line[lockOf[c]] # <<>> /\ Head(line[lockOf[c]]) = c

\* The lock is released and the call ends, its variables with it.
Leave(c) ==
    /\ line' = [line EXCEPT ![lockOf[c]] = Tail(@)]
    /\ lockOf' = [lockOf EXCEPT ![c] = NoLock]
    /\ old' = [old EXCEPT ![c] = NoRun]
    /\ Goto(c, "done")

\* The task is cancelled, and the call waits until it has ended.
Cancel(c) ==
    /\ asked' = asked \cup {tasks}
    /\ old' = [old EXCEPT ![c] = tasks]
    /\ Goto(c, "waiting")
    /\ UNCHANGED <<backend, instances, registered, state, locks, lapses>>
-----------------------------------------------------------------------------
(* _add_cookie_async.                                                      *)
Install(c) ==
    /\ tasks' = c
    /\ Become(c, "new")
    /\ Leave(c)
    /\ UNCHANGED <<backend, instances, registered, asked, taskLock, lapses>>

AddCancel(c) ==
    /\ Turn(c) /\ c \in Adding /\ HasLock(c)
    /\ ~NoTask
    /\ Cancel(c)
    /\ UNCHANGED tasks

\* Seeded fault: the old task is cancelled and not waited for.
AddAtOnce(c) ==
    /\ c \in Adding
    /\ \/ Turn(c) /\ HasLock(c) /\ NoTask
       \/ At(c, {"waiting"})
    /\ Install(c)

Add(c) ==
    /\ c \in Adding
    /\ \/ Turn(c) /\ HasLock(c) /\ NoTask
       \/ At(c, {"waiting"}) /\ Ended(old[c])
    /\ Install(c)

(* _remove_cookie_async.  The entry goes before the task does.             *)
RemoveCancel(c) ==
    /\ Turn(c) /\ c \in Removing /\ HasLock(c)
    /\ ~NoTask
    /\ Cancel(c)
    /\ tasks' = NoRun

\* wait_for cancels the task again after ten seconds, and goes on waiting.
Insist(c) ==
    /\ At(c, {"waiting"}) /\ c \in Removing /\ Slow /\ ~Ended(old[c])
    /\ asked' = asked \cup {old[c]}
    /\ Goto(c, "insisting")
    /\ UNCHANGED <<backend, manager, state, locks, old, lapses>>

\* Everything the manager has of the account goes, its lock too.
Remove(c) ==
    /\ c \in Removing
    /\ \/ Turn(c) /\ HasLock(c) /\ NoTask
       \/ At(c, {"waiting", "insisting"}) /\ Ended(old[c])
    /\ tasks' = IF Turn(c) THEN NoRun ELSE tasks
    /\ instances' = NoRun
    /\ taskLock' = NoLock
    /\ Leave(c)
    /\ UNCHANGED <<backend, registered, state, asked, lapses>>
-----------------------------------------------------------------------------
(* _run_xianyu and main.                                                   *)
Begin(r) ==
    /\ Ready(r, {"new"})
    /\ Become(r, "checking")
    /\ UNCHANGED <<backend, manager, asked, locks, pc, old, lapses>>

\* The owner's time is up: the account is disabled and the task ends.
Expire(r) ==
    /\ Ready(r, {"checking"})
    /\ account' = "disabled"
    /\ Become(r, "done")
    /\ instances' = NoRun
    /\ UNCHANGED <<asking, tasks, registered, asked, locks, pc, old, lapses>>

Open(r) ==
    /\ Ready(r, {"checking"})
    /\ Become(r, "opening")
    /\ instances' = r /\ registered' = r
    /\ UNCHANGED <<backend, tasks, asked, locks, pc, old, lapses>>

\* Seeded fault: the status is not looked at.
ReadStateNever(r) ==
    /\ Ready(r, {"opening"})
    /\ Become(r, "connecting")
    /\ UNCHANGED <<backend, manager, asked, locks, pc, old, lapses>>

\* A round of main's loop begins with the status in the database.
ReadState(r) ==
    /\ Ready(r, {"opening"})
    /\ Become(r, IF account = "active" THEN "connecting" ELSE "closing")
    /\ UNCHANGED <<backend, manager, asked, locks, pc, old, lapses>>

\* The status cannot be read: the account passes for an active one.
ReadNothing(r) ==
    /\ Ready(r, {"opening"})
    /\ Become(r, "connecting")
    /\ lapses' = lapses \cup {"unread"}
    /\ UNCHANGED <<backend, manager, asked, locks, pc, old>>

Connect(r) ==
    /\ Ready(r, {"connecting"})
    /\ Become(r, "connected")
    /\ UNCHANGED <<backend, manager, asked, locks, pc, old, lapses>>

\* The connection fails or is lost, and the next round begins.
Retry(r) ==
    /\ Ready(r, {"connecting", "connected"})
    /\ Become(r, "opening")
    /\ UNCHANGED <<backend, manager, asked, locks, pc, old, lapses>>

\* Too many failures: main gives up, for some of them it disables the account.
GiveUp(r) ==
    /\ Ready(r, {"connecting", "connected"})
    /\ account' \in {account, "disabled"}
    /\ Become(r, "closing")
    /\ UNCHANGED <<asking, manager, asked, locks, pc, old, lapses>>

\* main's finally clause has run: both entries go, whoever's they are.
Close(r) ==
    /\ Ready(r, {"closing"})
    /\ Become(r, "done")
    /\ instances' = NoRun /\ registered' = NoRun
    /\ UNCHANGED <<backend, tasks, asked, locks, pc, old, lapses>>

\* Seeded fault: the loop of main catches the cancellation too.
CancelledCaught(r) ==
    /\ r \in asked /\ Quiet
    /\ asked' = asked \ {r}
    /\ \/ state[r] = "new" /\ Become(r, "done") /\ UNCHANGED instances
       \/ state[r] = "checking" /\ Become(r, "done") /\ instances' = NoRun
       \/ state[r] \notin {"new", "checking"} /\ UNCHANGED <<state, instances>>
    /\ UNCHANGED <<backend, tasks, registered, locks, pc, old, lapses>>

\* A cancellation is seen.  During the clean-up it is swallowed, or ends it
\* before the instance is unregistered.
Cancelled(r) ==
    /\ r \in asked /\ Quiet
    /\ asked' = asked \ {r}
    /\ \/ state[r] = "new" /\ Become(r, "done") /\ UNCHANGED instances
       \/ state[r] = "checking" /\ Become(r, "done") /\ instances' = NoRun
       \/ state[r] \in {"opening", "connecting", "connected"} /\ Become(r, "closing") /\ UNCHANGED instances
       \/ state[r] = "closing" /\ UNCHANGED <<state, instances>>
       \/ state[r] = "closing" /\ Become(r, "done") /\ instances' = NoRun
    /\ UNCHANGED <<backend, tasks, registered, locks, pc, old, lapses>>
-----------------------------------------------------------------------------
Proceed(c) ==
    \/ Arrive(c) \/ StopNow(c) \/ StopAsk(c) \/ StopDone(c)
    \/ Enter(c) \/ AddCancel(c) \/ Add(c) \/ RemoveCancel(c) \/ Insist(c) \/ Remove(c)

RunNext(r) == Begin(r) \/ Expire(r) \/ Open(r) \/ Close(r) \/ Cancelled(r)

Next ==
    \/ \E c \in Call : Send(c) \/ Hear(c) \/ PutBack(c) \/ Schedule(c) \/ Proceed(c)
    \/ \E r \in Adding : RunNext(r) \/ ReadState(r) \/ ReadNothing(r) \/ Connect(r) \/ Retry(r) \/ GiveUp(r)

Spec == Init /\ [][Next]_vars

\* The event loop runs what is ready; connections owe nothing.
FairSpec == Spec /\ \A c \in Call : WF_vars(Proceed(c)) /\ \A r \in Adding : WF_vars(RunNext(r))
-----------------------------------------------------------------------------
(* Properties.                                                             *)
State == {"none", "new", "checking", "opening", "connecting", "connected", "closing", "done"}
Place == {"new", "sent", "bare", "stopping", "called", "going", "queued", "entered",
          "waiting", "insisting", "done"}

\* Every variable has its type; a cancellation is asked of a task that has not
\* ended, and who waits for a task knows which.
TypeOK ==
    /\ account \in {"active", "disabled"}
    /\ asking \subseteq Start \cup Stop
    /\ tasks \in Adding \cup {NoRun}
    /\ instances \in Adding \cup {NoRun} /\ registered \in Adding \cup {NoRun}
    /\ state \in [Adding -> State]
    /\ asked \subseteq {r \in Adding : state[r] \notin {"none", "done"}}
    /\ taskLock \in Call \cup {NoLock}
    /\ line \in [Call -> Seq(Call)]
    /\ lockOf \in [Call -> Call \cup {NoLock}]
    /\ pc \in [Call -> Place]
    /\ old \in [Call -> Adding \cup {NoRun}]
    /\ \A c \in Call : pc[c] \in {"stopping", "waiting", "insisting"} => old[c] # NoRun
    /\ lapses \subseteq {"lock", "stop", "slow", "unread", "unheard"}

\* A task that is at work and will go on with it.
Live(r) == state[r] \notin {"none", "closing", "done"} /\ r \notin asked

Up(r) == Live(r) /\ state[r] \in {"opening", "connecting", "connected"}

\* Every live task is the one the manager knows, so that there is only one and
\* the next stop reaches it, unless calls used different locks (a stop threw
\* away the lock that others were waiting for) or a stop without the lock threw
\* out a task that was started while it waited for another.
LiveTaskKnown ==
    lapses \subseteq {"slow", "unread", "unheard"} => \A r \in Adding : Live(r) => tasks = r

\* An instance that is up is found, by the manager (deliveries, messages) and by
\* its class, unless one of these happened or a stop did not wait for the end of
\* a task, whose clean-up then removes its successor's entries.
InstanceKnown ==
    lapses \subseteq {"unread", "unheard"} => \A r \in Adding : Up(r) => instances = r /\ registered = r

AtRest == \A c \in Call : pc[c] \in {"new", "done"}

\* When no call is under way the connection of a disabled account is closed: what
\* a late start or an instance's own restart brought back has seen the status,
\* unless it could not be read, or the web backend put the status back because
\* it had no answer to a start.
StoppedIsDown ==
    AtRest /\ account = "disabled" /\ lapses \subseteq {"slow"}
        => \A r \in Adding : Live(r) => state[r] \notin {"connecting", "connected"}

\* A call that was sent ends, whoever it waits for, and so all are at rest in
\* the end.
CallsEnd == <>[]AtRest
=============================================================================
