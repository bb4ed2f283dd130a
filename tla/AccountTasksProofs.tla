-------------------------- MODULE AccountTasksProofs --------------------------
(***************************************************************************)
(* Proofs about AccountTasks, for any calls.                               *)
(*                                                                         *)
(* Base is what holds whatever the calls do.  As long as all calls in line *)
(* use the same lock, whoever waits under it is alone, and the task of the *)
(* manager is the one it waits for or none (Alone); so a new task finds    *)
(* none at work.  If no stop gives up waiting either, a task that has not  *)
(* ended is the manager's or is waited for by a removal (Watched), and no  *)
(* clean-up meets the entries of another task.                             *)
(***************************************************************************)
EXTENDS AccountTasks, TLAPS

Waiting(c) == pc[c] \in {"waiting", "insisting"}

HoldersInv == \A c \in Call : Waiting(c) => HasLock(c)

StartedInv ==
    /\ tasks # NoRun => state[tasks] # "none"
    /\ \A c \in Call : old[c] # NoRun => state[old[c]] # "none"

FreshInv == \A c \in Adding : pc[c] # "done" => state[c] = "none"

PairedInv == \A c \in Restart : pc[c] \in {"new", "sent"} => pc[AddOf[c]] = "new"

Base == TypeOK /\ HoldersInv /\ StartedInv /\ FreshInv /\ PairedInv

OneLock == \A c, d \in Call : InLine(c) /\ InLine(d) => lockOf[c] = lockOf[d]

WaitsRight ==
    \A c \in Call : Waiting(c) =>
        tasks = NoRun \/ (c \in Adding /\ tasks = old[c])

AskedInv == \A c \in Call : Waiting(c) \/ pc[c] = "stopping" => ~Live(old[c])

Alone ==
    lapses \subseteq {"slow", "unread", "unheard"} =>
        /\ \A r \in Adding : Live(r) => tasks = r
        /\ OneLock /\ WaitsRight /\ AskedInv

Alive(r) == state[r] \notin {"none", "done"}

Watched ==
    lapses \subseteq {"unread", "unheard"} =>
        /\ \A r \in Adding : Alive(r) =>
               tasks = r \/ \E c \in Removing : Waiting(c) /\ old[c] = r
        /\ \A r \in Adding : Up(r) => instances = r /\ registered = r

USE AccountAssumption
-----------------------------------------------------------------------------
(* The sets of calls.                                                      *)
LEMMA CallsApart ==
    /\ Adding \subseteq Call /\ Removing \subseteq Call
    /\ \A c \in Call : c # NoRun /\ c # NoLock
    /\ \A c \in Restart : AddOf[c] \in Second
    /\ \A c \in Second : c \notin Start \cup Stop \cup Restart \cup Update \cup Renew
    /\ \A c \in Renew \cup Update : c \notin Removing
BY DEF Call, Adding, Removing, Bare, Second

\* Taking the head of a line that has one leaves a line.
LEMMA LeaveTyped ==
    ASSUME TypeOK, NEW c \in Call, HasLock(c), Leave(c)
    PROVE  line' \in [Call -> Seq(Call)]
<1>1. lockOf[c] \in Call /\ line[lockOf[c]] \in Seq(Call) \ {<<>>}
  BY CallsApart DEF TypeOK, HasLock
<1>2. Tail(line[lockOf[c]]) \in Seq(Call)
  BY <1>1
<1> QED
  BY <1>1, <1>2 DEF Leave, TypeOK

\* The holder of a lock is one.
LEMMA OneHolder ==
    ASSUME NEW c, NEW d, HasLock(c), HasLock(d), lockOf[c] = lockOf[d]
    PROVE  c = d
BY DEF HasLock

\* Leaving the lock takes it from nobody else.
LEMMA LeaveOthers ==
    ASSUME TypeOK, NEW c \in Call, NEW d \in Call, c # d, HasLock(c), HasLock(d),
           Leave(c)
    PROVE  HasLock(d)'
<1>1. lockOf[c] # lockOf[d]
  BY OneHolder
<1> QED
  BY <1>1, CallsApart DEF HasLock, Leave, TypeOK

\* Who joins a line does not push its head away.
LEMMA EnterOthers ==
    ASSUME TypeOK, NEW c \in Call, NEW d \in Call, c # d, HasLock(d), Enter(c)
    PROVE  HasLock(d)'
<1>1. LockFor(c) \in Call
  BY CallsApart DEF LockFor, TypeOK
<1>2. lockOf[d] \in Call /\ lockOf'[d] = lockOf[d] /\ line[lockOf[d]] \in Seq(Call)
  BY DEF Enter, TypeOK, HasLock
<1>3. CASE lockOf[d] = LockFor(c)
  <2>1. line'[lockOf[d]] = Append(line[lockOf[d]], c)
    BY <1>1, <1>2, <1>3 DEF Enter, TypeOK
  <2>2. Append(line[lockOf[d]], c) # <<>> /\ Head(Append(line[lockOf[d]], c)) = Head(line[lockOf[d]])
    BY <1>2 DEF HasLock
  <2> QED
    BY <2>1, <2>2, <1>2 DEF HasLock
<1>4. CASE lockOf[d] # LockFor(c)
  BY <1>1, <1>2, <1>4 DEF Enter, TypeOK, HasLock
<1> QED
  BY <1>3, <1>4
-----------------------------------------------------------------------------
(* Base, in three steps: the calls, the tasks, and the rest.               *)
Calls(c) == Send(c) \/ Schedule(c) \/ Proceed(c)

Answers(c) == Hear(c) \/ PutBack(c)

Runs(r) == RunNext(r) \/ ReadState(r) \/ ReadNothing(r) \/ Connect(r) \/ Retry(r) \/ GiveUp(r)

\* A call leaves all variables their types.
LEMMA CallTyped ==
    ASSUME Base, NEW c \in Call, Calls(c)
    PROVE  TypeOK'
<1> USE CallsApart
<1>1. CASE Send(c)
  BY <1>1 DEF Base, TypeOK, Send, Goto, backend, manager, locks, Place
<1>2. CASE Schedule(c)
  BY <1>2 DEF Base, TypeOK, Schedule, Goto, backend, manager, locks, Place
<1>3. CASE Arrive(c)
  <2>1. c \in Restart => AddOf[c] \in Call
    BY DEF Call, Adding
  <2> QED
    BY <1>3, <2>1 DEF Base, TypeOK, Arrive, FirstPlace, backend, manager, locks, Place
<1>4. CASE StopNow(c)
  BY <1>4 DEF Base, TypeOK, StopNow, Goto, backend, locks, Place
<1>5. CASE StopAsk(c)
  BY <1>5 DEF Base, TypeOK, StartedInv, StopAsk, Goto, backend, manager, locks, Place, NoTask, Ended
<1>6. CASE StopDone(c)
  BY <1>6 DEF Base, TypeOK, StopDone, Goto, backend, locks, Place, Dropped
<1>7. CASE Enter(c)
  <2>1. LockFor(c) \in Call
    BY DEF LockFor, Base, TypeOK
  <2>2. line' \in [Call -> Seq(Call)]
    BY <1>7, <2>1 DEF Enter, Base, TypeOK
  <2> QED
    BY <1>7, <2>1, <2>2 DEF Base, TypeOK, Enter, Goto, backend, manager, Place
<1>8. CASE AddCancel(c) \/ RemoveCancel(c)
  <2>1. tasks \in Adding /\ state[tasks] \notin {"none", "done"}
    BY <1>8 DEF Base, TypeOK, StartedInv, AddCancel, RemoveCancel, NoTask, Ended
  <2>2. Cancel(c) /\ tasks' \in {tasks, NoRun}
    BY <1>8 DEF AddCancel, RemoveCancel
  <2> QED
    BY <2>1, <2>2 DEF Base, TypeOK, Cancel, Goto, backend, locks, Place
<1>9. CASE Add(c)
  <2>1. HasLock(c)
    BY <1>9 DEF Add, At, Base, HoldersInv, Waiting
  <2>2. line' \in [Call -> Seq(Call)]
    BY <1>9, <2>1, LeaveTyped DEF Add, Install, Base
  <2> QED
    BY <1>9, <2>2 DEF Base, TypeOK, Add, Install, Leave, Become, Goto, backend, Place, State
<1>10. CASE Insist(c)
  BY <1>10 DEF Base, TypeOK, StartedInv, Insist, At, Ended, Goto, backend, manager, locks, Place
<1>11. CASE Remove(c)
  <2>1. HasLock(c)
    BY <1>11 DEF Remove, At, Base, HoldersInv, Waiting
  <2>2. line' \in [Call -> Seq(Call)]
    BY <1>11, <2>1, LeaveTyped DEF Remove, Base
  <2> QED
    BY <1>11, <2>2 DEF Base, TypeOK, Remove, Leave, Goto, backend, Place
<1> QED
  BY <1>1, <1>2, <1>3, <1>4, <1>5, <1>6, <1>7, <1>8, <1>9, <1>10, <1>11 DEF Calls, Proceed

\* So does a task, and it touches nothing of the calls.
LEMMA RunStep ==
    ASSUME TypeOK, NEW r \in Adding, Runs(r)
    PROVE  /\ UNCHANGED <<tasks, locks, pc, old>>
           /\ TypeOK'
           /\ state[r] # "none" /\ state'[r] # "none"
           /\ \A s \in Adding \ {r} : state'[s] = state[s] /\ (s \in asked' <=> s \in asked)
           /\ lapses \subseteq lapses' /\ lapses' \subseteq lapses \cup {"unread"}
<1> USE DEF Ready, Become, backend, manager, locks, TypeOK, State
<1>1. CASE Begin(r)
  BY <1>1 DEF Begin
<1>2. CASE ReadState(r)
  BY <1>2 DEF ReadState
<1>3. CASE Connect(r)
  BY <1>3 DEF Connect
<1>10. CASE Retry(r)
  BY <1>10 DEF Retry
<1>4. CASE Expire(r)
  BY <1>4 DEF Expire
<1>5. CASE Open(r)
  BY <1>5 DEF Open
<1>6. CASE Close(r)
  BY <1>6 DEF Close
<1>7. CASE Cancelled(r)
  BY <1>7 DEF Cancelled
<1>8. CASE GiveUp(r)
  BY <1>8 DEF GiveUp
<1>9. CASE ReadNothing(r)
  BY <1>9 DEF ReadNothing
<1> QED
  BY <1>1, <1>2, <1>3, <1>4, <1>5, <1>6, <1>7, <1>8, <1>9, <1>10 DEF Runs, RunNext
-----------------------------------------------------------------------------
(* What the step of a call does to the lines, to the others and to tasks.  *)
LEMMA CallLines ==
    ASSUME Base, NEW c \in Call, Calls(c)
    PROVE  \/ UNCHANGED <<line, lockOf>>
           \/ Enter(c)
           \/ HasLock(c) /\ Leave(c) /\ pc'[c] = "done"
<1> USE CallsApart DEF Goto, Base, TypeOK
<1>1. CASE Send(c) \/ Schedule(c) \/ Arrive(c) \/ StopNow(c) \/ StopAsk(c) \/ StopDone(c) \/ Insist(c)
  BY <1>1 DEF Send, Schedule, Arrive, StopNow, StopAsk, StopDone, Insist, locks
<1>2. CASE AddCancel(c) \/ RemoveCancel(c)
  BY <1>2 DEF AddCancel, RemoveCancel, Cancel, locks
<1>3. CASE Add(c)
  BY <1>3 DEF Add, Install, Leave, At, HoldersInv, Waiting
<1>4. CASE Remove(c)
  BY <1>4 DEF Remove, Leave, At, HoldersInv, Waiting
<1> QED
  BY <1>1, <1>2, <1>3, <1>4 DEF Calls, Proceed

\* A call changes its own place, a restart's stop also that of its start.
LEMMA CallPlaces ==
    ASSUME Base, NEW c \in Call, Calls(c)
    PROVE  /\ \A d \in Call \ {c} :
                  \/ pc'[d] = pc[d]
                  \/ /\ c \in Restart /\ d = AddOf[c] /\ pc[c] = "sent"
                     /\ pc[d] = "new" /\ pc'[d] = "called"
           /\ Waiting(c)' => HasLock(c) /\ UNCHANGED <<line, lockOf>>
           /\ pc[c] = "new" => c \notin Second
           /\ pc[c] = "new" => pc'[c] \in {"sent", "bare"}
           /\ pc'[c] \notin {"new", pc[c]} /\ pc[c] # "done"
           /\ c \in Restart /\ pc'[c] = "sent" => pc[c] = "new"
<1> USE CallsApart DEF Goto, Base, TypeOK
<1>1. CASE Send(c)
  BY <1>1 DEF Send, Waiting
<1>2. CASE Schedule(c)
  BY <1>2 DEF Schedule, Waiting
<1>3. CASE Arrive(c)
  <2>1. c \in Restart => AddOf[c] \in Call /\ pc[AddOf[c]] = "new" /\ AddOf[c] # c
    BY <1>3 DEF Arrive, At, PairedInv, Call, Adding
  <2>2. CASE c \in Restart
    BY <1>3, <2>1, <2>2 DEF Arrive, At, Waiting
  <2>3. CASE c \notin Restart
    <3>1. PICK place \in {"bare", "going", "called"} : pc' = [pc EXCEPT ![c] = place]
      BY <1>3, <2>3 DEF Arrive, FirstPlace
    <3> QED
      BY <1>3, <3>1 DEF Arrive, At, Waiting
  <2> QED
    BY <2>2, <2>3
<1>4. CASE StopNow(c) \/ StopAsk(c) \/ StopDone(c)
  BY <1>4 DEF StopNow, StopAsk, StopDone, At, Waiting
<1>5. CASE Enter(c)
  BY <1>5 DEF Enter, At, Waiting
<1>6. CASE AddCancel(c) \/ RemoveCancel(c)
  BY <1>6 DEF AddCancel, RemoveCancel, Cancel, Turn, At, Waiting, locks
<1>7. CASE Add(c)
  BY <1>7 DEF Add, Install, Leave, Turn, At, Waiting
<1>8. CASE Insist(c)
  BY <1>8 DEF Insist, At, Waiting, HoldersInv, locks
<1>9. CASE Remove(c)
  BY <1>9 DEF Remove, Leave, Turn, At, Waiting
<1> QED
  BY <1>1, <1>2, <1>3, <1>4, <1>5, <1>6, <1>7, <1>8, <1>9 DEF Calls, Proceed

\* A call creates a task, its own, as the last thing it does, or cancels one.
LEMMA CallTasks ==
    ASSUME Base, NEW c \in Call, Calls(c)
    PROVE  \/ Add(c) /\ Install(c)
           \/ /\ UNCHANGED state /\ tasks' \in {tasks, NoRun}
              /\ asked \subseteq asked'
              /\ \/ old' \in {old, [old EXCEPT ![c] = NoRun]}
                 \/ /\ tasks \in Adding /\ old' = [old EXCEPT ![c] = tasks]
                    /\ tasks \in asked'
<1> USE CallsApart DEF Base, TypeOK, NoTask
<1>1. CASE Send(c) \/ Schedule(c) \/ Arrive(c) \/ Enter(c)
  BY <1>1 DEF Send, Schedule, Arrive, Enter, manager
<1>2. CASE StopNow(c) \/ StopAsk(c) \/ StopDone(c)
  BY <1>2 DEF StopNow, StopAsk, StopDone, manager
<1>3. CASE Add(c)
  BY <1>3 DEF Add
<1>4. CASE Insist(c) \/ Remove(c)
  BY <1>4 DEF Insist, Remove, Leave, manager
<1>5. CASE AddCancel(c) \/ RemoveCancel(c)
  BY <1>5 DEF AddCancel, RemoveCancel, Cancel
<1> QED
  BY <1>1, <1>2, <1>3, <1>4, <1>5 DEF Calls, Proceed

\* The task another call waits for is its own affair.
LEMMA CallOld ==
    ASSUME Base, NEW c \in Call, Calls(c), NEW d \in Call \ {c}
    PROVE  old'[d] = old[d]
<1>1. CASE Add(c) /\ Install(c)
  BY <1>1 DEF Install, Leave, Base, TypeOK
<1>2. CASE old' \in {old, [old EXCEPT ![c] = NoRun]}
  BY <1>2 DEF Base, TypeOK
<1>3. CASE old' = [old EXCEPT ![c] = tasks]
  BY <1>3 DEF Base, TypeOK
<1> QED
  BY <1>1, <1>2, <1>3, CallTasks

LEMMA PairedCall ==
    ASSUME Base, NEW c \in Call, Calls(c)
    PROVE  PairedInv'
<1> SUFFICES ASSUME NEW d \in Restart, pc'[d] \in {"new", "sent"}
             PROVE  pc'[AddOf[d]] = "new"
  BY DEF PairedInv
<1>1. AddOf[d] \in Second /\ AddOf[d] \in Call /\ d \in Call /\ AddOf[d] # d
  BY CallsApart DEF Call, Adding, Removing
<1>2. pc[d] \in {"new", "sent"} /\ (d = c => pc[c] = "new")
  <2>1. CASE d = c
    BY <2>1, CallPlaces
  <2>2. CASE d # c
    BY <1>1, <2>2, CallPlaces, CallsApart DEF Removing
  <2> QED
    BY <2>1, <2>2
<1>3. pc[AddOf[d]] = "new"
  BY <1>2 DEF Base, PairedInv
<1>4. AddOf[d] # c
  BY <1>1, <1>3, CallPlaces
<1>5. CASE pc'[AddOf[d]] = pc[AddOf[d]]
  BY <1>3, <1>5
<1>6. CASE c \in Restart /\ AddOf[d] = AddOf[c] /\ pc[c] = "sent"
  BY <1>2, <1>6
<1> QED
  BY <1>1, <1>4, <1>5, <1>6, CallPlaces

LEMMA BaseCall ==
    ASSUME Base, NEW c \in Call, Calls(c)
    PROVE  Base'
<1> USE CallsApart
<1>1. TypeOK'
  BY CallTyped
<1>2. HoldersInv'
  <2> SUFFICES ASSUME NEW d \in Call, Waiting(d)' PROVE HasLock(d)'
    BY DEF HoldersInv
  <2>1. CASE d = c
    BY <2>1, CallPlaces DEF HasLock
  <2>2. CASE d # c
    <3>1. HasLock(d)
      BY <2>2, CallPlaces DEF Waiting, Base, HoldersInv
    <3>2. CASE UNCHANGED <<line, lockOf>>
      BY <3>1, <3>2 DEF HasLock
    <3>3. CASE Enter(c)
      BY <2>2, <3>1, <3>3, EnterOthers DEF Base
    <3>4. CASE HasLock(c) /\ Leave(c)
      BY <2>2, <3>1, <3>4, LeaveOthers DEF Base
    <3> QED
      BY <3>2, <3>3, <3>4, CallLines
  <2> QED
    BY <2>1, <2>2
<1>3. CASE Add(c) /\ Install(c)
  <2>1. state' = [state EXCEPT ![c] = "new"] /\ tasks' = c /\ pc'[c] = "done"
        /\ old' = [old EXCEPT ![c] = NoRun] /\ c \in Adding
    BY <1>3 DEF Add, Install, Leave, Become, Goto, Base, TypeOK
  <2>2. StartedInv' /\ FreshInv'
    BY <1>3, <2>1, CallPlaces DEF Base, TypeOK, StartedInv, FreshInv
  <2> QED
    BY <1>1, <1>2, <2>2, PairedCall DEF Base
<1>4. CASE UNCHANGED state /\ tasks' \in {tasks, NoRun}
           /\ (\/ old' \in {old, [old EXCEPT ![c] = NoRun]}
               \/ tasks \in Adding /\ old' = [old EXCEPT ![c] = tasks])
  <2>1. StartedInv'
    BY <1>4 DEF Base, TypeOK, StartedInv
  <2>2. FreshInv'
    BY <1>4, CallPlaces DEF Base, FreshInv
  <2> QED
    BY <1>1, <1>2, <2>1, <2>2, PairedCall DEF Base
<1> QED
  BY <1>3, <1>4, CallTasks

LEMMA BaseRun ==
    ASSUME Base, NEW r \in Adding, Runs(r)
    PROVE  Base'
<1>1. UNCHANGED <<tasks, line, lockOf, pc, old>> /\ TypeOK' /\ state[r] # "none" /\ state'[r] # "none"
      /\ \A s \in Adding \ {r} : state'[s] = state[s]
  BY RunStep DEF Base, locks
<1>2. HoldersInv' /\ PairedInv'
  BY <1>1 DEF Base, HoldersInv, PairedInv, HasLock, Waiting
<1>3. StartedInv' /\ FreshInv'
  BY <1>1 DEF Base, StartedInv, FreshInv, TypeOK
<1> QED
  BY <1>1, <1>2, <1>3 DEF Base

LEMMA BaseInit == Init => Base
BY CallsApart DEF Init, Base, TypeOK, State, Place, HoldersInv, Waiting, StartedInv, FreshInv, PairedInv, Call, Adding

LEMMA BaseStutter == Base /\ UNCHANGED vars => Base'
BY DEF vars, backend, manager, locks, Base, TypeOK, HoldersInv, Waiting, HasLock, StartedInv, FreshInv, PairedInv

LEMMA NextParts ==
    Next => (\E c \in Call : Calls(c) \/ Answers(c)) \/ (\E r \in Adding : Runs(r))
BY DEF Next, Calls, Answers, Runs
-----------------------------------------------------------------------------
(* Alone.                                                                  *)
LEMMA LapsesGrow ==
    ASSUME NEW c \in Call, Calls(c)
    PROVE  lapses \subseteq lapses'
BY DEF Calls, Proceed, Send, Schedule, Arrive, StopNow, StopAsk, StopDone, Enter, AddCancel,
       Add, Install, RemoveCancel, Cancel, Insist, Remove

\* Nobody waits under the lock another call has.
LEMMA WaiterHasLock ==
    ASSUME Base, OneLock, NEW c \in Call, NEW d \in Call, HasLock(c), InLine(c), Waiting(d)
    PROVE  c = d
<1>1. HasLock(d) /\ InLine(d)
  BY DEF Base, HoldersInv, InLine, Waiting
<1> QED
  BY <1>1, OneHolder DEF OneLock

LEMMA OneLockCall ==
    ASSUME Base, OneLock, NEW c \in Call, Calls(c), "lock" \notin lapses'
    PROVE  OneLock'
<1> SUFFICES ASSUME NEW d \in Call, NEW e \in Call, InLine(d)', InLine(e)'
             PROVE  lockOf'[d] = lockOf'[e]
  BY DEF OneLock
<1>1. CASE Enter(c)
  <2>1. \A b \in Call : InLine(b) => lockOf[b] = LockFor(c)
    BY <1>1 DEF Enter
  <2>2. \A b \in Call \ {c} : pc'[b] = pc[b]
    BY <1>1 DEF Enter, Goto, Base, TypeOK
  <2>3. \A b \in Call : InLine(b)' => lockOf'[b] = LockFor(c)
    BY <1>1, <2>1, <2>2 DEF Enter, InLine, Base, TypeOK
  <2> QED
    BY <2>3
<1>2. CASE \A b \in Call : InLine(b)' => InLine(b) /\ lockOf'[b] = lockOf[b]
  BY <1>2 DEF OneLock
<1>3. CASE ~Enter(c)
  <2>1. \A b \in Call : InLine(b)' => lockOf'[b] = lockOf[b]
    <3>1. CASE UNCHANGED lockOf
      BY <3>1
    <3>2. CASE Leave(c)
      BY <3>2 DEF Leave, Goto, InLine, Base, TypeOK
    <3> QED
      BY <1>3, <3>1, <3>2, CallLines
  <2>2. \A b \in Call \ {c} : InLine(b)' => InLine(b)
    BY CallPlaces DEF InLine
  <2>3. InLine(c)' => InLine(c)
    <3>1. CASE Send(c) \/ Schedule(c)
      BY <3>1, CallPlaces DEF InLine, Send, Schedule
    <3>2. CASE Arrive(c)
      <4>1. pc'[c] \in {"bare", "going", "called"}
        BY <3>2, CallsApart, CallPlaces DEF Arrive, At, FirstPlace, Base, TypeOK
      <4> QED
        BY <4>1 DEF InLine
    <3>3. CASE StopNow(c) \/ StopAsk(c) \/ StopDone(c) \/ Add(c) \/ Remove(c)
      BY <3>3 DEF StopNow, StopAsk, StopDone, Add, Install, Remove, Leave, Goto, InLine, Base, TypeOK
    <3>4. CASE AddCancel(c) \/ RemoveCancel(c) \/ Insist(c)
      BY <3>4 DEF AddCancel, RemoveCancel, Insist, Turn, At, InLine
    <3> QED
      BY <1>3, <3>1, <3>2, <3>3, <3>4 DEF Calls, Proceed
  <2> QED
    BY <1>2, <2>1, <2>2, <2>3
<1> QED
  BY <1>1, <1>3

\* Whoever creates a task finds none at work, and none that was asked to end
\* but the one that is the manager's.
LEMMA AddFindsNone ==
    ASSUME Base, OneLock, WaitsRight, NEW c \in Call, Add(c)
    PROVE  /\ HasLock(c) /\ InLine(c) /\ c \in Adding
           /\ NoTask
<1>1. HasLock(c) /\ InLine(c) /\ c \in Adding
  BY DEF Add, Turn, At, InLine, Base, HoldersInv, Waiting
<1>2. CASE Turn(c) /\ NoTask
  BY <1>1, <1>2
<1>3. CASE At(c, {"waiting"}) /\ Ended(old[c])
  <2>1. tasks = NoRun \/ tasks = old[c]
    BY <1>3 DEF WaitsRight, Waiting, At
  <2> QED
    BY <1>1, <1>3, <2>1 DEF NoTask, Base, TypeOK
<1> QED
  BY <1>2, <1>3 DEF Add

\* Nor does whoever drops the manager's task drop one that is at work.
LEMMA DropsNone ==
    ASSUME Base, WaitsRight, AskedInv, NEW c \in Call, Calls(c), ~Add(c), "stop" \notin lapses',
           NEW r \in Adding, tasks = r, tasks' = NoRun
    PROVE  ~Live(r)'
<1> USE CallsApart
<1>1. CASE StopNow(c)
  BY <1>1 DEF StopNow, NoTask, Ended, Live, Base, TypeOK
<1>2. CASE StopDone(c)
  <2>1. UNCHANGED <<state, asked>>
    BY <1>2 DEF StopDone
  <2>2. Dropped(c) # {"stop"}
    BY <1>2 DEF StopDone
  <2>3. NoTask \/ tasks = old[c]
    BY <2>2 DEF Dropped
  <2>4. ~Live(r)
    BY <1>2, <2>3 DEF StopDone, At, AskedInv, NoTask, Ended, Live, Base, TypeOK
  <2> QED
    BY <2>1, <2>4 DEF Live
<1>3. CASE RemoveCancel(c)
  BY <1>3 DEF RemoveCancel, Cancel, Live
<1>4. CASE Remove(c)
  <2>1. CASE Turn(c)
    <3>1. NoTask
      BY <1>4, <2>1 DEF Remove, Turn, At
    <3> QED
      BY <1>4, <3>1 DEF Remove, NoTask, Ended, Live, Base, TypeOK
  <2>2. CASE ~Turn(c)
    BY <1>4, <2>2 DEF Remove, At, WaitsRight, Waiting
  <2> QED
    BY <2>1, <2>2
<1>5. CASE Send(c) \/ Schedule(c) \/ Arrive(c) \/ StopAsk(c) \/ Enter(c) \/ AddCancel(c) \/ Insist(c)
  BY <1>5 DEF Send, Schedule, Arrive, StopAsk, Enter, AddCancel, Insist, manager, Base, TypeOK
<1> QED
  BY <1>1, <1>2, <1>3, <1>4, <1>5 DEF Calls, Proceed

LEMMA AloneCall ==
    ASSUME Base, Base', Alone, NEW c \in Call, Calls(c)
    PROVE  Alone'
<1> SUFFICES ASSUME lapses' \subseteq {"slow", "unread", "unheard"} PROVE
        /\ \A r \in Adding : Live(r)' => tasks' = r
        /\ OneLock' /\ WaitsRight' /\ AskedInv'
  BY DEF Alone
<1>1. (\A r \in Adding : Live(r) => tasks = r) /\ OneLock /\ WaitsRight /\ AskedInv
  BY LapsesGrow DEF Alone
<1>2. OneLock'
  BY <1>1, OneLockCall
<1> USE CallsApart
<1>3. CASE Add(c) /\ Install(c)
  <2>1. HasLock(c) /\ InLine(c) /\ c \in Adding /\ NoTask
    BY <1>1, <1>3, AddFindsNone
  <2>2. state' = [state EXCEPT ![c] = "new"] /\ tasks' = c /\ pc'[c] = "done" /\ UNCHANGED asked
        /\ \A d \in Call \ {c} : pc'[d] = pc[d] /\ old'[d] = old[d]
    BY <1>3 DEF Install, Leave, Become, Goto, Base, TypeOK
  <2>3. \A r \in Adding : ~Live(r)
    BY <1>1, <2>1 DEF NoTask, Ended, Live, Base, TypeOK
  <2>4. \A r \in Adding : Live(r)' => r = c
    BY <2>2, <2>3 DEF Live, Base, TypeOK
  <2>5. WaitsRight'
    BY <1>1, <2>1, <2>2, WaiterHasLock DEF WaitsRight, Waiting
  <2>6. state[c] = "none"
    BY <1>3, <2>1 DEF Add, Turn, At, Base, FreshInv
  <2>7. AskedInv'
    <3> SUFFICES ASSUME NEW d \in Call, Waiting(d)' \/ pc'[d] = "stopping" PROVE ~Live(old[d])'
      BY DEF AskedInv
    <3>1. d # c /\ (Waiting(d) \/ pc[d] = "stopping")
      BY <2>2 DEF Waiting
    <3>2. old[d] \in Adding /\ old[d] # c
      BY <2>6, <3>1 DEF Base, TypeOK, StartedInv, Waiting
    <3> QED
      BY <2>2, <2>4, <3>1, <3>2 DEF Live
  <2> QED
    BY <1>2, <2>2, <2>4, <2>5, <2>7
<1>4. CASE /\ ~Add(c)
           /\ UNCHANGED state /\ tasks' \in {tasks, NoRun}
           /\ asked \subseteq asked'
           /\ \/ old' \in {old, [old EXCEPT ![c] = NoRun]}
              \/ /\ tasks \in Adding /\ old' = [old EXCEPT ![c] = tasks]
                 /\ tasks \in asked'
  <2>1. \A r \in Adding : Live(r)' => Live(r)
    BY <1>4 DEF Live
  <2>2. \A r \in Adding : Live(r)' => tasks' = r
    BY <1>1, <1>4, <2>1, DropsNone
  <2>3. \A d \in Call \ {c} : Waiting(d)' => Waiting(d) /\ old'[d] = old[d]
    BY CallPlaces, CallOld DEF Waiting
  <2>4. Waiting(c)' => \/ tasks' = NoRun
                       \/ c \in Adding /\ tasks' = old'[c]
    <3> SUFFICES ASSUME Waiting(c)' PROVE tasks' = NoRun \/ (c \in Adding /\ tasks' = old'[c])
      OBVIOUS
    <3>1. CASE AddCancel(c)
      BY <3>1 DEF AddCancel, Cancel, Base, TypeOK
    <3>2. CASE RemoveCancel(c)
      BY <3>2 DEF RemoveCancel
    <3>3. CASE Insist(c)
      BY <1>1, <3>3 DEF Insist, At, WaitsRight, Waiting, manager
    <3>4. CASE Send(c) \/ Schedule(c)
      BY <3>4, CallPlaces DEF Send, Schedule, Waiting
    <3>5. CASE Arrive(c)
      <4>1. pc'[c] \in {"bare", "going", "called"}
        BY <3>5, CallPlaces DEF Arrive, At, FirstPlace, Base, TypeOK
      <4> QED
        BY <4>1 DEF Waiting
    <3>6. CASE StopNow(c) \/ StopAsk(c) \/ StopDone(c) \/ Enter(c) \/ Remove(c)
      BY <3>6 DEF StopNow, StopAsk, StopDone, Enter, Remove, Leave, Goto, Waiting, Base, TypeOK
    <3> QED
      BY <1>4, <3>1, <3>2, <3>3, <3>4, <3>5, <3>6 DEF Calls, Proceed
  <2>5. WaitsRight'
    <3> SUFFICES ASSUME NEW d \in Call, Waiting(d)'
                 PROVE  tasks' = NoRun \/ (d \in Adding /\ tasks' = old'[d])
      BY DEF WaitsRight
    <3> QED
      BY <1>1, <1>4, <2>3, <2>4 DEF WaitsRight
  <2>6. AskedInv'
    <3> SUFFICES ASSUME NEW d \in Call, Waiting(d)' \/ pc'[d] = "stopping" PROVE ~Live(old[d])'
      BY DEF AskedInv
    <3>1. CASE old'[d] = old[d] /\ (Waiting(d) \/ pc[d] = "stopping")
      <4>1. old[d] \in Adding /\ ~Live(old[d])
        BY <1>1, <3>1 DEF AskedInv, Base, TypeOK, Waiting
      <4> QED
        BY <2>1, <3>1, <4>1 DEF Live
    <3>2. CASE tasks \in Adding /\ old'[d] = tasks /\ tasks \in asked'
      BY <3>2 DEF Live
    <3>3. CASE d # c
      <4>1. Waiting(d) \/ pc[d] = "stopping"
        BY <3>3, CallPlaces DEF Waiting
      <4> QED
        BY <1>4, <3>1, <3>3, <4>1 DEF Base, TypeOK
    <3>4. CASE d = c
      <4>1. CASE AddCancel(c) \/ RemoveCancel(c) \/ StopAsk(c)
        BY <3>2, <3>4, <4>1 DEF AddCancel, RemoveCancel, Cancel, StopAsk, NoTask, Base, TypeOK
      <4>2. CASE Insist(c)
        BY <3>1, <3>4, <4>2 DEF Insist, At, Waiting
      <4>3. CASE Send(c) \/ Schedule(c)
        BY <3>4, <4>3, CallPlaces DEF Send, Schedule, Waiting
      <4>4. CASE Arrive(c)
        <5>1. pc'[c] \in {"bare", "going", "called"}
          BY <4>4, CallPlaces DEF Arrive, At, FirstPlace, Base, TypeOK
        <5> QED
          BY <3>4, <5>1 DEF Waiting
      <4>5. CASE StopNow(c) \/ StopDone(c) \/ Enter(c) \/ Remove(c)
        BY <3>4, <4>5 DEF StopNow, StopDone, Enter, Remove, Leave, Goto, Waiting, Base, TypeOK
      <4> QED
        BY <1>4, <4>1, <4>2, <4>3, <4>4, <4>5 DEF Calls, Proceed
    <3> QED
      BY <3>3, <3>4
  <2> QED
    BY <1>2, <2>2, <2>5, <2>6
<1>5. CASE Add(c)
  BY <1>3, <1>5 DEF Add
<1> QED
  BY <1>4, <1>5, CallTasks

\* A task does not come back to work by itself.
LEMMA RunLive ==
    ASSUME TypeOK, NEW r \in Adding, Runs(r), NEW s \in Adding
    PROVE  Live(s)' => Live(s)
<1> USE DEF Ready, Become, TypeOK, Live
<1>1. CASE Begin(r) \/ ReadState(r) \/ Connect(r) \/ Retry(r)
  BY <1>1 DEF Begin, ReadState, Connect, Retry
<1>2. CASE Expire(r) \/ Open(r) \/ Close(r)
  BY <1>2 DEF Expire, Open, Close
<1>3. CASE Cancelled(r)
  BY <1>3 DEF Cancelled
<1>4. CASE GiveUp(r) \/ ReadNothing(r)
  BY <1>4 DEF GiveUp, ReadNothing
<1> QED
  BY <1>1, <1>2, <1>3, <1>4 DEF Runs, RunNext

LEMMA AloneRun ==
    ASSUME Base, Alone, NEW r \in Adding, Runs(r)
    PROVE  Alone'
<1> SUFFICES ASSUME lapses' \subseteq {"slow", "unread", "unheard"} PROVE
        /\ \A s \in Adding : Live(s)' => tasks' = s
        /\ OneLock' /\ WaitsRight' /\ AskedInv'
  BY DEF Alone
<1>1. UNCHANGED <<tasks, lockOf, pc, old>> /\ lapses \subseteq {"slow", "unread", "unheard"}
  BY RunStep DEF Base, locks
<1>2. \A s \in Adding : Live(s)' => Live(s)
  BY RunLive DEF Base
<1>3. OneLock' /\ WaitsRight'
  BY <1>1 DEF Alone, OneLock, WaitsRight, InLine, Waiting
<1>4. AskedInv'
  <2> SUFFICES ASSUME NEW d \in Call, Waiting(d)' \/ pc'[d] = "stopping" PROVE ~Live(old[d])'
    BY DEF AskedInv
  <2>1. Waiting(d) \/ pc[d] = "stopping"
    BY <1>1 DEF Waiting
  <2>2. old[d] \in Adding /\ ~Live(old[d])
    BY <1>1, <2>1 DEF Alone, AskedInv, Base, TypeOK, Waiting
  <2> QED
    BY <1>1, <1>2, <2>2 DEF Live
<1> QED
  BY <1>1, <1>2, <1>3, <1>4 DEF Alone
-----------------------------------------------------------------------------
(* Watched.                                                                *)

\* Next to a task at work no other has yet to end.
LEMMA OneAlive ==
    ASSUME Base, Alone, Watched, lapses \subseteq {"unread", "unheard"},
           NEW r \in Adding, Live(r), NEW s \in Adding, Alive(s)
    PROVE  r = s
<1>1. tasks = r /\ WaitsRight
  BY DEF Alone
<1>2. tasks = s \/ \E c \in Removing : Waiting(c) /\ old[c] = s
  BY DEF Watched
<1>3. ASSUME NEW c \in Removing, Waiting(c) PROVE FALSE
  BY <1>1, <1>3, CallsApart DEF WaitsRight, Base, TypeOK
<1> QED
  BY <1>1, <1>2, <1>3

LEMMA WatchedCall ==
    ASSUME Base, Alone, Alone', Watched, NEW c \in Call, Calls(c)
    PROVE  Watched'
<1> SUFFICES ASSUME lapses' \subseteq {"unread", "unheard"} PROVE
        /\ \A r \in Adding : Alive(r)' =>
               tasks' = r \/ \E d \in Removing : Waiting(d)' /\ old'[d] = r
        /\ \A r \in Adding : Up(r)' => instances' = r /\ registered' = r
  BY DEF Watched
<1>1. lapses \subseteq {"unread", "unheard"}
  BY LapsesGrow
<1>2. /\ \A r \in Adding : Live(r) => tasks = r
      /\ OneLock /\ WaitsRight /\ AskedInv
  BY <1>1 DEF Alone
<1>3. /\ \A r \in Adding : Alive(r) =>
             tasks = r \/ \E d \in Removing : Waiting(d) /\ old[d] = r
      /\ \A r \in Adding : Up(r) => instances = r /\ registered = r
  BY <1>1 DEF Watched
<1> USE CallsApart
<1>4. CASE Add(c)
  <2>1. HasLock(c) /\ InLine(c) /\ c \in Adding /\ NoTask
    BY <1>2, <1>4, AddFindsNone
  <2>2. \A d \in Removing : ~Waiting(d)
    BY <1>2, <2>1, WaiterHasLock
  <2>3. \A r \in Adding : ~Alive(r)
    BY <1>3, <2>1, <2>2 DEF NoTask, Ended, Alive, Base, TypeOK
  <2>4. state' = [state EXCEPT ![c] = "new"] /\ tasks' = c
    BY <1>4 DEF Add, Install, Become
  <2> QED
    BY <2>1, <2>3, <2>4 DEF Alive, Up, Live, Base, TypeOK
<1>5. CASE ~Add(c)
  <2>1. UNCHANGED <<state, registered>> /\ asked \subseteq asked'
    <3>1. UNCHANGED state /\ asked \subseteq asked'
      BY <1>5, CallTasks
    <3>2. UNCHANGED registered
      BY <1>5 DEF Calls, Proceed, Send, Schedule, Arrive, StopNow, StopAsk, StopDone, Enter,
           AddCancel, RemoveCancel, Cancel, Insist, Remove, manager
    <3> QED
      BY <3>1, <3>2
  <2>2. \A r \in Adding : (Alive(r)' <=> Alive(r)) /\ (Up(r)' => Up(r)) /\ (Live(r)' => Live(r))
    BY <2>1 DEF Alive, Up, Live
  <2>3. ASSUME NEW r \in Adding, Alive(r)
        PROVE  tasks' = r \/ \E d \in Removing : Waiting(d)' /\ old'[d] = r
    <3>1. CASE tasks = r /\ tasks' = r
      BY <3>1
    <3>2. CASE tasks = r /\ tasks' # r
      <4>1. ~NoTask
        BY <2>3, <3>2 DEF NoTask, Ended, Alive, Base, TypeOK
      <4>2. CASE RemoveCancel(c)
        BY <3>2, <4>2 DEF RemoveCancel, Cancel, Goto, Waiting, Base, TypeOK
      <4>3. CASE StopDone(c)
        BY <1>5, <4>1, <4>3 DEF StopDone, Dropped
      <4>4. CASE Remove(c)
        BY <1>2, <3>2, <4>1, <4>4 DEF Remove, Turn, At, WaitsRight, Waiting
      <4>5. CASE StopNow(c)
        BY <4>1, <4>5 DEF StopNow
      <4>6. CASE Send(c) \/ Schedule(c) \/ Arrive(c) \/ StopAsk(c) \/ Enter(c) \/ AddCancel(c) \/ Insist(c)
        BY <3>2, <4>6 DEF Send, Schedule, Arrive, StopAsk, Enter, AddCancel, Insist, manager
      <4> QED
        BY <1>5, <4>2, <4>3, <4>4, <4>5, <4>6 DEF Calls, Proceed
    <3>3. CASE \E d \in Removing : Waiting(d) /\ old[d] = r
      <4>1. PICK d \in Removing : Waiting(d) /\ old[d] = r
        BY <3>3
      <4>2. CASE d # c
        <5>1. Waiting(d)'
          BY <4>1, <4>2, CallPlaces DEF Waiting
        <5>2. old'[d] = old[d]
          BY <4>2, CallOld
        <5> QED
          BY <4>1, <5>1, <5>2
      <4>3. CASE d = c
        <5>1. Insist(c) \/ Remove(c)
          BY <1>5, <4>1, <4>3 DEF Calls, Proceed, Waiting, Send, Schedule, Arrive, StopNow, StopAsk,
               StopDone, Enter, AddCancel, RemoveCancel, Turn, At
        <5>2. ~Ended(old[c])
          BY <2>3, <4>1, <4>3 DEF Alive, Ended
        <5>3. Insist(c)
          BY <4>1, <4>3, <5>1, <5>2 DEF Remove, Turn, At, Waiting
        <5> QED
          BY <4>1, <4>3, <5>3 DEF Insist, Goto, Waiting, Base, TypeOK
      <4> QED
        BY <4>2, <4>3
    <3> QED
      BY <1>3, <2>3, <3>1, <3>2, <3>3
  <2>4. ASSUME NEW r \in Adding, Up(r)' PROVE instances' = r /\ registered' = r
    <3>1. Up(r) /\ Live(r) /\ Live(r)' /\ tasks = r /\ instances = r /\ registered = r
      BY <1>2, <1>3, <2>2, <2>4 DEF Up
    <3>2. tasks' = r
      BY <3>1 DEF Alone
    <3>3. tasks' # NoRun
      BY <3>2
    <3>4. ~StopNow(c) /\ ~StopDone(c) /\ ~RemoveCancel(c)
      BY <3>3 DEF StopNow, StopDone, RemoveCancel
    <3>5. ~Remove(c)
      <4>1. ASSUME Remove(c) PROVE FALSE
        <5>1. ~Turn(c) /\ Waiting(c) /\ c \in Removing
          BY <3>3, <4>1 DEF Remove, At, Waiting
        <5> QED
          BY <1>2, <3>1, <5>1 DEF WaitsRight
      <4> QED
        BY <4>1
    <3>6. UNCHANGED instances
      BY <1>5, <3>4, <3>5 DEF Calls, Proceed, Send, Schedule, Arrive, StopAsk, Enter, AddCancel, Cancel, Insist, manager
    <3> QED
      BY <2>1, <3>1, <3>6
  <2> QED
    BY <2>2, <2>3, <2>4
<1> QED
  BY <1>4, <1>5

LEMMA WatchedRun ==
    ASSUME Base, Alone, Watched, NEW r \in Adding, Runs(r)
    PROVE  Watched'
<1> SUFFICES ASSUME lapses' \subseteq {"unread", "unheard"} PROVE
        /\ \A s \in Adding : Alive(s)' =>
               tasks' = s \/ \E d \in Removing : Waiting(d)' /\ old'[d] = s
        /\ \A s \in Adding : Up(s)' => instances' = s /\ registered' = s
  BY DEF Watched
<1>1. /\ UNCHANGED <<tasks, pc, old>> /\ lapses \subseteq {"unread", "unheard"}
      /\ state[r] # "none" /\ state[r] # "done"
      /\ \A s \in Adding \ {r} : state'[s] = state[s] /\ (s \in asked' <=> s \in asked)
  <2>1. state[r] # "done"
    BY DEF Runs, RunNext, Begin, Expire, Open, Close, Cancelled, ReadState, ReadNothing, Connect,
         Retry, GiveUp, Ready, Base, TypeOK
  <2> QED
    BY <2>1, RunStep DEF Base
<1>2. \A s \in Adding : Alive(s)' => Alive(s)
  BY <1>1 DEF Alive
<1>3. \A s \in Adding : Alive(s)' =>
          tasks' = s \/ \E d \in Removing : Waiting(d)' /\ old'[d] = s
  BY <1>1, <1>2 DEF Watched, Waiting
<1>4. ASSUME NEW s \in Adding, Up(s)' PROVE instances' = s /\ registered' = s
  <2>1. Live(s)
    BY <1>4, RunLive DEF Up, Base
  <2>2. s = r
    BY <1>1, <2>1, OneAlive DEF Alive
  <2>3. CASE Open(r)
    BY <2>2, <2>3 DEF Open
  <2>4. CASE ReadState(r) \/ ReadNothing(r) \/ Connect(r) \/ Retry(r)
    <3>1. Up(r)
      BY <2>1, <2>2, <2>4 DEF ReadState, ReadNothing, Connect, Retry, Ready, Up
    <3>2. UNCHANGED <<instances, registered>>
      BY <2>4 DEF ReadState, ReadNothing, Connect, Retry, manager
    <3> QED
      BY <1>1, <2>2, <3>1, <3>2 DEF Watched
  <2>5. CASE Begin(r) \/ Expire(r) \/ Close(r) \/ GiveUp(r)
    BY <1>4, <2>2, <2>5 DEF Begin, Expire, Close, GiveUp, Become, Up, Live, Base, TypeOK
  <2>6. CASE Cancelled(r)
    <3>1. state'[r] \in {"closing", "done"}
      BY <2>6 DEF Cancelled, Become, Base, TypeOK
    <3> QED
      BY <1>4, <2>2, <3>1 DEF Up, Live
  <2> QED
    BY <2>3, <2>4, <2>5, <2>6 DEF Runs, RunNext
<1> QED
  BY <1>3, <1>4
-----------------------------------------------------------------------------
(* The answers the web backend gets, or misses, touch no call at work.     *)
LEMMA AnswerPlaces ==
    ASSUME Base, NEW c \in Call, Answers(c)
    PROVE  /\ UNCHANGED <<manager, state, locks, asked, old>>
           /\ \A d \in Call : pc'[d] = pc[d] \/ (pc[d] = "sent" /\ pc'[d] = "done")
           /\ \A d \in Second : pc'[d] = pc[d]
           /\ lapses \subseteq lapses' /\ lapses' \subseteq lapses \cup {"unheard"}
           /\ TypeOK'
<1>1. c \in Start \cup Stop /\ c \notin Second
  BY CallsApart DEF Answers, Hear, PutBack, Base, TypeOK
<1>2. CASE Hear(c)
  BY <1>2 DEF Hear, Base, TypeOK, manager, locks
<1>3. CASE PutBack(c)
  <2>1. UNCHANGED pc \/ (pc[c] = "sent" /\ pc' = [pc EXCEPT ![c] = "done"])
    BY <1>3 DEF PutBack, Goto
  <2>2. /\ \A d \in Call : pc'[d] = pc[d] \/ (pc[d] = "sent" /\ pc'[d] = "done")
        /\ \A d \in Second : pc'[d] = pc[d]
        /\ pc' \in [Call -> Place]
    <3>1. c \in Call /\ Second \subseteq Call
      BY DEF Call, Adding, Removing
    <3> QED
      BY <1>1, <2>1, <3>1 DEF Base, TypeOK, Place
  <2>3. /\ UNCHANGED <<manager, state, locks, asked, old>>
        /\ lapses' \in {lapses, lapses \cup {"unheard"}}
        /\ account' \in {"active", "disabled"} /\ asking' \subseteq asking
    BY <1>3 DEF PutBack
  <2>4. \A d \in Call : pc'[d] \in {"stopping", "waiting", "insisting"} => old'[d] # NoRun
    BY <2>2, <2>3 DEF Base, TypeOK
  <2>5. TypeOK'
    BY <2>2, <2>3, <2>4 DEF Base, TypeOK, manager, locks
  <2> QED
    BY <2>2, <2>3, <2>5
<1> QED
  BY <1>2, <1>3 DEF Answers

LEMMA AnswerKeeps ==
    ASSUME Base, Alone, Watched, NEW c \in Call, Answers(c)
    PROVE  Base' /\ Alone' /\ Watched'
<1>1. /\ UNCHANGED <<tasks, instances, registered, state, line, lockOf, asked, old>>
      /\ \A d \in Call : (Waiting(d)' <=> Waiting(d)) /\ (InLine(d)' <=> InLine(d))
                        /\ (pc'[d] = "stopping" <=> pc[d] = "stopping")
      /\ lapses \subseteq lapses' /\ lapses' \subseteq lapses \cup {"unheard"}
  BY AnswerPlaces DEF manager, locks, Waiting, InLine
<1>2. HoldersInv' /\ StartedInv'
  BY <1>1 DEF Base, HoldersInv, HasLock, StartedInv
<1>3. FreshInv'
  BY <1>1, AnswerPlaces, CallsApart DEF Base, FreshInv
<1>4. PairedInv'
  <2> SUFFICES ASSUME NEW d \in Restart, pc'[d] \in {"new", "sent"} PROVE pc'[AddOf[d]] = "new"
    BY DEF PairedInv
  <2>1. d \in Call /\ AddOf[d] \in Second
    BY CallsApart DEF Call, Removing
  <2> QED
    BY <2>1, AnswerPlaces DEF Base, PairedInv
<1>5. Alone'
  BY <1>1 DEF Alone, Live, OneLock, WaitsRight, AskedInv
<1>6. Watched'
  BY <1>1, CallsApart DEF Watched, Alive, Up, Live
<1> QED
  BY <1>2, <1>3, <1>4, <1>5, <1>6, AnswerPlaces DEF Base
-----------------------------------------------------------------------------
(* A disabled account that is connected still has its stop to come: the    *)
(* user's switch wrote the status first.                                   *)
Coming(c) == pc[c] \in {"sent", "called", "queued", "entered"}

Connected(r) == Live(r) /\ state[r] \in {"connecting", "connected"}

Down ==
    account = "disabled" /\ lapses \subseteq {"slow"} =>
        (\E c \in Stop : Coming(c)) \/ \A r \in Adding : ~Connected(r)

\* No call connects a task.
LEMMA ConnectedCall ==
    ASSUME Base, NEW c \in Call, Calls(c), NEW r \in Adding, Connected(r)'
    PROVE  Connected(r)
<1>1. CASE Add(c) /\ Install(c)
  BY <1>1 DEF Install, Become, Connected, Live, Base, TypeOK
<1>2. CASE UNCHANGED state /\ asked \subseteq asked'
  BY <1>2 DEF Connected, Live
<1> QED
  BY <1>1, <1>2, CallTasks

\* Only a stop that is being sent finds the account active and disables it.
LEMMA AccountCall ==
    ASSUME Base, NEW c \in Call, Calls(c), account' = "disabled"
    PROVE  account = "disabled" \/ (c \in Stop /\ pc'[c] = "sent")
<1>1. CASE Send(c)
  BY <1>1 DEF Send, Goto, Base, TypeOK, backend
<1>2. CASE Schedule(c) \/ Proceed(c)
  BY <1>2 DEF Schedule, Proceed, Arrive, StopNow, StopAsk, StopDone, Enter, AddCancel, Add,
       Install, RemoveCancel, Cancel, Insist, Remove, backend
<1> QED
  BY <1>1, <1>2 DEF Calls

\* A stop that comes to its turn leaves no task connected.
LEMMA StopComes ==
    ASSUME Base, Alone, lapses \subseteq {"slow"}, NEW c \in Stop, Coming(c), Calls(c),
           ~Coming(c)', NEW r \in Adding
    PROVE  ~Live(r)'
<1>1. c \in Call /\ c \in Removing /\ c \notin Adding
  BY CallsApart DEF Removing, Call
<1>2. Live(r) => tasks = r
  BY DEF Alone
<1>3. RemoveCancel(c) \/ (Remove(c) /\ NoTask)
  <2>1. c \notin Restart /\ c \notin Update /\ c \notin Start /\ c \notin Renew
    BY <1>1 DEF Adding, Bare
  <2>2. ~Send(c) /\ ~Schedule(c)
    BY <2>1 DEF Coming, Send, Schedule
  <2>3. ~StopNow(c) /\ ~StopAsk(c) /\ ~StopDone(c) /\ ~Insist(c)
    BY DEF Coming, At, StopNow, StopAsk, StopDone, Insist
  <2>4. ~AddCancel(c) /\ ~Add(c)
    BY <1>1 DEF AddCancel, Add
  <2>5. ~Arrive(c)
    BY <1>1, <2>1 DEF Arrive, FirstPlace, Coming, Base, TypeOK
  <2>6. ~Enter(c)
    BY <1>1 DEF Enter, Goto, Coming, Base, TypeOK
  <2>7. RemoveCancel(c) \/ Remove(c)
    BY <2>2, <2>3, <2>4, <2>5, <2>6 DEF Calls, Proceed
  <2>8. Remove(c) => NoTask
    BY DEF Remove, Coming, At
  <2> QED
    BY <2>7, <2>8
<1>4. CASE RemoveCancel(c)
  BY <1>2, <1>4 DEF RemoveCancel, Cancel, Live
<1>5. CASE Remove(c) /\ NoTask
  BY <1>2, <1>5, CallsApart DEF Remove, NoTask, Ended, Live, Base, TypeOK
<1> QED
  BY <1>3, <1>4, <1>5

LEMMA DownCall ==
    ASSUME Base, Alone, Down, NEW c \in Call, Calls(c)
    PROVE  Down'
<1> SUFFICES ASSUME account' = "disabled", lapses' \subseteq {"slow"},
                    \A d \in Stop : ~Coming(d)', NEW r \in Adding, Connected(r)'
             PROVE  FALSE
  BY DEF Down
<1>1. lapses \subseteq {"slow"} /\ Connected(r)
  BY LapsesGrow, ConnectedCall
<1>2. account = "disabled"
  BY AccountCall DEF Coming
<1>3. PICK d \in Stop : Coming(d)
  BY <1>1, <1>2 DEF Down
<1>4. CASE c = d
  BY <1>1, <1>3, <1>4, StopComes DEF Connected
<1>5. CASE c # d
  <2>1. d \in Call /\ d \notin Second
    BY CallsApart DEF Removing, Call
  <2>2. pc'[d] = pc[d]
    BY <1>5, <2>1, CallPlaces, CallsApart
  <2> QED
    BY <1>3, <2>2 DEF Coming
<1> QED
  BY <1>4, <1>5

\* A task connects only when it reads that the account is active, or cannot
\* read; one that disables the account closes, and it is the only one.
LEMMA DownRun ==
    ASSUME Base, Alone, Down, NEW s \in Adding, Runs(s)
    PROVE  Down'
<1> SUFFICES ASSUME account' = "disabled", lapses' \subseteq {"slow"},
                    \A d \in Stop : ~Coming(d)', NEW r \in Adding, Connected(r)'
             PROVE  FALSE
  BY DEF Down
<1>1. UNCHANGED pc /\ lapses \subseteq {"slow"} /\ Live(r)
  BY RunStep, RunLive DEF Base, Connected
<1>2. \A d \in Stop : ~Coming(d)
  BY <1>1 DEF Coming
<1>3. account = "disabled" => ~Connected(r)
  BY <1>1, <1>2 DEF Down
<1>4. tasks = r
  BY <1>1 DEF Alone
<1> USE DEF Ready, Become, Connected, Live, Base, TypeOK, backend
<1>5. CASE Begin(s) \/ Open(s) \/ Close(s) \/ Cancelled(s) \/ Connect(s) \/ Retry(s)
  BY <1>1, <1>3, <1>5 DEF Begin, Open, Close, Cancelled, Connect, Retry
<1>6. CASE ReadState(s)
  BY <1>1, <1>3, <1>6 DEF ReadState
<1>7. CASE ReadNothing(s)
  BY <1>7 DEF ReadNothing
<1>8. CASE Expire(s) \/ GiveUp(s)
  <2>1. Live(s)
    BY <1>8 DEF Expire, GiveUp
  <2>2. s = r
    BY <1>1, <1>4, <2>1 DEF Alone
  <2> QED
    BY <1>8, <2>2 DEF Expire, GiveUp
<1> QED
  BY <1>5, <1>6, <1>7, <1>8 DEF Runs, RunNext

LEMMA DownAnswer ==
    ASSUME Base, Down, NEW c \in Call, Answers(c)
    PROVE  Down'
<1>1. c \in Start \cup Stop /\ UNCHANGED <<state, asked>>
  BY AnswerPlaces DEF Answers, Hear, PutBack, Base, TypeOK
<1>2. CASE Hear(c)
  BY <1>2 DEF Hear, Down, Coming, Connected, Live
<1>3. CASE PutBack(c)
  BY <1>1, <1>3 DEF PutBack, Down
<1> QED
  BY <1>2, <1>3 DEF Answers

-----------------------------------------------------------------------------
(* The theorems.                                                           *)
Inv == Base /\ Alone /\ Watched

LEMMA InvHolds == Spec => []Inv
<1>1. Init => Inv
  <2>1. Init => Base
    BY BaseInit
  <2>2. Init => Alone /\ Watched
    BY DEF Init, Alone, Watched, Live, Up, Alive, OneLock, WaitsRight, AskedInv, InLine, Waiting
  <2> QED
    BY <2>1, <2>2 DEF Inv
<1>2. Inv /\ [Next]_vars => Inv'
  <2> SUFFICES ASSUME Inv, [Next]_vars PROVE Inv'
    OBVIOUS
  <2>1. CASE \E c \in Call : Calls(c)
    <3>1. PICK c \in Call : Calls(c)
      BY <2>1
    <3>2. Base'
      BY <3>1, BaseCall DEF Inv
    <3>3. Alone'
      BY <3>1, <3>2, AloneCall DEF Inv
    <3> QED
      BY <3>1, <3>2, <3>3, WatchedCall DEF Inv
  <2>2. CASE \E r \in Adding : Runs(r)
    BY <2>2, BaseRun, AloneRun, WatchedRun DEF Inv
  <2>4. CASE \E c \in Call : Answers(c)
    BY <2>4, AnswerKeeps DEF Inv
  <2>3. CASE UNCHANGED vars
    <3>1. Base'
      BY <2>3, BaseStutter DEF Inv
    <3>2. Alone' /\ Watched'
      BY <2>3 DEF vars, backend, manager, locks, Inv, Alone, Watched, Live, Up, Alive, OneLock, WaitsRight,
           AskedInv, InLine, Waiting
    <3> QED
      BY <3>1, <3>2 DEF Inv
  <2> QED
    BY <2>1, <2>2, <2>3, <2>4, NextParts
<1> QED
  BY <1>1, <1>2, PTL DEF Spec

\* Every variable of the manager, the calls and the tasks keeps its type.
THEOREM TypeCorrect == Spec => []TypeOK
<1>1. Inv => TypeOK
  BY DEF Inv, Base
<1> QED
  BY <1>1, InvHolds, PTL

\* Whatever is called, and however often: unless a removed lock or a stop
\* without the lock let two calls work at once, a live task is the manager's.
THEOREM LiveTasksKnown == Spec => []LiveTaskKnown
<1>1. Inv => LiveTaskKnown
  BY DEF Inv, Alone, LiveTaskKnown
<1> QED
  BY <1>1, InvHolds, PTL

\* And if no stop gave up waiting, an instance that is up is found.
THEOREM InstancesKnown == Spec => []InstanceKnown
<1>1. Inv => InstanceKnown
  BY DEF Inv, Watched, InstanceKnown
<1> QED
  BY <1>1, InvHolds, PTL

LEMMA DownHolds == Spec => []Down
<1>1. Init => Down
  BY DEF Init, Down, Connected, Live
<1>2. Inv /\ Down /\ [Next]_vars => Down'
  <2> SUFFICES ASSUME Inv, Down, [Next]_vars PROVE Down'
    OBVIOUS
  <2>1. CASE UNCHANGED vars
    BY <2>1 DEF vars, backend, Down, Coming, Connected, Live
  <2> QED
    BY <2>1, NextParts, DownCall, DownRun, DownAnswer DEF Inv
<1> QED
  BY <1>1, <1>2, InvHolds, PTL DEF Spec

\* When no call is under way a disabled account is not connected, unless calls
\* worked at once, a status was not read or a start not heard of.
THEOREM StoppedAreDown == Spec => []StoppedIsDown
<1>1. Down => StoppedIsDown
  <2> SUFFICES ASSUME Down, AtRest, account = "disabled", lapses \subseteq {"slow"}, NEW r \in Adding, Live(r)
               PROVE  state[r] \notin {"connecting", "connected"}
    BY DEF StoppedIsDown
  <2>1. \A c \in Stop : ~Coming(c)
    BY DEF AtRest, Coming, Call, Removing
  <2> QED
    BY <2>1 DEF Down, Connected
<1> QED
  BY <1>1, DownHolds, PTL
=============================================================================
