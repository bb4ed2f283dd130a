----------------------------- MODULE SliderLogs -----------------------------
(***************************************************************************)
(* Who may solve a slider, and the processing logs (table                  *)
(* xy_risk_control_logs) that decide it.                                   *)
(*                                                                         *)
(* A remote call comes in through the web backend.  Under a Redis lock it  *)
(* counts the processing logs of remote calls; below the limit it adds a   *)
(* log of its own, and only then posts the work to the websocket service,  *)
(* which takes the log over and closes it.  If Redis fails it is admitted  *)
(* by the count alone, as its own database session saw it on arrival, and  *)
(* the websocket service adds the log.                                     *)
(*                                                                         *)
(* A local call (the chat client's through the same endpoint, or an        *)
(* account task's own) is made for one account; the service starts it only *)
(* if no log of that account is processing.  One account is modelled: what *)
(* guards it is kept per account.                                          *)
(*                                                                         *)
(* A websocket service that starts closes every processing log before it   *)
(* opens its port, since the work they stand for is gone.                  *)
(***************************************************************************)
EXTENDS Naturals, FiniteSets

CONSTANTS Remote,         \* remote calls, each made once
          Local,          \* guarded calls for the account, each made once
          Task,           \* those an account task makes: they may be cancelled
          SameName,       \* remote calls that name the same account
          Max,            \* captcha.remote_processing_max
          Cooldown,       \* is captcha.remote_cooldown_seconds above zero?
          RedisFails,     \* may Redis fail?
          DatabaseFails,  \* may the database fail?
          Slow,           \* may a holder outlive its lock, an answer its wait?
          Free            \* nobody: a lock that is not held

ASSUME SliderAssumption ==
    /\ IsFiniteSet(Remote) /\ Remote \cap Local = {}
    /\ Task \subseteq Local /\ SameName \subseteq Remote
    /\ Max \in Nat \ {0}
    /\ Cooldown \in BOOLEAN /\ RedisFails \in BOOLEAN
    /\ DatabaseFails \in BOOLEAN /\ Slow \in BOOLEAN
    /\ Free \notin Remote \cup Local

VARIABLES logs,      \* the log of each call
          request,   \* the web backend's side of each remote call
          view,      \* what the session of a remote call saw on arrival
          job,       \* the websocket service's side of each call
          service,   \* the websocket service: is it up?
          lock,      \* the Redis lock of the admission
          inside,    \* the account's lock in the websocket service
          cooling,   \* has captcha.remote_cooldown_until not come yet?
          excused,   \* history: remote calls the limit does not bind
          lost       \* history: logs nobody is left to close

vars == <<logs, request, view, job, service, lock, inside, cooling, excused, lost>>
backend == <<request, view, lock, cooling>>
websocket == <<job, service, inside>>

Call == Remote \cup Local
Processing == {c \in Call : logs[c] = "processing"}
-----------------------------------------------------------------------------
Init ==
    /\ logs = [c \in Call |-> "none"]
    /\ request = [r \in Remote |-> "idle"]
    /\ view = [r \in Remote |-> {}]
    /\ job = [c \in Call |-> "none"]
    /\ service = "up"
    /\ lock = Free
    /\ inside = Free
    /\ cooling = FALSE
    /\ excused = {}
    /\ lost = {}

\* count_remote_processing_slider_logs against the limit.
Room == Cardinality(Processing \cap Remote) < Max

Goes(r, place) == request' = [request EXCEPT ![r] = place]

\* The snapshot is of no more use.
Forget(r) == view' = [view EXCEPT ![r] = {}]

\* The first statement of the request opens the snapshot its own session
\* keeps: the fallback will read the settings and count the logs in it.
Arrive(r) ==
    /\ request[r] = "idle"
    /\ Goes(r, "waiting")
    /\ view' = [view EXCEPT ![r] = {x \in {"cooling", "room"} :
                                      \/ x = "cooling" /\ cooling
                                      \/ x = "room" /\ Room}]
    /\ UNCHANGED <<logs, lock, cooling, websocket, excused, lost>>

Lock(r) ==
    /\ request[r] = "waiting"
    /\ lock = Free
    /\ lock' = r
    /\ Goes(r, "checking") /\ Forget(r)
    /\ UNCHANGED <<logs, cooling, websocket, excused, lost>>

\* Five seconds have passed without the lock.
Busy(r) ==
    /\ request[r] = "waiting"
    /\ lock # Free
    /\ Goes(r, "over") /\ Forget(r)
    /\ UNCHANGED <<logs, lock, cooling, websocket, excused, lost>>

\* A rejected call starts the cooldown, unless it met one.
Reject(r) ==
    /\ Goes(r, "over")
    /\ cooling' = Cooldown

\* Redis raises: the check without the lock, in the session's snapshot.  A
\* cooldown it shows may be over by now.
FallBack(r) ==
    /\ RedisFails
    /\ request[r] = "waiting"
    /\ \/ /\ \/ "cooling" \in view[r]
             \/ DatabaseFails
          /\ Goes(r, "over")
          /\ UNCHANGED <<cooling, excused>>
       \/ /\ "room" \in view[r]
          /\ Goes(r, "admitted")
          /\ excused' = excused \cup {r}
          /\ UNCHANGED cooling
       \/ /\ "room" \notin view[r]
          /\ Reject(r)
          /\ UNCHANGED excused
    /\ Forget(r)
    /\ UNCHANGED <<logs, lock, websocket, lost>>

\* The lock is released by its owner only; a release that fails leaves it to
\* its expiry.
Release(r) ==
    \/ lock' = IF lock = r THEN Free ELSE lock
    \/ RedisFails /\ UNCHANGED lock
-----------------------------------------------------------------------------
\* Seeded fault: the lock is released before the log is there.
CheckReleasing(r) ==
    /\ request[r] = "checking"
    /\ \/ /\ cooling
          /\ Goes(r, "over")
          /\ UNCHANGED cooling
       \/ /\ ~cooling /\ ~Room
          /\ Reject(r)
       \/ /\ ~cooling /\ Room
          /\ Goes(r, "free")
          /\ UNCHANGED cooling
    /\ Release(r)
    /\ UNCHANGED <<logs, view, websocket, excused, lost>>

\* The check under the lock reads the settings and counts in a new session.
Check(r) ==
    /\ request[r] = "checking"
    /\ \/ /\ \/ cooling
             \/ DatabaseFails
          /\ Goes(r, "over") /\ Release(r)
          /\ UNCHANGED cooling
       \/ /\ ~cooling /\ ~Room
          /\ Reject(r) /\ Release(r)
       \/ /\ ~cooling /\ Room
          /\ Goes(r, "free")
          /\ UNCHANGED <<lock, cooling>>
    /\ UNCHANGED <<logs, view, websocket, excused, lost>>

\* The log is committed before the lock is released.
Create(r) ==
    /\ request[r] = "free"
    /\ \/ /\ logs' = [logs EXCEPT ![r] = "processing"]
          /\ Goes(r, "admitted")
       \/ /\ DatabaseFails
          /\ Goes(r, "over")
          /\ UNCHANGED logs
    /\ Release(r)
    /\ UNCHANGED <<view, cooling, websocket, excused, lost>>

\* The lock lives 60 seconds.
Expire ==
    /\ lock # Free
    /\ \/ Slow
       \/ request[lock] \notin {"checking", "free"}
    /\ lock' = Free
    /\ excused' = IF request[lock] \in {"checking", "free"}
                  THEN excused \cup {lock} ELSE excused
    /\ UNCHANGED <<logs, request, view, cooling, websocket, lost>>

CoolDown ==
    /\ cooling
    /\ cooling' = FALSE
    /\ UNCHANGED <<logs, request, view, lock, websocket, excused, lost>>

Post(r) ==
    /\ request[r] = "admitted"
    /\ IF service = "up"
       THEN /\ Goes(r, "posted")
            /\ job' = [job EXCEPT ![r] = "arrived"]
       ELSE /\ Goes(r, "unsent")
            /\ UNCHANGED job
    /\ UNCHANGED <<logs, view, lock, cooling, service, inside, excused, lost>>

\* Seeded fault: a request that was not sent leaves its log as it is.
UnclaimNothing(r) ==
    /\ request[r] = "unsent"
    /\ Goes(r, "over")
    /\ UNCHANGED <<logs, view, lock, cooling, websocket, excused, lost>>

\* A log nobody took over is cancelled, if it is there and still processing.
Unclaim(r) ==
    /\ request[r] = "unsent"
    /\ Goes(r, "over")
    /\ \/ /\ logs' = [logs EXCEPT ![r] = IF @ = "processing" THEN "ended" ELSE @]
          /\ UNCHANGED lost
       \/ /\ DatabaseFails
          /\ lost' = lost \cup ({r} \cap Processing)
          /\ UNCHANGED logs
    /\ UNCHANGED <<view, lock, cooling, websocket, excused>>

\* The answer came, or none did: then the log stays the service's business.
Hear(r) ==
    /\ request[r] = "posted"
    /\ job[r] = "over" \/ Slow
    /\ Goes(r, "over")
    /\ UNCHANGED <<logs, view, lock, cooling, websocket, excused, lost>>

\* The web backend dies; what it had admitted and not posted is left behind.
BackendDies ==
    /\ \E r \in Remote : request[r] \notin {"idle", "over"}
    /\ request' = [r \in Remote |-> IF request[r] = "idle" THEN "idle" ELSE "over"]
    /\ view' = [r \in Remote |-> {}]
    /\ lost' = lost \cup {r \in Processing \cap Remote :
                            request[r] \in {"admitted", "unsent"}}
    /\ UNCHANGED <<logs, lock, cooling, websocket, excused>>
-----------------------------------------------------------------------------
Works(c, place) == job' = [job EXCEPT ![c] = place]

\* The endpoint takes the log it was given, whatever has become of it, or
\* adds one; it goes on without one if that fails.
Claim(r) ==
    /\ job[r] = "arrived"
    /\ Works(r, "solving")
    /\ IF logs[r] = "none"
       THEN \/ logs' = [logs EXCEPT ![r] = "processing"]
            \/ DatabaseFails /\ UNCHANGED logs
       ELSE UNCHANGED logs
    /\ UNCHANGED <<backend, service, inside, excused, lost>>

\* A guarded call has the account's lock.  Account tasks are started before
\* the port is open.
Enter(l) ==
    /\ \/ service = "up"
       \/ l \in Task /\ service = "starting"
    /\ job[l] = "none"
    /\ inside = Free
    /\ inside' = l
    /\ Works(l, "checking")
    /\ UNCHANGED <<logs, backend, service, excused, lost>>

\* Seeded fault: the account's lock guards the query only.
LookUnlocking(l) ==
    /\ job[l] = "checking"
    /\ IF Processing \cap (Local \cup SameName) # {}
       THEN Works(l, "over") ELSE Works(l, "free")
    /\ inside' = Free
    /\ UNCHANGED <<logs, backend, service, excused, lost>>

\* A processing log of the account, or a query that fails, turns it away.
Look(l) ==
    /\ job[l] = "checking"
    /\ \/ /\ \/ Processing \cap (Local \cup SameName) # {}
             \/ DatabaseFails
          /\ Works(l, "over")
          /\ inside' = Free
       \/ /\ Processing \cap (Local \cup SameName) = {}
          /\ Works(l, "free")
          /\ UNCHANGED inside
    /\ UNCHANGED <<logs, backend, service, excused, lost>>

\* Without a log it does not start.
Record(l) ==
    /\ job[l] = "free"
    /\ \/ /\ logs' = [logs EXCEPT ![l] = "processing"]
          /\ Works(l, "solving")
       \/ /\ DatabaseFails
          /\ Works(l, "over")
          /\ UNCHANGED logs
    /\ inside' = Free
    /\ UNCHANGED <<backend, service, excused, lost>>

\* The log is closed, by its id; a failure is swallowed.
CloseLog(c) ==
    \/ /\ logs' = [logs EXCEPT ![c] = IF @ = "none" THEN @ ELSE "ended"]
       /\ UNCHANGED lost
    \/ /\ DatabaseFails
       /\ lost' = lost \cup ({c} \cap Processing)
       /\ UNCHANGED logs

Finish(c) ==
    /\ job[c] = "solving"
    /\ Works(c, "over")
    /\ CloseLog(c)
    /\ UNCHANGED <<backend, service, inside, excused>>

\* Solving raises: before the log is closed the cookies of a refetch are
\* stored.
Raise(l) ==
    /\ job[l] = "solving"
    /\ Works(l, "storing")
    /\ UNCHANGED <<logs, backend, service, inside, excused, lost>>

\* The account's task is cancelled.  The browser thread goes on, and the
\* cookies are stored here as well; but whom a cancellation meets while it
\* stores them is gone, and its log stays.
Cancel(l) ==
    \/ /\ job[l] \in {"checking", "free"}
       /\ Works(l, "over")
       /\ inside' = Free
       /\ UNCHANGED <<logs, backend, service, excused, lost>>
    \/ Raise(l)
    \/ /\ job[l] = "storing"
       /\ Works(l, "adrift")
       /\ lost' = lost \cup ({l} \cap Processing)
       /\ UNCHANGED <<logs, backend, service, inside, excused>>

\* Stored or not, the log is closed.
Store(l) ==
    /\ job[l] = "storing"
    /\ Works(l, "adrift")
    /\ CloseLog(l)
    /\ UNCHANGED <<backend, service, inside, excused>>

Strand(l) ==
    /\ job[l] = "adrift"
    /\ Works(l, "over")
    /\ UNCHANGED <<logs, backend, service, inside, excused, lost>>

\* The websocket service dies with its jobs and its locks.
ServiceDies ==
    /\ service # "down"
    /\ service' = "down"
    /\ job' = [c \in Call |-> IF job[c] = "none" THEN "none" ELSE "over"]
    /\ inside' = Free
    /\ UNCHANGED <<logs, backend, excused, lost>>

\* At its next start it closes every processing log; it only goes on when
\* that has succeeded.
CleanUp ==
    /\ service = "down"
    /\ service' = "starting"
    /\ logs' = [c \in Call |-> IF logs[c] = "processing" THEN "ended" ELSE logs[c]]
    /\ excused' = excused \cup (Processing \cap Remote)
    /\ lost' = {}
    /\ UNCHANGED <<backend, job, inside>>

Serve ==
    /\ service = "starting"
    /\ service' = "up"
    /\ UNCHANGED <<logs, backend, job, inside, excused, lost>>
-----------------------------------------------------------------------------
Proceed(r) == \/ Lock(r) \/ Busy(r) \/ FallBack(r) \/ Check(r) \/ Create(r)
              \/ Post(r) \/ Unclaim(r) \/ Hear(r)
Solve(c) == \/ c \in Remote /\ Claim(c)
            \/ c \in Local /\ (Look(c) \/ Record(c) \/ Store(c) \/ Strand(c))
            \/ Finish(c)

Next ==
    \/ \E r \in Remote : Arrive(r) \/ Proceed(r)
    \/ \E l \in Local : Enter(l)
    \/ \E l \in Task : Raise(l) \/ Cancel(l)
    \/ \E c \in Call : Solve(c)
    \/ Expire \/ CoolDown \/ BackendDies
    \/ ServiceDies \/ CleanUp \/ Serve

\* Every wait of the backend and every solving has a time limit, and Docker
\* restarts a service that died.
Fairness ==
    /\ \A r \in Remote : WF_vars(Proceed(r))
    /\ \A c \in Call : WF_vars(Solve(c))
    /\ WF_vars(CleanUp) /\ WF_vars(Serve)

Spec == Init /\ [][Next]_vars
FairSpec == Spec /\ Fairness
-----------------------------------------------------------------------------
(* Every variable keeps its type.                                          *)
TypeOK ==
    /\ logs \in [Call -> {"none", "processing", "ended"}]
    /\ request \in [Remote -> {"idle", "waiting", "checking", "free", "admitted",
                               "posted", "unsent", "over"}]
    /\ view \in [Remote -> SUBSET {"cooling", "room"}]
    /\ job \in [Call -> {"none", "arrived", "checking", "free", "solving",
                         "storing", "adrift", "over"}]
    /\ service \in {"up", "down", "starting"}
    /\ lock \in Remote \cup {Free}
    /\ inside \in Local \cup {Free}
    /\ cooling \in BOOLEAN
    /\ excused \subseteq Remote
    /\ lost \subseteq Call

\* The remote calls that are on their way to a browser, or in one.
OnTheirWay ==
    {r \in Remote : request[r] = "admitted" \/ job[r] \in {"arrived", "solving"}}

(* The limit holds: no more remote calls than it allows are under way,     *)
(* whichever processes died, answers were late or logs could not be        *)
(* written, but for those that came in without the lock, outran it, or had *)
(* their log closed by a restart before they were posted.                  *)
LimitHolds == Cardinality(OnTheirWay \ excused) <= Max

(* Two guarded calls never solve for one account at the same time,         *)
(* restarts and failures included ("one critical section, to avoid         *)
(* concurrent sliders").  A cancelled call no longer counts, although its  *)
(* browser may still be open: the account's browser lock is for that.      *)
OneSliderPerAccount ==
    \A l1, l2 \in Local : job[l1] = "solving" /\ job[l2] = "solving" => l1 = l2

(* A processing log ends, so its place under the limit and its account are *)
(* free again; unless closing it failed, the web backend died with it, or  *)
(* its task was cancelled while it stored cookies before closing it.  Then *)
(* the next start of the websocket service ends it.                        *)
SlotsComeBack ==
    \A c \in Call : logs[c] = "processing" ~> (logs[c] = "ended" \/ c \in lost)
=============================================================================
