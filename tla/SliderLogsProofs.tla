-------------------------- MODULE SliderLogsProofs --------------------------
(***************************************************************************)
(* Proofs about SliderLogs, for any calls and any limit.                   *)
(*                                                                         *)
(* Counted are the processing logs of the remote calls that the limit      *)
(* binds.  Such a call has its log from the moment it is admitted until    *)
(* its browser is through (HasLog), and its log is only added by the       *)
(* holder of the Redis lock, which has just seen fewer than the limit and  *)
(* whom nobody can have overtaken (Admits).                                *)
(***************************************************************************)
EXTENDS SliderLogs, FiniteSetTheorems, TLAPS

\* The places of a call before it has a log, and before it is posted.
Places ==
    /\ \A r \in Remote : request[r] \in {"idle", "waiting", "checking", "free"}
         => logs[r] = "none" /\ job[r] = "none"
    /\ \A r \in Remote : request[r] \in {"admitted", "unsent"} => job[r] = "none"
    /\ \A l \in Local : job[l] \in {"none", "checking", "free"} => logs[l] = "none"

Base == TypeOK /\ Places

\* While the service is down, nothing is under way in it.
Quiet == service = "down" => \A c \in Call : job[c] \in {"none", "over"}

\* Who is between the query and its log has the account's lock, and found
\* no log; who solves has one.
Guarded ==
    /\ \A l \in Local : job[l] \in {"checking", "free"} => inside = l
    /\ \A l \in Local : job[l] = "free" => \A k \in Local : logs[k] # "processing"
    /\ \A l \in Local : job[l] = "solving" => logs[l] = "processing"

Counted == (Processing \cap Remote) \ excused

HasLog == OnTheirWay \ excused \subseteq Counted

Admits ==
    /\ \A r \in Remote \ excused : request[r] \in {"checking", "free"} => lock = r
    /\ \A r \in Remote \ excused : request[r] = "free" => Cardinality(Counted) < Max

WithinMax == Cardinality(Counted) <= Max

Limit == HasLog /\ Admits /\ WithinMax

\* Somebody will close the log of a call: its request, its job, or the next
\* start of the service.
HasCloser(c) ==
    \/ service = "down"
    \/ c \in Remote /\ (request[c] \in {"admitted", "unsent"} \/ job[c] = "arrived")
    \/ job[c] \in {"solving", "storing"}

(* Every processing log has somebody who will close it, or its closing has *)
(* failed, or whoever was to close it is gone.                             *)
LogsHaveClosers == \A c \in Processing : HasCloser(c) \/ c \in lost

USE SliderAssumption DEF Call
-----------------------------------------------------------------------------
(* The type invariant and the places.                                      *)
LEMMA InitBase == Init => Base
BY DEF Init, Base, TypeOK, Places

\* The steps of the web backend.
LEMMA RequestBase ==
    ASSUME Base, NEW r \in Remote, Arrive(r) \/ Proceed(r)
    PROVE  Base'
<1>1. CASE Arrive(r)
  BY <1>1 DEF Arrive, Goes, Base, TypeOK, Places, websocket
<1>2. CASE Lock(r)
  BY <1>2 DEF Lock, Goes, Forget, Base, TypeOK, Places, websocket
<1>3. CASE Busy(r)
  BY <1>3 DEF Busy, Goes, Forget, Base, TypeOK, Places, websocket
<1>4. CASE FallBack(r)
  BY <1>4 DEF FallBack, Reject, Goes, Forget, Base, TypeOK, Places, websocket
<1>5. CASE Check(r)
  BY <1>5 DEF Check, Reject, Release, Goes, Base, TypeOK, Places, websocket
<1>6. CASE Create(r)
  BY <1>6 DEF Create, Release, Goes, Base, TypeOK, Places, websocket
<1>7. CASE Post(r)
  BY <1>7 DEF Post, Goes, Base, TypeOK, Places
<1>8. CASE Unclaim(r)
  BY <1>8 DEF Unclaim, Processing, Goes, Base, TypeOK, Places, websocket
<1>9. CASE Hear(r)
  BY <1>9 DEF Hear, Goes, Base, TypeOK, Places, websocket
<1> QED
  BY <1>1, <1>2, <1>3, <1>4, <1>5, <1>6, <1>7, <1>8, <1>9 DEF Proceed

\* The steps of a guarded call.
LEMMA LocalBase ==
    ASSUME Base, NEW l \in Local,
           Enter(l) \/ Raise(l) \/ Cancel(l) \/ Look(l) \/ Record(l) \/ Store(l) \/ Strand(l)
    PROVE  Base'
<1>1. CASE Enter(l)
  BY <1>1 DEF Enter, Works, Base, TypeOK, Places, backend
<1>2. CASE Raise(l) \/ Cancel(l)
  BY <1>2 DEF Raise, Cancel, Processing, Works, Base, TypeOK, Places, backend
<1>3. CASE Look(l)
  BY <1>3 DEF Look, Works, Base, TypeOK, Places, backend
<1>4. CASE Record(l)
  BY <1>4 DEF Record, Works, Base, TypeOK, Places, backend
<1>5. CASE Strand(l)
  BY <1>5 DEF Strand, Works, Base, TypeOK, Places, backend
<1>6. CASE Store(l)
  BY <1>6 DEF Store, CloseLog, Processing, Works, Base, TypeOK, Places, backend
<1> QED
  BY <1>1, <1>2, <1>3, <1>4, <1>5, <1>6

LEMMA ClaimBase ==
    ASSUME Base, NEW r \in Remote, Claim(r)
    PROVE  Base'
BY DEF Claim, Works, Base, TypeOK, Places, backend

LEMMA FinishBase ==
    ASSUME Base, NEW c \in Call, Finish(c)
    PROVE  Base'
BY DEF Finish, CloseLog, Processing, Works, Base, TypeOK, Places, backend

\* The steps of nobody in particular.
Global == Expire \/ CoolDown \/ BackendDies \/ ServiceDies \/ CleanUp \/ Serve

LEMMA GlobalBase ==
    ASSUME Base, Global
    PROVE  Base'
<1>1. CASE Expire
  BY <1>1 DEF Expire, Base, TypeOK, Places, websocket
<1>2. CASE CoolDown
  BY <1>2 DEF CoolDown, Base, TypeOK, Places, websocket
<1>3. CASE BackendDies
  BY <1>3 DEF BackendDies, Processing, Base, TypeOK, Places, websocket
<1>4. CASE ServiceDies
  BY <1>4 DEF ServiceDies, Base, TypeOK, Places, backend
<1>5. CASE CleanUp
  BY <1>5 DEF CleanUp, Processing, Base, TypeOK, Places, backend
<1>6. CASE Serve
  BY <1>6 DEF Serve, Base, TypeOK, Places, backend
<1> QED
  BY <1>1, <1>2, <1>3, <1>4, <1>5, <1>6 DEF Global

(* A step of Next is one of these.                                         *)
LEMMA Steps ==
    ASSUME Next
    PROVE  \/ \E r \in Remote : Arrive(r) \/ Proceed(r) \/ Claim(r)
           \/ \E l \in Local : \/ Enter(l) \/ Raise(l) \/ Cancel(l) \/ Look(l)
                             \/ Record(l) \/ Store(l) \/ Strand(l)
           \/ \E c \in Call : Finish(c)
           \/ Global
BY DEF Next, Solve, Global

LEMMA BaseInductive == Base /\ [Next]_vars => Base'
<1> SUFFICES ASSUME Base, [Next]_vars PROVE Base'
  OBVIOUS
<1>1. CASE Next
  BY <1>1, Steps, RequestBase, LocalBase, ClaimBase, FinishBase, GlobalBase
<1>2. CASE UNCHANGED vars
  BY <1>2 DEF vars, Base, TypeOK, Places
<1> QED
  BY <1>1, <1>2

(* Every variable keeps its type.                                          *)
THEOREM TypeCorrect == Spec => []TypeOK
<1>1. Base => TypeOK
  BY DEF Base
<1> QED
  BY <1>1, InitBase, BaseInductive, PTL DEF Spec
-----------------------------------------------------------------------------
(* One slider per account.                                                 *)
GuardInv == Base /\ Quiet /\ Guarded

LEMMA InitGuard == Init => GuardInv
BY InitBase DEF Init, GuardInv, Quiet, Guarded

LEMMA RequestGuard ==
    ASSUME GuardInv, NEW r \in Remote, Arrive(r) \/ Proceed(r) \/ Claim(r)
    PROVE  (Quiet /\ Guarded)'
<1>1. CASE Arrive(r) \/ Lock(r) \/ Busy(r) \/ FallBack(r) \/ Check(r) \/ Hear(r)
  BY <1>1 DEF Arrive, Lock, Busy, FallBack, Check, Hear, GuardInv, Quiet, Guarded, websocket
<1>2. CASE Create(r)
  BY <1>2 DEF Create, GuardInv, Base, TypeOK, Quiet, Guarded, websocket
<1>3. CASE Post(r)
  BY <1>3 DEF Post, GuardInv, Base, TypeOK, Quiet, Guarded
<1>4. CASE Unclaim(r)
  BY <1>4 DEF Unclaim, GuardInv, Base, TypeOK, Quiet, Guarded, websocket
<1>5. CASE Claim(r)
  BY <1>5 DEF Claim, Works, GuardInv, Base, TypeOK, Quiet, Guarded
<1> QED
  BY <1>1, <1>2, <1>3, <1>4, <1>5 DEF Proceed

LEMMA LocalGuard ==
    ASSUME GuardInv, NEW l \in Local,
           Enter(l) \/ Raise(l) \/ Cancel(l) \/ Look(l) \/ Record(l) \/ Store(l) \/ Strand(l)
    PROVE  (Quiet /\ Guarded)'
<1> USE DEF GuardInv, Base, TypeOK, Quiet, Guarded
<1>1. CASE Enter(l)
  BY <1>1 DEF Enter, Works
<1>2. CASE Raise(l) \/ Cancel(l)
  BY <1>2 DEF Raise, Cancel, Works
<1>3. CASE Look(l)
  BY <1>3 DEF Look, Processing, Works
<1>4. CASE Record(l)
  BY <1>4 DEF Record, Works
<1>5. CASE Strand(l)
  BY <1>5 DEF Strand, Works
<1>6. CASE Store(l)
  BY <1>6 DEF Store, CloseLog, Works
<1> QED
  BY <1>1, <1>2, <1>3, <1>4, <1>5, <1>6

LEMMA FinishGuard ==
    ASSUME GuardInv, NEW c \in Call, Finish(c)
    PROVE  (Quiet /\ Guarded)'
BY DEF Finish, CloseLog, Works, GuardInv, Base, TypeOK, Quiet, Guarded

LEMMA GlobalGuard ==
    ASSUME GuardInv, Global
    PROVE  (Quiet /\ Guarded)'
<1> USE DEF GuardInv, Base, TypeOK, Quiet, Guarded
<1>1. CASE Expire \/ CoolDown \/ BackendDies \/ Serve
  BY <1>1 DEF Expire, CoolDown, BackendDies, Serve, websocket
<1>2. CASE ServiceDies
  BY <1>2 DEF ServiceDies
<1>3. CASE CleanUp
  BY <1>3 DEF CleanUp
<1> QED
  BY <1>1, <1>2, <1>3 DEF Global

LEMMA GuardInductive == GuardInv /\ [Next]_vars => GuardInv'
<1> SUFFICES ASSUME GuardInv, [Next]_vars PROVE GuardInv'
  OBVIOUS
<1>1. Base'
  BY BaseInductive DEF GuardInv
<1>2. CASE Next
  BY <1>1, <1>2, Steps, RequestGuard, LocalGuard, FinishGuard, GlobalGuard DEF GuardInv
<1>3. CASE UNCHANGED vars
  BY <1>1, <1>3 DEF vars, GuardInv, Quiet, Guarded
<1> QED
  BY <1>2, <1>3

(* Two guarded calls never solve for one account at the same time.         *)
THEOREM OneSliderEach == Spec => []OneSliderPerAccount
<1> DEFINE Alone == GuardInv /\ OneSliderPerAccount
<1>1. Init => Alone
  BY InitGuard DEF Init, OneSliderPerAccount
<1>2. Alone /\ [Next]_vars => Alone'
  <2> SUFFICES ASSUME Alone, [Next]_vars PROVE OneSliderPerAccount'
    BY GuardInductive
  <2>1. CASE \E l \in Local : Record(l)
    BY <2>1 DEF Record, Works, GuardInv, Base, TypeOK, Guarded, OneSliderPerAccount
  <2>2. CASE ~\E l \in Local : Record(l)
    <3>1. \A l \in Local : job'[l] = "solving" => job[l] = "solving"
      <4> SUFFICES ASSUME NEW l \in Local, job'[l] = "solving" PROVE job[l] = "solving"
        OBVIOUS
      <4> USE DEF GuardInv, Base, TypeOK
      <4>1. CASE UNCHANGED vars
        BY <4>1 DEF vars
      <4>2. CASE \E r \in Remote : Arrive(r) \/ Proceed(r) \/ Claim(r)
        BY <4>2 DEF Arrive, Proceed, Lock, Busy, FallBack, Check, Create, Post, Unclaim, Hear,
                    Claim, Works, websocket
      <4>3. CASE \E k \in Local : \/ Enter(k) \/ Raise(k) \/ Cancel(k) \/ Look(k)
                                 \/ Store(k) \/ Strand(k)
        BY <4>3 DEF Enter, Raise, Cancel, Look, Store, Strand, Works
      <4>4. CASE \E c \in Call : Finish(c)
        BY <4>4 DEF Finish, Works
      <4>5. CASE Global
        BY <4>5 DEF Global, Expire, CoolDown, BackendDies, ServiceDies, CleanUp, Serve, websocket
      <4> QED
        BY <2>2, <4>1, <4>2, <4>3, <4>4, <4>5, Steps
    <3> QED
      BY <3>1 DEF OneSliderPerAccount
  <2> QED
    BY <2>1, <2>2
<1> QED
  BY <1>1, <1>2, PTL DEF Spec
-----------------------------------------------------------------------------
(* The limit.                                                              *)
LEMMA CountedFinite ==
    ASSUME Base
    PROVE  IsFiniteSet(Counted) /\ Cardinality(Counted) \in Nat
<1>1. Counted \subseteq Remote
  BY DEF Counted
<1>2. IsFiniteSet(Counted)
  BY <1>1, FS_Subset
<1> QED
  BY <1>2, FS_CardinalityType

\* Where no log is added, what held of the count holds on.
LEMMA FewerCounted ==
    ASSUME Base, Counted' \subseteq Counted
    PROVE  Cardinality(Counted') \in Nat /\ Cardinality(Counted') <= Cardinality(Counted)
<1>1. IsFiniteSet(Counted') /\ Cardinality(Counted') <= Cardinality(Counted)
  BY CountedFinite, FS_Subset
<1> QED
  BY <1>1, FS_CardinalityType

\* What Room sees is at least what is counted.
LEMMA RoomCounts ==
    ASSUME Base, Room
    PROVE  Cardinality(Counted) < Max
<1>1. Counted \subseteq Processing \cap Remote /\ Processing \cap Remote \subseteq Remote
  BY DEF Counted
<1>2. IsFiniteSet(Processing \cap Remote)
  BY <1>1, FS_Subset
<1>3. Cardinality(Counted) <= Cardinality(Processing \cap Remote)
  BY <1>1, <1>2, FS_Subset
<1>4. Cardinality(Processing \cap Remote) \in Nat
  BY <1>2, FS_CardinalityType
<1> QED
  BY <1>3, <1>4, CountedFinite DEF Room

LimitInv == Base /\ Limit

LEMMA InitLimit == Init => LimitInv
<1> SUFFICES ASSUME Init PROVE LimitInv
  OBVIOUS
<1>1. Counted = {} /\ HasLog /\ Admits
  BY DEF Init, Counted, Processing, HasLog, OnTheirWay, Admits
<1>2. Cardinality(Counted) = 0
  BY <1>1, FS_EmptySet
<1> QED
  BY <1>1, <1>2, InitBase DEF LimitInv, Limit, WithinMax

\* A step that adds no counted log, lets nobody on its way that has none,
\* and lets nobody into the check that has not the lock.
LEMMA LimitKept ==
    ASSUME LimitInv, Base',
           Counted' \subseteq Counted,
           HasLog',
           \A r \in Remote \ excused' : request'[r] \in {"checking", "free"} => lock' = r,
           \A r \in Remote \ excused' : request'[r] = "free" =>
               r \notin excused /\ (request[r] = "free" \/ Room)
    PROVE  Limit'
<1>1. Cardinality(Counted') \in Nat /\ Cardinality(Counted') <= Cardinality(Counted)
  BY FewerCounted DEF LimitInv
<1>2. Cardinality(Counted) \in Nat /\ Max \in Nat
  BY CountedFinite DEF LimitInv
<1>3. WithinMax'
  BY <1>1, <1>2 DEF LimitInv, Limit, WithinMax
<1>4. \A r \in Remote \ excused' : request'[r] = "free" => Cardinality(Counted') < Max
  BY <1>1, <1>2, RoomCounts DEF LimitInv, Limit, Admits
<1> QED
  BY <1>3, <1>4 DEF Limit, Admits

\* The holder of the lock adds its log.
LEMMA CreateLimit ==
    ASSUME LimitInv, Base', NEW r \in Remote, Create(r)
    PROVE  Limit'
<1> USE DEF LimitInv, Limit, Base, TypeOK
<1>1. CASE logs' = [logs EXCEPT ![r] = "processing"] /\ Goes(r, "admitted") /\ r \notin excused
  <2>1. Counted' = Counted \cup {r}
    BY <1>1 DEF Create, Counted, Processing
  <2>2. r \notin Counted
    BY DEF Create, Places, Counted, Processing
  <2>3. Cardinality(Counted') = Cardinality(Counted) + 1
    BY <2>1, <2>2, CountedFinite, FS_AddElement
  <2>4. Cardinality(Counted) < Max /\ lock = r
    BY <1>1 DEF Create, Admits
  <2>5. WithinMax'
    BY <2>3, <2>4, CountedFinite DEF WithinMax
  <2>6. HasLog'
    BY <1>1, <2>1 DEF Create, HasLog, OnTheirWay, Goes, websocket
  <2>7. \A q \in Remote \ excused' : request'[q] \notin {"checking", "free"}
    BY <1>1, <2>4 DEF Create, Admits, Goes
  <2> QED
    BY <2>5, <2>6, <2>7 DEF Admits
<1>2. CASE ~(logs' = [logs EXCEPT ![r] = "processing"] /\ Goes(r, "admitted") /\ r \notin excused)
  <2>1. Counted' \subseteq Counted
    BY <1>2 DEF Create, Counted, Processing
  <2>2. HasLog'
    BY <1>2 DEF Create, HasLog, OnTheirWay, Goes, websocket, Counted, Processing
  <2>3. \A q \in Remote \ excused' : request'[q] \in {"checking", "free"} => lock' = q
    BY DEF Create, Release, Goes, Admits
  <2>4. \A q \in Remote : request'[q] = "free" => request[q] = "free"
    BY DEF Create, Goes
  <2> QED
    BY <2>1, <2>2, <2>3, <2>4, LimitKept DEF Create
<1> QED
  BY <1>1, <1>2

LEMMA RequestLimit ==
    ASSUME LimitInv, Base', NEW r \in Remote, Arrive(r) \/ Proceed(r) \/ Claim(r)
    PROVE  Limit'
<1> USE DEF LimitInv, Limit, Base, TypeOK
<1>1. CASE Create(r)
  BY <1>1, CreateLimit
<1>2. CASE ~Create(r)
  <2> USE DEF Goes, Forget, Works, websocket, backend
  <2>0. Arrive(r) \/ Lock(r) \/ Busy(r) \/ FallBack(r) \/ Check(r) \/ Post(r)
          \/ Unclaim(r) \/ Hear(r) \/ Claim(r)
    BY <1>2 DEF Proceed
  <2>1. CASE Arrive(r) \/ Lock(r) \/ Busy(r) \/ Hear(r)
    <3> USE <2>1 DEF Arrive, Lock, Busy, Hear
    <3>1. Counted' = Counted
      BY DEF Counted, Processing
    <3>2. HasLog'
      BY <3>1 DEF HasLog, OnTheirWay
    <3>3. \A q \in Remote \ excused' : request'[q] \in {"checking", "free"} => lock' = q
      BY DEF Admits
    <3> QED
      BY <3>1, <3>2, <3>3, LimitKept
  <2>2. CASE FallBack(r)
    <3> USE <2>2 DEF FallBack, Reject
    <3>1. Counted' \subseteq Counted
      BY DEF Counted, Processing
    <3>2. HasLog'
      BY DEF HasLog, OnTheirWay, Counted, Processing
    <3>3. \A q \in Remote \ excused' : request'[q] \in {"checking", "free"} => lock' = q
      BY DEF Admits
    <3> QED
      BY <3>1, <3>2, <3>3, LimitKept
  <2>3. CASE Check(r)
    <3> USE <2>3 DEF Check, Reject
    <3>1. Counted' = Counted
      BY DEF Counted, Processing
    <3>2. HasLog'
      BY <3>1 DEF HasLog, OnTheirWay
    <3>3. \A q \in Remote \ excused' : request'[q] \in {"checking", "free"} => lock' = q
      BY DEF Release, Admits
    <3> QED
      BY <3>1, <3>2, <3>3, LimitKept
  <2>4. CASE Post(r)
    <3> USE <2>4 DEF Post
    <3>1. Counted' = Counted
      BY DEF Counted, Processing
    <3>2. HasLog'
      BY <3>1 DEF HasLog, OnTheirWay
    <3>3. \A q \in Remote \ excused' : request'[q] \in {"checking", "free"} => lock' = q
      BY DEF Admits
    <3> QED
      BY <3>1, <3>2, <3>3, LimitKept
  <2>5. CASE Unclaim(r)
    <3> USE <2>5 DEF Unclaim
    <3>1. Counted' \subseteq Counted
      BY DEF Counted, Processing
    <3>2. HasLog'
      BY DEF HasLog, OnTheirWay, Counted, Processing, Places
    <3>3. \A q \in Remote \ excused' : request'[q] \in {"checking", "free"} => lock' = q
      BY DEF Admits
    <3> QED
      BY <3>1, <3>2, <3>3, LimitKept
  <2>6. CASE Claim(r)
    <3> USE <2>6 DEF Claim
    <3>1. r \in excused \/ logs[r] = "processing"
      BY DEF HasLog, OnTheirWay, Counted, Processing
    <3>2. Counted' = Counted
      BY <3>1 DEF Counted, Processing
    <3>3. HasLog'
      BY <3>2 DEF HasLog, OnTheirWay
    <3>4. \A q \in Remote \ excused' : request'[q] \in {"checking", "free"} => lock' = q
      BY DEF Admits
    <3> QED
      BY <3>2, <3>3, <3>4, LimitKept
  <2> QED
    BY <2>0, <2>1, <2>2, <2>3, <2>4, <2>5, <2>6
<1> QED
  BY <1>1, <1>2

LEMMA LocalLimit ==
    ASSUME LimitInv, Base', NEW l \in Local,
           Enter(l) \/ Raise(l) \/ Cancel(l) \/ Look(l) \/ Record(l) \/ Store(l) \/ Strand(l)
    PROVE  Limit'
<1> USE DEF LimitInv, Limit, Base, TypeOK
<1>1. UNCHANGED <<request, lock, excused>>
      /\ \A r \in Remote : logs'[r] = logs[r] /\ job'[r] = job[r]
  BY DEF Enter, Raise, Cancel, CloseLog, Look, Record, Store, Strand, Works, backend
<1>2. Counted' = Counted /\ OnTheirWay' = OnTheirWay
  BY <1>1 DEF Counted, Processing, OnTheirWay
<1> QED
  BY <1>1, <1>2, LimitKept DEF HasLog, Admits

LEMMA FinishLimit ==
    ASSUME LimitInv, Base', NEW c \in Call, Finish(c)
    PROVE  Limit'
<1> USE DEF LimitInv, Limit, Base, TypeOK
<1>1. Counted' \subseteq Counted
  BY DEF Finish, CloseLog, Counted, Processing
<1>2. HasLog'
  BY DEF Finish, CloseLog, Works, HasLog, OnTheirWay, Counted, Processing, Places, backend
<1>3. \A q \in Remote \ excused' : request'[q] \in {"checking", "free"} => lock' = q
  BY DEF Finish, Admits, backend
<1> QED
  BY <1>1, <1>2, <1>3, LimitKept DEF Finish, backend

LEMMA GlobalLimit ==
    ASSUME LimitInv, Base', Global
    PROVE  Limit'
<1> USE DEF LimitInv, Limit, Base, TypeOK
<1>1. Counted' \subseteq Counted
  BY DEF Global, Expire, CoolDown, BackendDies, ServiceDies, CleanUp, Serve, Counted, Processing
<1>2. HasLog'
  <2> USE DEF HasLog, OnTheirWay, Counted, Processing
  <2>1. CASE Expire
    BY <2>1 DEF Expire, websocket
  <2>2. CASE CoolDown \/ Serve
    BY <2>2 DEF CoolDown, Serve, backend, websocket
  <2>3. CASE BackendDies
    BY <2>3 DEF BackendDies, websocket
  <2>4. CASE ServiceDies
    BY <2>4 DEF ServiceDies, backend
  <2>5. CASE CleanUp
    BY <2>5 DEF CleanUp, backend
  <2> QED
    BY <2>1, <2>2, <2>3, <2>4, <2>5 DEF Global
<1>3. \A q \in Remote \ excused' : request'[q] \in {"checking", "free"} => lock' = q
  <2>1. CASE Expire
    BY <2>1 DEF Expire, Admits
  <2>2. CASE CoolDown \/ BackendDies \/ ServiceDies \/ CleanUp \/ Serve
    BY <2>2 DEF CoolDown, BackendDies, ServiceDies, CleanUp, Serve, Admits, backend
  <2> QED
    BY <2>1, <2>2 DEF Global
<1>4. \A q \in Remote \ excused' : request'[q] = "free" => q \notin excused /\ request[q] = "free"
  BY DEF Global, Expire, CoolDown, BackendDies, ServiceDies, CleanUp, Serve, backend
<1> QED
  BY <1>1, <1>2, <1>3, <1>4, LimitKept

LEMMA LimitInductive == LimitInv /\ [Next]_vars => LimitInv'
<1> SUFFICES ASSUME LimitInv, [Next]_vars PROVE LimitInv'
  OBVIOUS
<1>1. Base'
  BY BaseInductive DEF LimitInv
<1>2. CASE Next
  BY <1>1, <1>2, Steps, RequestLimit, LocalLimit, FinishLimit, GlobalLimit DEF LimitInv
<1>3. CASE UNCHANGED vars
  BY <1>1, <1>3 DEF vars, LimitInv, Limit, HasLog, OnTheirWay, Counted, Processing, Admits,
                    WithinMax
<1> QED
  BY <1>2, <1>3

(* No more remote calls than the limit allows are under way, but for those *)
(* it cannot bind.                                                         *)
THEOREM LimitHeld == Spec => []LimitHolds
<1>1. LimitInv => LimitHolds
  <2> SUFFICES ASSUME LimitInv PROVE LimitHolds
    OBVIOUS
  <2>1. Base /\ OnTheirWay \ excused \subseteq Counted /\ Cardinality(Counted) <= Max
    BY DEF LimitInv, Limit, HasLog, WithinMax
  <2>2. /\ IsFiniteSet(OnTheirWay \ excused)
        /\ Cardinality(OnTheirWay \ excused) <= Cardinality(Counted)
    BY <2>1, CountedFinite, FS_Subset
  <2> QED
    BY <2>1, <2>2, CountedFinite, FS_CardinalityType DEF LimitHolds
<1> QED
  BY <1>1, InitLimit, LimitInductive, PTL DEF Spec
-----------------------------------------------------------------------------
(* The ends of the logs.                                                   *)
CloserInv == Base /\ LogsHaveClosers

LEMMA InitCloser == Init => CloserInv
BY InitBase DEF Init, CloserInv, LogsHaveClosers, Processing

LEMMA RequestCloser ==
    ASSUME CloserInv, NEW r \in Remote, Arrive(r) \/ Proceed(r) \/ Claim(r)
    PROVE  LogsHaveClosers'
<1> USE DEF CloserInv, Base, TypeOK, LogsHaveClosers, HasCloser, Processing, Goes, websocket
<1>1. CASE Arrive(r) \/ Lock(r) \/ Busy(r) \/ Hear(r)
  BY <1>1 DEF Arrive, Lock, Busy, Hear
<1>2. CASE FallBack(r)
  BY <1>2 DEF FallBack, Reject
<1>3. CASE Check(r)
  BY <1>3 DEF Check, Reject
<1>4. CASE Create(r)
  BY <1>4 DEF Create
<1>5. CASE Post(r)
  BY <1>5 DEF Post
<1>6. CASE Unclaim(r)
  BY <1>6 DEF Unclaim, Places
<1>7. CASE Claim(r)
  BY <1>7 DEF Claim, Works, backend
<1> QED
  BY <1>1, <1>2, <1>3, <1>4, <1>5, <1>6, <1>7 DEF Proceed

LEMMA LocalCloser ==
    ASSUME CloserInv, NEW l \in Local,
           Enter(l) \/ Raise(l) \/ Cancel(l) \/ Look(l) \/ Record(l) \/ Store(l) \/ Strand(l)
    PROVE  LogsHaveClosers'
<1> USE DEF CloserInv, Base, TypeOK, LogsHaveClosers, HasCloser, Processing, Works, backend
<1>1. CASE Enter(l)
  BY <1>1 DEF Enter
<1>2. CASE Raise(l) \/ Cancel(l)
  BY <1>2 DEF Raise, Cancel, Places
<1>3. CASE Look(l)
  BY <1>3 DEF Look, Places
<1>4. CASE Record(l)
  BY <1>4 DEF Record, Places
<1>5. CASE Strand(l)
  BY <1>5 DEF Strand
<1>6. CASE Store(l)
  BY <1>6 DEF Store, CloseLog
<1> QED
  BY <1>1, <1>2, <1>3, <1>4, <1>5, <1>6

LEMMA FinishCloser ==
    ASSUME CloserInv, NEW c \in Call, Finish(c)
    PROVE  LogsHaveClosers'
BY DEF Finish, CloseLog, CloserInv, Base, TypeOK, LogsHaveClosers, HasCloser, Processing, Works,
       backend

LEMMA GlobalCloser ==
    ASSUME CloserInv, Global
    PROVE  LogsHaveClosers'
<1> USE DEF CloserInv, Base, TypeOK, LogsHaveClosers, HasCloser, Processing
<1>1. CASE Expire \/ CoolDown \/ Serve
  BY <1>1 DEF Expire, CoolDown, Serve, backend, websocket
<1>2. CASE BackendDies
  BY <1>2 DEF BackendDies, websocket
<1>3. CASE ServiceDies
  BY <1>3 DEF ServiceDies
<1>4. CASE CleanUp
  BY <1>4 DEF CleanUp
<1> QED
  BY <1>1, <1>2, <1>3, <1>4 DEF Global

(* A processing log always has somebody who will close it, unless closing  *)
(* it failed, the web backend died with it, or a cancellation met its task *)
(* while it stored cookies before closing it (handle_captcha_verification):*)
(* what SlotsComeBack rests on.                                            *)
THEOREM LogsAreClosed == Spec => []LogsHaveClosers
<1>1. CloserInv /\ [Next]_vars => CloserInv'
  <2> SUFFICES ASSUME CloserInv, [Next]_vars PROVE CloserInv'
    OBVIOUS
  <2>1. Base'
    BY BaseInductive DEF CloserInv
  <2>2. CASE Next
    BY <2>1, <2>2, Steps, RequestCloser, LocalCloser, FinishCloser, GlobalCloser DEF CloserInv
  <2>3. CASE UNCHANGED vars
    BY <2>1, <2>3 DEF vars, CloserInv, LogsHaveClosers, HasCloser, Processing
  <2> QED
    BY <2>2, <2>3
<1>2. CloserInv => LogsHaveClosers
  BY DEF CloserInv
<1> QED
  BY <1>1, <1>2, InitCloser, PTL DEF Spec
=============================================================================
