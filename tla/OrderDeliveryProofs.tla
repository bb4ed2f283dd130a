------------------------ MODULE OrderDeliveryProofs -------------------------
(***************************************************************************)
(* What the delivery of an order guarantees for any number of handlers,    *)
(* posts, messages and deaths.                                             *)
(***************************************************************************)
EXTENDS OrderDelivery, TLAPS

(* Who is who.                                                             *)
LEMMA Actors ==
    /\ Handler \subseteq Deliverer /\ Post \subseteq Deliverer
    /\ Scheduled \subseteq Caller /\ Manual \subseteq Caller
    /\ Handler \subseteq Locker /\ Scheduled \subseteq Locker
    /\ Locker \subseteq Deliverer \cup Caller
    /\ Deliverer \cap Caller = {} /\ Free \notin Locker
    /\ Handler \cap Post = {} /\ Locker \cap Post = {}
    /\ Handler \cap Caller = {} /\ Scheduled \cap Manual = {}
    /\ Deliverer = Handler \cup Post /\ Locker = Handler \cup Scheduled
    /\ Caller = Scheduled \cup Manual
  BY DeliveryAssumption DEF DeliveryAssumption, Deliverer, Caller, Locker

(* The post a caller is at is one of its own.                              *)
LEMMA Posts ==
    ASSUME TypeOK, NEW c \in Caller PROVE Current(c) \in Post
  BY DEF TypeOK, Current, Post

(* Every step keeps the types.                                             *)
LEMMA TypeStep == TypeOK /\ [Next]_vars => TypeOK'
<1> SUFFICES ASSUME TypeOK, [Next]_vars PROVE TypeOK'
  OBVIOUS
<1> USE DeliveryAssumption, Actors, Posts
        DEF TypeOK, Place, Answer, Goto, Answers, Continue, End,
            order, memory, local, history, bounds
<1>1. ASSUME NEW h \in Handler, Receive(h) PROVE TypeOK'
  BY <1>1 DEF Receive
<1>2. ASSUME NEW h \in Handler, Recheck(h) PROVE TypeOK'
  BY <1>2 DEF Recheck
<1>3. ASSUME NEW a \in Locker, Acquire(a) PROVE TypeOK'
  BY <1>3 DEF Acquire
<1>4. ASSUME NEW a \in Locker, GiveUp(a) PROVE TypeOK'
  BY <1>4 DEF GiveUp
<1>5. ASSUME NEW a \in Locker, Degrade(a) PROVE TypeOK'
  BY <1>5 DEF Degrade
<1>6. ASSUME NEW a \in Locker, Leave(a) PROVE TypeOK'
  BY <1>6 DEF Leave
<1>7. ASSUME NEW d \in Deliverer, Decide(d) PROVE TypeOK'
  BY <1>7 DEF Decide
<1>8. ASSUME NEW d \in Deliverer, Confirm(d) PROVE TypeOK'
  <2>1. confirmed' \in BOOLEAN /\ status' = status /\ recorded' = recorded
    BY <1>8 DEF Confirm, PlatformConfirms
  <2>2. pc' \in [Deliverer \cup Caller -> Place] /\ answer' \in [Deliverer -> Answer]
    BY <1>8 DEF Confirm, PlatformConfirms
  <2>3. QED
    BY <1>8, <2>1, <2>2 DEF Confirm, PlatformConfirms
<1>9. ASSUME NEW d \in Deliverer, Confirmed(d) PROVE TypeOK'
  BY <1>9 DEF Confirmed
<1>10. ASSUME NEW d \in Deliverer, NotConfirmed(d) PROVE TypeOK'
  BY <1>10 DEF NotConfirmed
<1>11. ASSUME NEW d \in Deliverer, Take(d) PROVE TypeOK'
  BY <1>11 DEF Take
<1>12. ASSUME NEW d \in Deliverer, TakeFails(d) PROVE TypeOK'
  BY <1>12 DEF TakeFails
<1>13. ASSUME NEW d \in Deliverer, Send(d) PROVE TypeOK'
  BY <1>13 DEF Send
<1>14. ASSUME NEW d \in Deliverer, ConfirmSent(d) PROVE TypeOK'
  BY <1>14 DEF ConfirmSent, PlatformConfirms
<1>15. ASSUME NEW d \in Deliverer, Record(d) PROVE TypeOK'
  <2>1. status' \in {"pending", "shipped"} /\ recorded' \in BOOLEAN
    BY <1>15 DEF Record
  <2>2. pc' \in [Deliverer \cup Caller -> Place] /\ answer' \in [Deliverer -> Answer]
    BY <1>15 DEF Record
  <2>3. QED
    BY <1>15, <2>1, <2>2 DEF Record
<1>16. ASSUME NEW p \in Post, Unheard(p) PROVE TypeOK'
  BY <1>16 DEF Unheard
<1>17. ASSUME NEW c \in Caller, StartPost(c) PROVE TypeOK'
  BY <1>17 DEF StartPost
<1>18. ASSUME NEW c \in Caller, PostFails(c) PROVE TypeOK'
  BY <1>18 DEF PostFails
<1>19. ASSUME NEW c \in Caller, Hear(c) PROVE TypeOK'
  BY <1>19 DEF Hear
<1>20. ASSUME NEW c \in Scheduled, BeginPass(c) PROVE TypeOK'
  BY <1>20 DEF BeginPass
<1>21. ASSUME NEW c \in Scheduled, SyncShipped(c) PROVE TypeOK'
  BY <1>21 DEF SyncShipped
<1>22. ASSUME NEW c \in Scheduled, CannotAsk(c) PROVE TypeOK'
  BY <1>22 DEF CannotAsk
<1>23. ASSUME NEW c \in Scheduled, CanShip(c) PROVE TypeOK'
  BY <1>23 DEF CanShip
<1>24. ASSUME NEW c \in Scheduled, Settle(c) PROVE TypeOK'
  BY <1>24 DEF Settle
<1>25. ASSUME NEW c \in Manual, Click(c) PROVE TypeOK'
  BY <1>25 DEF Click
<1>26. CASE Expire
  BY <1>26 DEF Expire
<1>27. CASE CooldownEnds
  BY <1>27 DEF CooldownEnds
<1>28. CASE NoteEnds
  BY <1>28 DEF NoteEnds
<1>29. CASE HoldEnds
  BY <1>29 DEF HoldEnds
<1>30. CASE Restock
  BY <1>30 DEF Restock
<1>31. CASE ShipByHand
  BY <1>31 DEF ShipByHand
<1>32. CASE Restart
  <2>1. pc' \in [Deliverer \cup Caller -> Place] /\ acquired' \in [Locker -> BOOLEAN]
    BY <1>32 DEF Restart
  <2>2. restarts' \in 0..MaxRestarts
    BY <1>32, DeliveryAssumption DEF Restart, DeliveryAssumption
  <2>3. QED
    BY <1>32, <2>1, <2>2 DEF Restart
<1>33. CASE SchedulerRestart
  <2>1. pc' \in [Deliverer \cup Caller -> Place] /\ acquired' \in [Locker -> BOOLEAN]
    BY <1>33 DEF SchedulerRestart
  <2>2. restarts' \in 0..MaxRestarts
    BY <1>33, DeliveryAssumption DEF SchedulerRestart, DeliveryAssumption
  <2>3. QED
    BY <1>33, <2>1, <2>2 DEF SchedulerRestart
<1>34. CASE UNCHANGED vars
  BY <1>34 DEF vars
<1>35. ASSUME NEW d \in Deliverer, Refuse(d) PROVE TypeOK'
  BY <1>35 DEF Refuse
<1>36. QED
  BY <1>1, <1>2, <1>3, <1>4, <1>5, <1>6, <1>7, <1>8, <1>9, <1>10, <1>11, <1>12, <1>13, <1>14, <1>15, <1>16, <1>17, <1>18, <1>19, <1>20, <1>21, <1>22, <1>23, <1>24, <1>25, <1>26, <1>27, <1>28, <1>29, <1>30, <1>31, <1>32, <1>33, <1>34, <1>35 DEF Next, Locking, Delivering, Calling, Passing, Timers

(* Every variable keeps its type.                                          *)
THEOREM TypeCorrect == Spec => []TypeOK
<1>1. ASSUME Init PROVE TypeOK
  <2>1. settings \in AllSettings /\ stock \in 0..MaxSecrets /\ stock + taken <= MaxSecrets
    BY <1>1, DeliveryAssumption DEF DeliveryAssumption, Init
  <2>2. /\ pc \in [Deliverer \cup Caller -> Place] /\ acquired \in [Locker -> BOOLEAN]
        /\ answer \in [Deliverer -> Answer] /\ turn \in [Caller -> 1..MaxPosts]
    BY <1>1, DeliveryAssumption DEF DeliveryAssumption, Init, Place, Answer
  <2>3. messages \in 0..MaxMessages /\ restarts \in 0..MaxRestarts
    BY <1>1, DeliveryAssumption DEF DeliveryAssumption, Init
  <2>4. QED
    BY <1>1, <2>1, <2>2, <2>3 DEF Init, TypeOK
<1>2. QED
  BY <1>1, TypeStep, PTL DEF Spec
-----------------------------------------------------------------------------
(* Who has acquired the lock keeps it while no lock expires under its      *)
(* holder.                                                                 *)
LEMMA LockStep ==
    ASSUME ~Slow PROVE TypeOK /\ LockInv /\ [Next]_vars => LockInv'
<1> SUFFICES ASSUME TypeOK, LockInv, [Next]_vars PROVE LockInv'
  OBVIOUS
<1> USE Actors, Posts DEF TypeOK, LockInv, Goto, Answers, Continue, End,
            order, memory, local, history, bounds
<1>1. ASSUME NEW h \in Handler, Receive(h) PROVE LockInv'
  BY <1>1 DEF Receive
<1>2. ASSUME NEW h \in Handler, Recheck(h) PROVE LockInv'
  BY <1>2 DEF Recheck
<1>3. ASSUME NEW a \in Locker, Acquire(a) PROVE LockInv'
  BY <1>3 DEF Acquire
<1>4. ASSUME NEW a \in Locker, GiveUp(a) PROVE LockInv'
  BY <1>4 DEF GiveUp
<1>5. ASSUME NEW a \in Locker, Degrade(a) PROVE LockInv'
  BY <1>5 DEF Degrade
<1>6. ASSUME NEW a \in Locker, Leave(a) PROVE LockInv'
  BY <1>6 DEF Leave
<1>7. ASSUME NEW d \in Deliverer, Decide(d) PROVE LockInv'
  BY <1>7 DEF Decide
<1>8. ASSUME NEW d \in Deliverer, Confirm(d) PROVE LockInv'
  BY <1>8 DEF Confirm
<1>9. ASSUME NEW d \in Deliverer, Confirmed(d) PROVE LockInv'
  BY <1>9 DEF Confirmed
<1>10. ASSUME NEW d \in Deliverer, NotConfirmed(d) PROVE LockInv'
  BY <1>10 DEF NotConfirmed
<1>11. ASSUME NEW d \in Deliverer, Take(d) PROVE LockInv'
  BY <1>11 DEF Take
<1>12. ASSUME NEW d \in Deliverer, TakeFails(d) PROVE LockInv'
  BY <1>12 DEF TakeFails
<1>13. ASSUME NEW d \in Deliverer, Send(d) PROVE LockInv'
  BY <1>13 DEF Send
<1>14. ASSUME NEW d \in Deliverer, ConfirmSent(d) PROVE LockInv'
  BY <1>14 DEF ConfirmSent
<1>15. ASSUME NEW d \in Deliverer, Record(d) PROVE LockInv'
  BY <1>15 DEF Record
<1>16. ASSUME NEW p \in Post, Unheard(p) PROVE LockInv'
  BY <1>16 DEF Unheard
<1>17. ASSUME NEW c \in Caller, StartPost(c) PROVE LockInv'
  BY <1>17 DEF StartPost
<1>18. ASSUME NEW c \in Caller, PostFails(c) PROVE LockInv'
  BY <1>18 DEF PostFails
<1>19. ASSUME NEW c \in Caller, Hear(c) PROVE LockInv'
  BY <1>19 DEF Hear
<1>20. ASSUME NEW c \in Scheduled, BeginPass(c) PROVE LockInv'
  BY <1>20 DEF BeginPass
<1>21. ASSUME NEW c \in Scheduled, SyncShipped(c) PROVE LockInv'
  BY <1>21 DEF SyncShipped
<1>22. ASSUME NEW c \in Scheduled, CannotAsk(c) PROVE LockInv'
  BY <1>22 DEF CannotAsk
<1>23. ASSUME NEW c \in Scheduled, CanShip(c) PROVE LockInv'
  BY <1>23 DEF CanShip
<1>24. ASSUME NEW c \in Scheduled, Settle(c) PROVE LockInv'
  BY <1>24 DEF Settle
<1>25. ASSUME NEW c \in Manual, Click(c) PROVE LockInv'
  BY <1>25 DEF Click
<1>26. CASE Expire
  BY <1>26 DEF Expire
<1>27. CASE CooldownEnds
  BY <1>27 DEF CooldownEnds
<1>28. CASE NoteEnds
  BY <1>28 DEF NoteEnds
<1>29. CASE HoldEnds
  BY <1>29 DEF HoldEnds
<1>30. CASE Restock
  BY <1>30 DEF Restock
<1>31. CASE ShipByHand
  BY <1>31 DEF ShipByHand
<1>32. CASE Restart
  BY <1>32 DEF Restart
<1>33. CASE SchedulerRestart
  BY <1>33 DEF SchedulerRestart
<1>34. CASE UNCHANGED vars
  BY <1>34 DEF vars
<1>35. ASSUME NEW d \in Deliverer, Refuse(d) PROVE LockInv'
  BY <1>35 DEF Refuse
<1>36. QED
  BY <1>1, <1>2, <1>3, <1>4, <1>5, <1>6, <1>7, <1>8, <1>9, <1>10, <1>11, <1>12, <1>13, <1>14, <1>15, <1>16, <1>17, <1>18, <1>19, <1>20, <1>21, <1>22, <1>23, <1>24, <1>25, <1>26, <1>27, <1>28, <1>29, <1>30, <1>31, <1>32, <1>33, <1>34, <1>35 DEF Next, Locking, Delivering, Calling, Passing, Timers

(* At most one works under the lock, if no lock expires under its holder.  *)
THEOREM LockHeldByOne ==
    ASSUME ~Slow PROVE Spec => []LockExcludes
<1>1. Init => LockInv
  BY DEF Init, LockInv
<1>2. LockInv => LockExcludes
  BY DEF LockInv, LockExcludes
<1>3. QED
  BY <1>1, <1>2, LockStep, TypeCorrect, PTL DEF Spec
-----------------------------------------------------------------------------
\* What NoForeignRelease says of a step.
ReleasesOwn ==
    \A a \in Locker : pc[a] = "leaving" /\ pc'[a] = "idle" /\ restarts' = restarts
                        => lock' \in {lock, IF lock = a THEN Free ELSE lock}

(* Only who leaves deletes the key, and only a key with its own value.     *)
LEMMA ReleaseStep == TypeOK /\ [Next]_vars => ReleasesOwn
<1> SUFFICES ASSUME TypeOK, [Next]_vars PROVE ReleasesOwn
  OBVIOUS
<1> USE Actors, Posts DEF TypeOK, ReleasesOwn, Goto, Answers, Continue, End,
            order, memory, local, history, bounds
<1>1. ASSUME NEW h \in Handler, Receive(h) PROVE ReleasesOwn
  BY <1>1 DEF Receive
<1>2. ASSUME NEW h \in Handler, Recheck(h) PROVE ReleasesOwn
  BY <1>2 DEF Recheck
<1>3. ASSUME NEW a \in Locker, Acquire(a) PROVE ReleasesOwn
  BY <1>3 DEF Acquire
<1>4. ASSUME NEW a \in Locker, GiveUp(a) PROVE ReleasesOwn
  BY <1>4 DEF GiveUp
<1>5. ASSUME NEW a \in Locker, Degrade(a) PROVE ReleasesOwn
  BY <1>5 DEF Degrade
<1>6. ASSUME NEW a \in Locker, Leave(a) PROVE ReleasesOwn
  BY <1>6 DEF Leave
<1>7. ASSUME NEW d \in Deliverer, Decide(d) PROVE ReleasesOwn
  BY <1>7 DEF Decide
<1>8. ASSUME NEW d \in Deliverer, Confirm(d) PROVE ReleasesOwn
  BY <1>8 DEF Confirm
<1>9. ASSUME NEW d \in Deliverer, Confirmed(d) PROVE ReleasesOwn
  BY <1>9 DEF Confirmed
<1>10. ASSUME NEW d \in Deliverer, NotConfirmed(d) PROVE ReleasesOwn
  BY <1>10 DEF NotConfirmed
<1>11. ASSUME NEW d \in Deliverer, Take(d) PROVE ReleasesOwn
  BY <1>11 DEF Take
<1>12. ASSUME NEW d \in Deliverer, TakeFails(d) PROVE ReleasesOwn
  BY <1>12 DEF TakeFails
<1>13. ASSUME NEW d \in Deliverer, Send(d) PROVE ReleasesOwn
  BY <1>13 DEF Send
<1>14. ASSUME NEW d \in Deliverer, ConfirmSent(d) PROVE ReleasesOwn
  BY <1>14 DEF ConfirmSent
<1>15. ASSUME NEW d \in Deliverer, Record(d) PROVE ReleasesOwn
  BY <1>15 DEF Record
<1>16. ASSUME NEW p \in Post, Unheard(p) PROVE ReleasesOwn
  BY <1>16 DEF Unheard
<1>17. ASSUME NEW c \in Caller, StartPost(c) PROVE ReleasesOwn
  BY <1>17 DEF StartPost
<1>18. ASSUME NEW c \in Caller, PostFails(c) PROVE ReleasesOwn
  BY <1>18 DEF PostFails
<1>19. ASSUME NEW c \in Caller, Hear(c) PROVE ReleasesOwn
  BY <1>19 DEF Hear
<1>20. ASSUME NEW c \in Scheduled, BeginPass(c) PROVE ReleasesOwn
  BY <1>20 DEF BeginPass
<1>21. ASSUME NEW c \in Scheduled, SyncShipped(c) PROVE ReleasesOwn
  BY <1>21 DEF SyncShipped
<1>22. ASSUME NEW c \in Scheduled, CannotAsk(c) PROVE ReleasesOwn
  BY <1>22 DEF CannotAsk
<1>23. ASSUME NEW c \in Scheduled, CanShip(c) PROVE ReleasesOwn
  BY <1>23 DEF CanShip
<1>24. ASSUME NEW c \in Scheduled, Settle(c) PROVE ReleasesOwn
  BY <1>24 DEF Settle
<1>25. ASSUME NEW c \in Manual, Click(c) PROVE ReleasesOwn
  BY <1>25 DEF Click
<1>26. CASE Expire
  BY <1>26 DEF Expire
<1>27. CASE CooldownEnds
  BY <1>27 DEF CooldownEnds
<1>28. CASE NoteEnds
  BY <1>28 DEF NoteEnds
<1>29. CASE HoldEnds
  BY <1>29 DEF HoldEnds
<1>30. CASE Restock
  BY <1>30 DEF Restock
<1>31. CASE ShipByHand
  BY <1>31 DEF ShipByHand
<1>32. CASE Restart
  BY <1>32 DEF Restart
<1>33. CASE SchedulerRestart
  BY <1>33 DEF SchedulerRestart
<1>34. CASE UNCHANGED vars
  BY <1>34 DEF vars
<1>35. ASSUME NEW d \in Deliverer, Refuse(d) PROVE ReleasesOwn
  BY <1>35 DEF Refuse
<1>36. QED
  BY <1>1, <1>2, <1>3, <1>4, <1>5, <1>6, <1>7, <1>8, <1>9, <1>10, <1>11, <1>12, <1>13, <1>14, <1>15, <1>16, <1>17, <1>18, <1>19, <1>20, <1>21, <1>22, <1>23, <1>24, <1>25, <1>26, <1>27, <1>28, <1>29, <1>30, <1>31, <1>32, <1>33, <1>34, <1>35 DEF Next, Locking, Delivering, Calling, Passing, Timers

(* An attempt that outlived its lock does not delete its successor's,      *)
(* whatever expires, fails or dies.                                        *)
THEOREM ReleasesOnlyOwn == Spec => NoForeignRelease
<1>1. TypeOK /\ [Next]_vars => [ReleasesOwn]_vars
  BY ReleaseStep
<1>2. QED
  BY <1>1, TypeCorrect, PTL DEF Spec, NoForeignRelease, ReleasesOwn
-----------------------------------------------------------------------------
(* Whatever place a delivery is at, its reason is there.                   *)
LEMMA ReasonStep == TypeOK /\ ReasonInv /\ [Next]_vars => ReasonInv'
<1> SUFFICES ASSUME TypeOK, ReasonInv, [Next]_vars PROVE ReasonInv'
  OBVIOUS
<1> USE Actors, Posts DEF TypeOK, ReasonInv, ShippedForAReason, Goto, Answers, Continue, End,
            order, memory, local, history, bounds
<1>1. ASSUME NEW h \in Handler, Receive(h) PROVE ReasonInv'
  BY <1>1 DEF Receive
<1>2. ASSUME NEW h \in Handler, Recheck(h) PROVE ReasonInv'
  BY <1>2 DEF Recheck
<1>3. ASSUME NEW a \in Locker, Acquire(a) PROVE ReasonInv'
  BY <1>3 DEF Acquire
<1>4. ASSUME NEW a \in Locker, GiveUp(a) PROVE ReasonInv'
  BY <1>4 DEF GiveUp
<1>5. ASSUME NEW a \in Locker, Degrade(a) PROVE ReasonInv'
  BY <1>5 DEF Degrade
<1>6. ASSUME NEW a \in Locker, Leave(a) PROVE ReasonInv'
  BY <1>6 DEF Leave
<1>7. ASSUME NEW d \in Deliverer, Decide(d) PROVE ReasonInv'
  BY <1>7 DEF Decide
<1>8. ASSUME NEW d \in Deliverer, Confirm(d) PROVE ReasonInv'
  <2>1. PICK what \in {"success", "already", "error"} :
          PlatformConfirms(what) /\ Answers(d, what)
    BY <1>8 DEF Confirm
  <2>2. (confirmed => confirmed') /\ (what \in {"success", "already"} => confirmed')
    BY <2>1 DEF PlatformConfirms
  <2>3. QED
    BY <1>8, <2>1, <2>2 DEF Confirm
<1>9. ASSUME NEW d \in Deliverer, Confirmed(d) PROVE ReasonInv'
  BY <1>9 DEF Confirmed
<1>10. ASSUME NEW d \in Deliverer, NotConfirmed(d) PROVE ReasonInv'
  BY <1>10 DEF NotConfirmed
<1>11. ASSUME NEW d \in Deliverer, Take(d) PROVE ReasonInv'
  BY <1>11 DEF Take
<1>12. ASSUME NEW d \in Deliverer, TakeFails(d) PROVE ReasonInv'
  BY <1>12 DEF TakeFails
<1>13. ASSUME NEW d \in Deliverer, Send(d) PROVE ReasonInv'
  BY <1>13 DEF Send
<1>14. ASSUME NEW d \in Deliverer, ConfirmSent(d) PROVE ReasonInv'
  <2>1. confirmed => confirmed'
    BY <1>14 DEF ConfirmSent, PlatformConfirms
  <2>2. QED
    BY <1>14, <2>1 DEF ConfirmSent
<1>15. ASSUME NEW d \in Deliverer, Record(d) PROVE ReasonInv'
  BY <1>15 DEF Record
<1>16. ASSUME NEW p \in Post, Unheard(p) PROVE ReasonInv'
  BY <1>16 DEF Unheard
<1>17. ASSUME NEW c \in Caller, StartPost(c) PROVE ReasonInv'
  BY <1>17 DEF StartPost
<1>18. ASSUME NEW c \in Caller, PostFails(c) PROVE ReasonInv'
  BY <1>18 DEF PostFails
<1>19. ASSUME NEW c \in Caller, Hear(c) PROVE ReasonInv'
  BY <1>19 DEF Hear
<1>20. ASSUME NEW c \in Scheduled, BeginPass(c) PROVE ReasonInv'
  BY <1>20 DEF BeginPass
<1>21. ASSUME NEW c \in Scheduled, SyncShipped(c) PROVE ReasonInv'
  BY <1>21 DEF SyncShipped
<1>22. ASSUME NEW c \in Scheduled, CannotAsk(c) PROVE ReasonInv'
  BY <1>22 DEF CannotAsk
<1>23. ASSUME NEW c \in Scheduled, CanShip(c) PROVE ReasonInv'
  BY <1>23 DEF CanShip
<1>24. ASSUME NEW c \in Scheduled, Settle(c) PROVE ReasonInv'
  BY <1>24 DEF Settle
<1>25. ASSUME NEW c \in Manual, Click(c) PROVE ReasonInv'
  BY <1>25 DEF Click
<1>26. CASE Expire
  BY <1>26 DEF Expire
<1>27. CASE CooldownEnds
  BY <1>27 DEF CooldownEnds
<1>28. CASE NoteEnds
  BY <1>28 DEF NoteEnds
<1>29. CASE HoldEnds
  BY <1>29 DEF HoldEnds
<1>30. CASE Restock
  BY <1>30 DEF Restock
<1>31. CASE ShipByHand
  BY <1>31 DEF ShipByHand
<1>32. CASE Restart
  BY <1>32 DEF Restart
<1>33. CASE SchedulerRestart
  BY <1>33 DEF SchedulerRestart
<1>34. CASE UNCHANGED vars
  BY <1>34 DEF vars
<1>35. ASSUME NEW d \in Deliverer, Refuse(d) PROVE ReasonInv'
  BY <1>35 DEF Refuse
<1>36. QED
  BY <1>1, <1>2, <1>3, <1>4, <1>5, <1>6, <1>7, <1>8, <1>9, <1>10, <1>11, <1>12, <1>13, <1>14, <1>15, <1>16, <1>17, <1>18, <1>19, <1>20, <1>21, <1>22, <1>23, <1>24, <1>25, <1>26, <1>27, <1>28, <1>29, <1>30, <1>31, <1>32, <1>33, <1>34, <1>35 DEF Next, Locking, Delivering, Calling, Passing, Timers

(* An order written as shipped has a secret taken for it, or the platform  *)
(* has it as shipped, whatever fails.                                      *)
THEOREM ShippedWithReason == Spec => []ShippedForAReason
<1>1. Init => ReasonInv
  BY Actors DEF Init, ReasonInv, ShippedForAReason
<1>2. ReasonInv => ShippedForAReason
  BY DEF ReasonInv
<1>3. QED
  BY <1>1, <1>2, ReasonStep, TypeCorrect, PTL DEF Spec
-----------------------------------------------------------------------------
(* With "secret first" nobody confirms before the goods went out, if the   *)
(* seller does not and a failed message is noticed.                        *)
LEMMA GoodsFirstStep ==
    TypeOK /\ GoodsFirstInv /\ [Next]_vars => GoodsFirstInv'
<1> SUFFICES ASSUME TypeOK, GoodsFirstInv, [Next]_vars PROVE GoodsFirstInv'
  OBVIOUS
<1> USE Actors, Posts, DeliveryAssumption DEF TypeOK, GoodsFirstInv, Goto, Answers, Continue, End,
            order, memory, local, history, bounds
<1>1. ASSUME NEW h \in Handler, Receive(h) PROVE GoodsFirstInv'
  BY <1>1 DEF Receive
<1>2. ASSUME NEW h \in Handler, Recheck(h) PROVE GoodsFirstInv'
  BY <1>2 DEF Recheck
<1>3. ASSUME NEW a \in Locker, Acquire(a) PROVE GoodsFirstInv'
  BY <1>3 DEF Acquire
<1>4. ASSUME NEW a \in Locker, GiveUp(a) PROVE GoodsFirstInv'
  BY <1>4 DEF GiveUp
<1>5. ASSUME NEW a \in Locker, Degrade(a) PROVE GoodsFirstInv'
  BY <1>5 DEF Degrade
<1>6. ASSUME NEW a \in Locker, Leave(a) PROVE GoodsFirstInv'
  BY <1>6 DEF Leave
<1>7. ASSUME NEW d \in Deliverer, Decide(d) PROVE GoodsFirstInv'
  BY <1>7 DEF Decide, Forbidden, NoConfirm
<1>8. ASSUME NEW d \in Deliverer, Confirm(d) PROVE GoodsFirstInv'
  BY <1>8 DEF Confirm, PlatformConfirms
<1>9. ASSUME NEW d \in Deliverer, Confirmed(d) PROVE GoodsFirstInv'
  BY <1>9 DEF Confirmed
<1>10. ASSUME NEW d \in Deliverer, NotConfirmed(d) PROVE GoodsFirstInv'
  BY <1>10 DEF NotConfirmed
<1>11. ASSUME NEW d \in Deliverer, Take(d) PROVE GoodsFirstInv'
  BY <1>11 DEF Take
<1>12. ASSUME NEW d \in Deliverer, TakeFails(d) PROVE GoodsFirstInv'
  BY <1>12 DEF TakeFails
<1>13. ASSUME NEW d \in Deliverer, Send(d) PROVE GoodsFirstInv'
  BY <1>13 DEF Send, ConfirmNext, Noticed
<1>14. ASSUME NEW d \in Deliverer, ConfirmSent(d) PROVE GoodsFirstInv'
  BY <1>14 DEF ConfirmSent, PlatformConfirms
<1>15. ASSUME NEW d \in Deliverer, Record(d) PROVE GoodsFirstInv'
  BY <1>15 DEF Record
<1>16. ASSUME NEW p \in Post, Unheard(p) PROVE GoodsFirstInv'
  BY <1>16 DEF Unheard
<1>17. ASSUME NEW c \in Caller, StartPost(c) PROVE GoodsFirstInv'
  BY <1>17 DEF StartPost
<1>18. ASSUME NEW c \in Caller, PostFails(c) PROVE GoodsFirstInv'
  BY <1>18 DEF PostFails
<1>19. ASSUME NEW c \in Caller, Hear(c) PROVE GoodsFirstInv'
  BY <1>19 DEF Hear
<1>20. ASSUME NEW c \in Scheduled, BeginPass(c) PROVE GoodsFirstInv'
  BY <1>20 DEF BeginPass
<1>21. ASSUME NEW c \in Scheduled, SyncShipped(c) PROVE GoodsFirstInv'
  BY <1>21 DEF SyncShipped
<1>22. ASSUME NEW c \in Scheduled, CannotAsk(c) PROVE GoodsFirstInv'
  BY <1>22 DEF CannotAsk
<1>23. ASSUME NEW c \in Scheduled, CanShip(c) PROVE GoodsFirstInv'
  BY <1>23 DEF CanShip
<1>24. ASSUME NEW c \in Scheduled, Settle(c) PROVE GoodsFirstInv'
  BY <1>24 DEF Settle
<1>25. ASSUME NEW c \in Manual, Click(c) PROVE GoodsFirstInv'
  BY <1>25 DEF Click
<1>26. CASE Expire
  BY <1>26 DEF Expire
<1>27. CASE CooldownEnds
  BY <1>27 DEF CooldownEnds
<1>28. CASE NoteEnds
  BY <1>28 DEF NoteEnds
<1>29. CASE HoldEnds
  BY <1>29 DEF HoldEnds
<1>30. CASE Restock
  BY <1>30 DEF Restock
<1>31. CASE ShipByHand
  BY <1>31 DEF ShipByHand
<1>32. CASE Restart
  BY <1>32 DEF Restart
<1>33. CASE SchedulerRestart
  BY <1>33 DEF SchedulerRestart
<1>34. CASE UNCHANGED vars
  BY <1>34 DEF vars
<1>35. ASSUME NEW d \in Deliverer, Refuse(d) PROVE GoodsFirstInv'
  BY <1>35 DEF Refuse
<1>36. QED
  BY <1>1, <1>2, <1>3, <1>4, <1>5, <1>6, <1>7, <1>8, <1>9, <1>10, <1>11, <1>12, <1>13, <1>14, <1>15, <1>16, <1>17, <1>18, <1>19, <1>20, <1>21, <1>22, <1>23, <1>24, <1>25, <1>26, <1>27, <1>28, <1>29, <1>30, <1>31, <1>32, <1>33, <1>34, <1>35 DEF Next, Locking, Delivering, Calling, Passing, Timers

(* "Secret first, confirmation after it was sent": what the platform has   *)
(* as shipped reached the buyer, or the seller shipped it, or a failed     *)
(* message went unnoticed; whatever fails, expires or dies.                *)
THEOREM GoodsBeforeConfirmation == Spec => []ConfirmedAfterGoods
<1>1. Init => GoodsFirstInv
  BY Actors DEF Init, GoodsFirstInv
<1>2. GoodsFirstInv => ConfirmedAfterGoods
  BY DEF GoodsFirstInv, ConfirmedAfterGoods
<1>3. QED
  BY <1>1, <1>2, GoodsFirstStep, TypeCorrect, PTL DEF Spec
-----------------------------------------------------------------------------
\* The surroundings are sound: calls to Redis and the database are answered,
\* posts too, no attempt outlives its lock, the process of the handlers
\* does not die, and nobody uses the button.
Sound == /\ ~Slow /\ ~RedisFails /\ ~DatabaseFails /\ ~HttpFails
         /\ "websocket" \notin Dying /\ Manual = {}

\* The account confirms first, and a confirmation is required.
ConfirmsFirst == \A s \in Settings : s.auto /\ s.confirmOnly /\ ~s.sendFirst

(* Nobody works without the lock.                                          *)
LEMMA UnderLockStep ==
    ASSUME Sound PROVE TypeOK /\ LockInv /\ UnderLock /\ [Next]_vars => UnderLock'
<1> SUFFICES ASSUME TypeOK, LockInv, UnderLock, [Next]_vars PROVE UnderLock'
  OBVIOUS
<1>0. \A p \in Post : p[1] \in Caller
  BY DEF Post
<1> USE <1>0, Actors, Posts DEF Sound, TypeOK, LockInv, UnderLock, Current, Goto, Answers, Continue, End,
            order, memory, local, history, bounds
<1>1. ASSUME NEW h \in Handler, Receive(h) PROVE UnderLock'
  BY <1>1 DEF Receive
<1>2. ASSUME NEW h \in Handler, Recheck(h) PROVE UnderLock'
  BY <1>2 DEF Recheck
<1>3. ASSUME NEW a \in Locker, Acquire(a) PROVE UnderLock'
  BY <1>3 DEF Acquire
<1>4. ASSUME NEW a \in Locker, GiveUp(a) PROVE UnderLock'
  BY <1>4 DEF GiveUp
<1>5. ASSUME NEW a \in Locker, Degrade(a) PROVE UnderLock'
  BY <1>5 DEF Degrade
<1>6. ASSUME NEW a \in Locker, Leave(a) PROVE UnderLock'
  BY <1>6 DEF Leave
<1>7. ASSUME NEW d \in Deliverer, Decide(d) PROVE UnderLock'
  BY <1>7 DEF Decide
<1>8. ASSUME NEW d \in Deliverer, Confirm(d) PROVE UnderLock'
  BY <1>8 DEF Confirm
<1>9. ASSUME NEW d \in Deliverer, Confirmed(d) PROVE UnderLock'
  BY <1>9 DEF Confirmed
<1>10. ASSUME NEW d \in Deliverer, NotConfirmed(d) PROVE UnderLock'
  BY <1>10 DEF NotConfirmed
<1>11. ASSUME NEW d \in Deliverer, Take(d) PROVE UnderLock'
  BY <1>11 DEF Take
<1>12. ASSUME NEW d \in Deliverer, TakeFails(d) PROVE UnderLock'
  BY <1>12 DEF TakeFails
<1>13. ASSUME NEW d \in Deliverer, Send(d) PROVE UnderLock'
  BY <1>13 DEF Send
<1>14. ASSUME NEW d \in Deliverer, ConfirmSent(d) PROVE UnderLock'
  BY <1>14 DEF ConfirmSent
<1>15. ASSUME NEW d \in Deliverer, Record(d) PROVE UnderLock'
  BY <1>15 DEF Record
<1>16. ASSUME NEW p \in Post, Unheard(p) PROVE UnderLock'
  BY <1>16 DEF Unheard
<1>17. ASSUME NEW c \in Caller, StartPost(c) PROVE UnderLock'
  BY <1>17 DEF StartPost
<1>18. ASSUME NEW c \in Caller, PostFails(c) PROVE UnderLock'
  BY <1>18 DEF PostFails
<1>19. ASSUME NEW c \in Caller, Hear(c) PROVE UnderLock'
  BY <1>19 DEF Hear
<1>20. ASSUME NEW c \in Scheduled, BeginPass(c) PROVE UnderLock'
  BY <1>20 DEF BeginPass
<1>21. ASSUME NEW c \in Scheduled, SyncShipped(c) PROVE UnderLock'
  BY <1>21 DEF SyncShipped
<1>22. ASSUME NEW c \in Scheduled, CannotAsk(c) PROVE UnderLock'
  BY <1>22 DEF CannotAsk
<1>23. ASSUME NEW c \in Scheduled, CanShip(c) PROVE UnderLock'
  BY <1>23 DEF CanShip
<1>24. ASSUME NEW c \in Scheduled, Settle(c) PROVE UnderLock'
  BY <1>24 DEF Settle
<1>25. ASSUME NEW c \in Manual, Click(c) PROVE UnderLock'
  BY <1>25 DEF Click
<1>26. CASE Expire
  BY <1>26 DEF Expire, PostsOf
<1>27. CASE CooldownEnds
  BY <1>27 DEF CooldownEnds
<1>28. CASE NoteEnds
  BY <1>28 DEF NoteEnds
<1>29. CASE HoldEnds
  BY <1>29 DEF HoldEnds
<1>30. CASE Restock
  BY <1>30 DEF Restock
<1>31. CASE ShipByHand
  BY <1>31 DEF ShipByHand
<1>32. CASE Restart
  BY <1>32 DEF Restart
<1>33. CASE SchedulerRestart
  BY <1>33 DEF SchedulerRestart
<1>34. CASE UNCHANGED vars
  BY <1>34 DEF vars
<1>35. ASSUME NEW d \in Deliverer, Refuse(d) PROVE UnderLock'
  BY <1>35 DEF Refuse
<1>36. QED
  BY <1>1, <1>2, <1>3, <1>4, <1>5, <1>6, <1>7, <1>8, <1>9, <1>10, <1>11, <1>12, <1>13, <1>14, <1>15, <1>16, <1>17, <1>18, <1>19, <1>20, <1>21, <1>22, <1>23, <1>24, <1>25, <1>26, <1>27, <1>28, <1>29, <1>30, <1>31, <1>32, <1>33, <1>34, <1>35 DEF Next, Locking, Delivering, Calling, Passing, Timers

(* So one deliverer works at a time, and the scheduler works with it only  *)
(* if it awaits its answer.                                                *)
LEMMA OneWorks ==
    ASSUME Sound, TypeOK, LockInv, UnderLock,
           NEW d \in Deliverer, pc[d] \notin {"idle", "waiting"}
    PROVE  /\ \A e \in Deliverer : pc[e] \notin {"idle", "waiting"} => e = d
           /\ \A c \in Scheduled : pc[c] \in {"idle", "waiting", "awaiting"}
<1>0. \A p \in Post : p[1] \in Caller
  BY DEF Post
<1>1. CASE d \in Handler
  BY <1>0, <1>1, Actors DEF LockInv, UnderLock
<1>2. CASE d \in Post
  BY <1>0, <1>2, Actors DEF LockInv, UnderLock, Sound
<1>3. QED
  BY <1>1, <1>2, Actors

(* A secret is taken once.                                                 *)
LEMMA OnceStep ==
    ASSUME Sound, ConfirmsFirst
    PROVE  TypeOK /\ LockInv /\ UnderLock /\ OnceInv /\ [Next]_vars => OnceInv'
<1> SUFFICES ASSUME TypeOK, LockInv, UnderLock, OnceInv, [Next]_vars PROVE OnceInv'
  OBVIOUS
<1> USE Actors, Posts, OneWorks, DeliveryAssumption
        DEF Sound, ConfirmsFirst, TypeOK, OnceInv, IssuedOnce, Goto, Answers, Continue, End,
            order, memory, local, history, bounds
<1>1. ASSUME NEW h \in Handler, Receive(h) PROVE OnceInv'
  BY <1>1 DEF Receive
<1>2. ASSUME NEW h \in Handler, Recheck(h) PROVE OnceInv'
  BY <1>2 DEF Recheck, UnderLock
<1>3. ASSUME NEW a \in Locker, Acquire(a) PROVE OnceInv'
  BY <1>3 DEF Acquire
<1>4. ASSUME NEW a \in Locker, GiveUp(a) PROVE OnceInv'
  BY <1>4 DEF GiveUp
<1>5. ASSUME NEW a \in Locker, Degrade(a) PROVE OnceInv'
  BY <1>5 DEF Degrade
<1>6. ASSUME NEW a \in Locker, Leave(a) PROVE OnceInv'
  BY <1>6 DEF Leave
<1>7. ASSUME NEW d \in Deliverer, Decide(d) PROVE OnceInv'
  BY <1>7 DEF Decide, Forbidden, NoConfirm
<1>8. ASSUME NEW d \in Deliverer, Confirm(d) PROVE OnceInv'
  <2>1. PICK what \in {"success", "already", "error"} :
          PlatformConfirms(what) /\ Answers(d, what)
    BY <1>8 DEF Confirm
  <2>2. (confirmed => confirmed') /\ (what \in {"success", "already"} => confirmed')
    BY <2>1 DEF PlatformConfirms
  <2>3. QED
    BY <1>8, <2>1, <2>2 DEF Confirm
<1>9. ASSUME NEW d \in Deliverer, Confirmed(d) PROVE OnceInv'
  BY <1>9 DEF Confirmed
<1>10. ASSUME NEW d \in Deliverer, NotConfirmed(d) PROVE OnceInv'
  BY <1>10 DEF NotConfirmed
<1>11. ASSUME NEW d \in Deliverer, Take(d) PROVE OnceInv'
  BY <1>11 DEF Take
<1>12. ASSUME NEW d \in Deliverer, TakeFails(d) PROVE OnceInv'
  BY <1>12 DEF TakeFails
<1>13. ASSUME NEW d \in Deliverer, Send(d) PROVE OnceInv'
  BY <1>13 DEF Send, ConfirmNext
<1>14. ASSUME NEW d \in Deliverer, ConfirmSent(d) PROVE OnceInv'
  <2>1. confirmed => confirmed'
    BY <1>14 DEF ConfirmSent, PlatformConfirms
  <2>2. QED
    BY <1>14, <2>1 DEF ConfirmSent
<1>15. ASSUME NEW d \in Deliverer, Record(d) PROVE OnceInv'
  BY <1>15 DEF Record
<1>16. ASSUME NEW p \in Post, Unheard(p) PROVE OnceInv'
  BY <1>16 DEF Unheard
<1>17. ASSUME NEW c \in Caller, StartPost(c) PROVE OnceInv'
  BY <1>17 DEF StartPost
<1>18. ASSUME NEW c \in Caller, PostFails(c) PROVE OnceInv'
  BY <1>18 DEF PostFails, UnderLock
<1>19. ASSUME NEW c \in Caller, Hear(c) PROVE OnceInv'
  BY <1>19 DEF Hear
<1>20. ASSUME NEW c \in Scheduled, BeginPass(c) PROVE OnceInv'
  BY <1>20 DEF BeginPass
<1>21. ASSUME NEW c \in Scheduled, SyncShipped(c) PROVE OnceInv'
  BY <1>21 DEF SyncShipped
<1>22. ASSUME NEW c \in Scheduled, CannotAsk(c) PROVE OnceInv'
  BY <1>22 DEF CannotAsk
<1>23. ASSUME NEW c \in Scheduled, CanShip(c) PROVE OnceInv'
  BY <1>23 DEF CanShip
<1>24. ASSUME NEW c \in Scheduled, Settle(c) PROVE OnceInv'
  BY <1>24 DEF Settle
<1>25. ASSUME NEW c \in Manual, Click(c) PROVE OnceInv'
  BY <1>25 DEF Click
<1>26. CASE Expire
  BY <1>26 DEF Expire
<1>27. CASE CooldownEnds
  BY <1>27 DEF CooldownEnds
<1>28. CASE NoteEnds
  BY <1>28 DEF NoteEnds
<1>29. CASE HoldEnds
  BY <1>29 DEF HoldEnds
<1>30. CASE Restock
  BY <1>30 DEF Restock
<1>31. CASE ShipByHand
  BY <1>31 DEF ShipByHand
<1>32. CASE Restart
  BY <1>32 DEF Restart
<1>33. CASE SchedulerRestart
  BY <1>33 DEF SchedulerRestart
<1>34. CASE UNCHANGED vars
  BY <1>34 DEF vars
<1>35. ASSUME NEW d \in Deliverer, Refuse(d) PROVE OnceInv'
  BY <1>35 DEF Refuse
<1>36. QED
  BY <1>1, <1>2, <1>3, <1>4, <1>5, <1>6, <1>7, <1>8, <1>9, <1>10, <1>11, <1>12, <1>13, <1>14, <1>15, <1>16, <1>17, <1>18, <1>19, <1>20, <1>21, <1>22, <1>23, <1>24, <1>25, <1>26, <1>27, <1>28, <1>29, <1>30, <1>31, <1>32, <1>33, <1>34, <1>35 DEF Next, Locking, Delivering, Calling, Passing, Timers

(* With sound surroundings and the confirmation first, the invariants hold *)
(* together.                                                               *)
LEMMA OnceInvariant ==
    ASSUME Sound, ConfirmsFirst PROVE Spec => []OnceInv
<1>1. Init => LockInv /\ UnderLock /\ OnceInv
  BY Actors DEF Init, LockInv, UnderLock, OnceInv, IssuedOnce
<1>2. TypeOK /\ LockInv /\ UnderLock /\ OnceInv /\ [Next]_vars
        => (LockInv /\ UnderLock /\ OnceInv)'
  BY LockStep, UnderLockStep, OnceStep DEF Sound
<1>3. QED
  BY <1>1, <1>2, TypeCorrect, PTL DEF Spec

(* The buyer of an order gets one secret, however many messages start a    *)
(* delivery, whenever the scheduler passes or dies, and whatever the       *)
(* platform refuses or the seller does there, if the surroundings are      *)
(* sound and the account confirms first.                                   *)
THEOREM SecretIssuedOnce ==
    ASSUME Sound, ConfirmsFirst PROVE Spec => []IssuedOnce
<1>1. OnceInv => IssuedOnce
  BY DEF OnceInv
<1>2. QED
  BY <1>1, OnceInvariant, PTL

(* Under the same assumptions the order names the secret as soon as whoever *)
(* took it is done, and nobody overwrites it.                              *)
THEOREM SecretTraced ==
    ASSUME Sound, ConfirmsFirst PROVE Spec => []Traceable
<1>1. OnceInv => Traceable
  BY DEF OnceInv, Traceable
<1>2. QED
  BY <1>1, OnceInvariant, PTL
=============================================================================
