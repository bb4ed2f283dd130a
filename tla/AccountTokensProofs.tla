-------------------------- MODULE AccountTokensProofs --------------------------
(***************************************************************************)
(* Proofs about AccountTokens, for any number of loops, devices, tokens    *)
(* and starts, and any limits.                                             *)
(*                                                                         *)
(* The counters stay in their types because every round begins below the   *)
(* limits (Bounds).                                                        *)
(***************************************************************************)
EXTENDS AccountTokens, TLAPS

Bounds ==
    /\ main.pc = "connected" => main.netFails = 0
    /\ main.pc \notin {"failing", "relogin", "ended"} => main.connFails < ConnectionLimit
    /\ \A a \in Refreshers :
          (\/ ref[a].pc \in {"asking", "login", "solving"}
           \/ ref[a].pc = "deleting" /\ ref[a].again)
             => ref[a].captcha < CaptchaLimit
    /\ \A a \in Refreshers :
          ref[a].pc \in {"using", "adopting", "storing"} => ref[a].token # NoToken

Typed == TypeOK /\ Bounds

USE TokensAssumption

LEMMA MainRefreshes == Main \in Refreshers /\ Loops \subseteq Refreshers
BY DEF Refreshers

LEMMA Limits ==
    /\ CaptchaLimit \in Nat \ {0} /\ TokenLimit \in Nat \ {0}
    /\ ConnectionLimit \in Nat \ {0} /\ ShortLimit \in Nat \ {0}
OBVIOUS

LEMMA SomeDevice == (CHOOSE d \in Devices : TRUE) \in Devices
OBVIOUS

LEMMA WorldDevices ==
    ASSUME world \in World
    PROVE  world.devices \subseteq Devices
BY DEF World

LEMMA NoTokenKnown == NoToken \in Known
BY DEF NoToken, Known

\* Memory without a token, or with another status.
LEMMA ForgetType ==
    ASSUME mem \in MemorySet,
           NEW s \in {"none", "started", "success", "renewal", "excused", "failed"}
    PROVE  /\ [mem EXCEPT !.token = NoToken, !.status = s] \in MemorySet
           /\ [mem EXCEPT !.status = s] \in MemorySet
BY NoTokenKnown DEF MemorySet

LEMMA IdleType == Idle \in RefreshSet /\ AllIdle \in [Refreshers -> RefreshSet]
BY SomeDevice DEF Idle, AllIdle, RefreshSet, Known, NoToken

LEMMA StartType ==
    ASSUME NEW d \in Devices, NEW n \in Nat
    PROVE  /\ FreshMemory(d) \in MemorySet
           /\ FirstRound(n) \in RoundSet
           /\ FirstRound(n).connFails < ConnectionLimit
           /\ FirstRound(n).pc = "checking"
BY SomeDevice DEF FreshMemory, FirstRound, MemorySet, RoundSet, Known, NoToken

LEMMA ClosedType ==
    /\ Closed \in SocketSet /\ [Closed EXCEPT !.open = "yes"] \in SocketSet
    /\ Closed.token = NoToken /\ [Closed EXCEPT !.open = "yes"].token = NoToken
<1>1. NoToken \in Known /\ MaxTokens \in Nat
  BY NoTokenKnown
<1> QED
  BY <1>1, SomeDevice DEF Closed, SocketSet

LEMMA InitType == Init => Typed
<1> SUFFICES ASSUME Init PROVE Typed
  OBVIOUS
<1>0. world \in World /\ ws = Closed /\ \E d \in Devices : mem = FreshMemory(d)
  BY WorldDevices DEF Init
<1>1. row \in RowSet /\ sched \in RenewalSet
  BY SomeDevice DEF Init, NoRow, Resting, RowSet, RenewalSet, Known, NoToken, Ages
<1>2. mem \in MemorySet /\ ws \in SocketSet /\ mem.device \in Devices
  BY <1>0, StartType, ClosedType DEF MemorySet
<1>3. ref \in [Refreshers -> RefreshSet] /\ \A a \in Refreshers : ref[a].pc = "idle"
  BY IdleType DEF Init, AllIdle, Idle
<1>4. main \in RoundSet /\ main.pc = "checking" /\ main.connFails < ConnectionLimit
  BY StartType DEF Init
<1>5. boundTo \in [Tokens -> Devices] /\ issued \in Known /\ seen \subseteq Tokens
  BY <1>2 DEF Init, Known
<1> QED
  BY <1>0, <1>1, <1>2, <1>3, <1>4, <1>5 DEF Typed, TypeOK, Bounds, Init

\* A connection that failed is counted, below the limit.
LEMMA FailedType ==
    ASSUME Typed, main.pc \in {"connecting", "opening", "joining"},
           NEW m \in MemorySet, Failed(m)
    PROVE  main' \in RoundSet /\ main'.pc = "failing"
<1>1. PICK quick \in BOOLEAN :
        main' = [main EXCEPT !.pc = "failing", !.connFails = @ + 1, !.quick = quick,
                             !.victim = m.inUse, !.device = m.device]
  BY DEF Failed
<1>2. main \in RoundSet /\ main.connFails < ConnectionLimit
  BY DEF Typed, TypeOK, Bounds
<1>3. m.inUse \in Known /\ m.device \in Devices
  BY DEF MemorySet
<1>4. main.connFails + 1 \in 0 .. ConnectionLimit
  BY <1>2, Limits DEF RoundSet
<1> QED
  BY <1>1, <1>2, <1>3, <1>4 DEF RoundSet

LEMMA SendRegType ==
    ASSUME Typed, main.pc = "opening", NEW m \in MemorySet, NEW w \in SocketSet, SendReg(m, w)
    PROVE  /\ main' \in RoundSet /\ ws' \in SocketSet
           /\ lapses' \subseteq {"refreshes", "registration", "lookup", "refetch"}
           /\ main'.pc = "connected" => main'.netFails = 0
           /\ main'.pc \notin {"failing", "relogin", "ended"} => main'.connFails < ConnectionLimit
<1>1. main \in RoundSet /\ main.connFails < ConnectionLimit
  BY DEF Typed, TypeOK, Bounds
<1>2. CASE Failed(m) /\ ws' = Closed /\ UNCHANGED lapses
  BY <1>2, FailedType, ClosedType DEF Typed, TypeOK
<1>3. CASE /\ main' = [main EXCEPT !.pc = "joining"]
           /\ ws' = [w EXCEPT !.token = m.token, !.device = m.device]
           /\ lapses' = IF \E b \in Loops : ref[b].pc = "adopting"
                          THEN lapses \cup {"registration"} ELSE lapses
  <2>1. m.token \in Known /\ m.device \in Devices
    BY DEF MemorySet
  <2>2. ws' \in SocketSet
    BY <1>3, <2>1 DEF SocketSet
  <2>3. main' \in RoundSet /\ main'.pc = "joining" /\ main'.connFails = main.connFails
    BY <1>1, <1>3 DEF RoundSet
  <2> QED
    BY <1>1, <1>3, <2>2, <2>3 DEF Typed, TypeOK
<1> QED
  BY <1>2, <1>3 DEF SendReg

LEMMA DoneType ==
    ASSUME Typed, NEW a \in Refreshers, NEW m \in MemorySet, NEW e \in BOOLEAN,
           NEW w \in SocketSet, Done(a, m, e, w)
    PROVE  /\ enabled' \in BOOLEAN /\ mem' \in MemorySet
           /\ ref' \in [Refreshers -> RefreshSet] /\ main' \in RoundSet
           /\ ws' \in SocketSet
           /\ lapses' \subseteq {"refreshes", "registration", "lookup", "refetch"}
           /\ Bounds'
<1> USE MainRefreshes
<1>1. /\ main \in RoundSet /\ ref \in [Refreshers -> RefreshSet]
      /\ lapses \subseteq {"refreshes", "registration", "lookup", "refetch"}
      /\ mem' = m
  BY DEF Typed, TypeOK, Done
<1>2. ASSUME NEW b \in Refreshers, ref' = [ref EXCEPT ![b] = Idle]
      PROVE  /\ ref' \in [Refreshers -> RefreshSet]
             /\ \A c \in Refreshers : ref'[c] = ref[c] \/ ref'[c].pc = "idle"
  BY <1>1, <1>2, IdleType DEF Idle
<1>3. ASSUME ref' = AllIdle
      PROVE  /\ ref' \in [Refreshers -> RefreshSet]
             /\ \A c \in Refreshers : ref'[c] = ref[c] \/ ref'[c].pc = "idle"
  BY <1>3, IdleType DEF AllIdle, Idle
<1>4. ASSUME \A c \in Refreshers : ref'[c] = ref[c] \/ ref'[c].pc = "idle",
             main'.pc = "connected" => main'.netFails = 0,
             main'.pc \notin {"failing", "relogin", "ended"} => main'.connFails < ConnectionLimit
      PROVE  Bounds'
  BY <1>4 DEF Typed, Bounds
<1>5. CASE /\ ref' = [ref EXCEPT ![a] = Idle] /\ enabled' = e /\ ws' = w
           /\ UNCHANGED <<main, lapses>>
  BY <1>1, <1>2, <1>4, <1>5 DEF Typed, Bounds
<1>6. CASE /\ main.pc = "fetching" /\ Count(m, e) /\ ws' = w /\ UNCHANGED lapses
  <2> DEFINE n == main.tokenFails + (IF m.status = "excused" THEN 0 ELSE 1)
  <2>1. main.connFails < ConnectionLimit
    BY <1>6 DEF Typed, Bounds
  <2>2. CASE /\ n < TokenLimit
             /\ main' = [main EXCEPT !.pc = "checking", !.tokenFails = n]
             /\ ref' = [ref EXCEPT ![Main] = Idle] /\ enabled' = e
    <3>1. n \in 0 .. TokenLimit - 1
      BY <1>1, <2>2 DEF RoundSet
    <3>2. main' \in RoundSet /\ main'.pc = "checking" /\ main'.connFails = main.connFails
      BY <1>1, <2>2, <3>1 DEF RoundSet
    <3> QED
      BY <1>1, <1>2, <1>4, <1>6, <2>1, <2>2, <3>2
  <2>3. CASE main' = Ended(main) /\ ref' = AllIdle /\ enabled' = FALSE
    <3>1. main' \in RoundSet /\ main'.pc = "ended"
      BY <1>1, <2>3 DEF Ended, RoundSet
    <3> QED
      BY <1>1, <1>3, <1>4, <1>6, <2>3, <3>1
  <2> QED
    BY <1>6, <2>2, <2>3 DEF Count
<1>7. CASE /\ main.pc = "fetching"
           /\ ref' = [ref EXCEPT ![a] = Idle] /\ enabled' = e /\ ws' = w
           /\ main' = [main EXCEPT !.pc = "connecting"] /\ UNCHANGED lapses
  <2>1. main.connFails < ConnectionLimit
    BY <1>7 DEF Typed, Bounds
  <2>2. main' \in RoundSet /\ main'.pc = "connecting" /\ main'.connFails = main.connFails
    BY <1>1, <1>7 DEF RoundSet
  <2> QED
    BY <1>1, <1>2, <1>4, <1>7, <2>1, <2>2
<1>8. CASE /\ main.pc = "opening" /\ ref' = [ref EXCEPT ![a] = Idle] /\ enabled' = e
           /\ SendReg(m, w)
  BY <1>1, <1>2, <1>4, <1>8, SendRegType
<1>9. CASE /\ main.pc = "opening" /\ ref' = [ref EXCEPT ![a] = Idle] /\ enabled' = e
           /\ Failed(m) /\ ws' = Closed /\ UNCHANGED lapses
  <2>1. ws' \in SocketSet
    BY <1>9, ClosedType
  <2> QED
    BY <1>1, <1>2, <1>4, <1>9, <2>1, FailedType
<1> QED
  BY <1>5, <1>6, <1>7, <1>8, <1>9 DEF Done
-----------------------------------------------------------------------------
(* The steps of a refresh keep the types.                                  *)

\* The refresh of a is at another place; main and its counters are as before.
LEMMA MovedType ==
    ASSUME Typed, NEW a \in Refreshers, NEW f \in RefreshSet,
           ref' = [ref EXCEPT ![a] = f], UNCHANGED main,
           (f.pc \in {"asking", "login", "solving"} \/ (f.pc = "deleting" /\ f.again))
              => f.captcha < CaptchaLimit,
           f.pc \in {"using", "adopting", "storing"} => f.token # NoToken
    PROVE  ref' \in [Refreshers -> RefreshSet] /\ Bounds'
<1>1. ref \in [Refreshers -> RefreshSet]
  BY DEF Typed, TypeOK
<1> QED
  BY <1>1 DEF Typed, Bounds

LEMMA ReadSwitchType == ASSUME Typed, NEW a \in Refreshers, ReadSwitch(a) PROVE Typed'
<1>0. UNCHANGED <<row, mem, caller, apart>>
  BY DEF ReadSwitch
<1>1. PICK s \in world.switch \cup (IF world.faults THEN {"unknown"} ELSE {}) :
        ref' = [ref EXCEPT ![a].slider = s,
                  ![a].pc = IF s # "off" \/ (ref[a].captcha = 0 /\ ref[a].expiry = 0)
                              THEN "looking" ELSE "logs"]
  BY DEF ReadSwitch
<1> DEFINE f == [ref[a] EXCEPT !.slider = s,
                   !.pc = IF s # "off" \/ (ref[a].captcha = 0 /\ ref[a].expiry = 0)
                            THEN "looking" ELSE "logs"]
<1>2. ref \in [Refreshers -> RefreshSet] /\ ref[a] \in RefreshSet
  BY DEF Typed, TypeOK
<1>6. s \in {"on", "off", "unknown"}
  BY DEF Typed, TypeOK, World
<1>3. f \in RefreshSet /\ f.pc \in {"looking", "logs"}
  BY <1>2, <1>6 DEF RefreshSet
<1>4. ref' = [ref EXCEPT ![a] = f]
  BY <1>1, <1>2
<1>5. ref' \in [Refreshers -> RefreshSet] /\ Bounds'
  <2> HIDE DEF f
  <2> QED
    BY <1>0, <1>3, <1>4, MovedType DEF caller
<1> QED
  BY <1>0, <1>5 DEF Typed, TypeOK, caller, apart, platform

LEMMA LookUpType == ASSUME Typed, NEW a \in Refreshers, LookUp(a) PROVE Typed'
<1> DEFINE f == [ref[a] EXCEPT !.pc = "using", !.token = row.token,
                               !.device = row.device, !.kind = Validity]
<1>1. row \in RowSet /\ ref \in [Refreshers -> RefreshSet] /\ ref[a] \in RefreshSet
  BY DEF Typed, TypeOK
<1>2. Validity \in {"current", "renewed", "expired"}
  BY DEF Validity
<1>3. f \in RefreshSet /\ f.pc = "using" /\ f.token # NoToken
  BY <1>1, <1>2 DEF LookUp, RefreshSet, RowSet
<1>4. ref' = [ref EXCEPT ![a] = f]
  BY <1>1 DEF LookUp
<1>5. ref' \in [Refreshers -> RefreshSet] /\ Bounds'
  <2> HIDE DEF f
  <2> QED
    BY <1>3, <1>4, MovedType DEF LookUp, caller
<1>6. row' \in RowSet
  BY <1>1 DEF LookUp, RowSet, Ages
<1> QED
  BY <1>5, <1>6 DEF LookUp, Typed, TypeOK, caller, apart, platform

LEMMA LookedType ==
    ASSUME NEW f, NEW m \in MemorySet
    PROVE  Looked(f, m) \in MemorySet
BY DEF Looked, MemorySet

LEMMA LookUpInVainType == ASSUME Typed, NEW a \in Refreshers, LookUpInVain(a) PROVE Typed'
<1>1. /\ mem \in MemorySet /\ ws \in SocketSet /\ enabled \in BOOLEAN
      /\ ref \in [Refreshers -> RefreshSet] /\ ref[a] \in RefreshSet
  BY DEF Typed, TypeOK
<1>2. CASE Done(a, [mem EXCEPT !.token = NoToken, !.status = "excused"], enabled, ws)
  <2>1. [mem EXCEPT !.token = NoToken, !.status = "excused"] \in MemorySet
    BY <1>1, ForgetType
  <2> QED
    BY <1>1, <1>2, <2>1, DoneType DEF LookUpInVain, Typed, TypeOK, apart, platform
<1>3. CASE ref' = [ref EXCEPT ![a].pc = "logs"] /\ mem' = Looked(ref[a], mem) /\ UNCHANGED caller
  <2>1. [ref[a] EXCEPT !.pc = "logs"] \in RefreshSet /\ [ref[a] EXCEPT !.pc = "logs"].pc = "logs"
    BY <1>1 DEF RefreshSet
  <2>2. ref' = [ref EXCEPT ![a] = [ref[a] EXCEPT !.pc = "logs"]]
    BY <1>1, <1>3
  <2>3. ref' \in [Refreshers -> RefreshSet] /\ Bounds'
    BY <1>3, <2>1, <2>2, MovedType DEF caller
  <2> QED
    BY <1>1, <1>3, <2>3, LookedType DEF LookUpInVain, Typed, TypeOK, caller, apart, platform
<1> QED
  BY <1>2, <1>3 DEF LookUpInVain

LEMMA LookUpFailsType == ASSUME Typed, NEW a \in Refreshers, LookUpFails(a) PROVE Typed'
<1>1. /\ mem \in MemorySet /\ ws \in SocketSet /\ enabled \in BOOLEAN
      /\ ref \in [Refreshers -> RefreshSet] /\ ref[a] \in RefreshSet
      /\ lapses \subseteq {"refreshes", "registration", "lookup", "refetch"}
  BY DEF Typed, TypeOK
<1>2. CASE Done(a, [mem EXCEPT !.status = "excused"], enabled, ws)
  <2>1. [mem EXCEPT !.status = "excused"] \in MemorySet
    BY <1>1, ForgetType
  <2> QED
    BY <1>1, <1>2, <2>1, DoneType DEF LookUpFails, Typed, TypeOK, apart, platform
<1>3. CASE /\ ref' = [ref EXCEPT ![a].pc = "logs"] /\ lapses' = lapses \cup {"lookup"}
           /\ UNCHANGED <<mem, enabled, main, ws>>
  <2>1. [ref[a] EXCEPT !.pc = "logs"] \in RefreshSet /\ [ref[a] EXCEPT !.pc = "logs"].pc = "logs"
    BY <1>1 DEF RefreshSet
  <2>2. ref' = [ref EXCEPT ![a] = [ref[a] EXCEPT !.pc = "logs"]]
    BY <1>1, <1>3
  <2>3. ref' \in [Refreshers -> RefreshSet] /\ Bounds'
    BY <1>3, <2>1, <2>2, MovedType
  <2> QED
    BY <1>1, <1>3, <2>3 DEF LookUpFails, Typed, TypeOK, apart, platform
<1> QED
  BY <1>2, <1>3 DEF LookUpFails

LEMMA UseType == ASSUME Typed, NEW a \in Refreshers, Use(a) PROVE Typed'
<1> DEFINE late == ref[a].kind = "expired" /\ ref[a].slider = "off"
           used == [mem EXCEPT !.token = ref[a].token, !.device = ref[a].device,
                      !.inUse = ref[a].token, !.startup = late,
                      !.status = IF ref[a].kind = "renewed" THEN "renewal" ELSE "success"]
<1>1. /\ mem \in MemorySet /\ ws \in SocketSet /\ enabled \in BOOLEAN
      /\ ref[a] \in RefreshSet /\ marks \subseteq {"fallback", "unstored"}
  BY DEF Typed, TypeOK
<1>2. used \in MemorySet
  BY <1>1 DEF MemorySet, RefreshSet
<1>3. Reconnect(ref[a].kind) \in SocketSet
  BY <1>1 DEF Reconnect, SocketSet
<1>4. Done(a, Looked(ref[a], used), enabled, Reconnect(ref[a].kind))
  BY DEF Use
<1>5. Looked(ref[a], used) \in MemorySet
  BY <1>2, LookedType
<1>6. seen' \subseteq Tokens
  <2>1. ref[a].pc = "using" /\ seen' = seen \cup {ref[a].token}
    BY DEF Use
  <2>2. ref[a].token # NoToken
    BY <2>1 DEF Typed, Bounds
  <2>3. ref[a].token \in Tokens
    BY <1>1, <2>2 DEF RefreshSet, Known, Tokens, NoToken
  <2> QED
    BY <2>1, <2>3 DEF Typed, TypeOK
<1>7. UNCHANGED <<row, sched, platform>> /\ marks' \subseteq {"fallback", "unstored"}
  BY <1>1 DEF Use
<1> HIDE DEF used
<1> QED
  BY <1>1, <1>3, <1>4, <1>5, <1>6, <1>7, DoneType DEF Typed, TypeOK, platform

LEMMA CheckLogsType == ASSUME Typed, NEW a \in Refreshers, CheckLogs(a) PROVE Typed'
<1>1. /\ mem \in MemorySet /\ ws \in SocketSet /\ enabled \in BOOLEAN
      /\ ref \in [Refreshers -> RefreshSet] /\ ref[a] \in RefreshSet
  BY DEF Typed, TypeOK
<1>2. CASE Done(a, [mem EXCEPT !.status = "excused"], enabled, ws)
  <2>1. [mem EXCEPT !.status = "excused"] \in MemorySet
    BY <1>1, ForgetType
  <2> QED
    BY <1>1, <1>2, <2>1, DoneType DEF CheckLogs, Typed, TypeOK, apart, platform
<1>3. CASE /\ ref[a].captcha < CaptchaLimit
           /\ ref' = [ref EXCEPT ![a].pc = "asking"]
           /\ UNCHANGED <<mem, caller>>
  <2> DEFINE f == [ref[a] EXCEPT !.pc = "asking"]
  <2>1. f \in RefreshSet /\ f.captcha < CaptchaLimit /\ f.pc = "asking"
    BY <1>1, <1>3 DEF RefreshSet, MemorySet
  <2>2. ref' = [ref EXCEPT ![a] = f]
    BY <1>1, <1>3
  <2>3. ref' \in [Refreshers -> RefreshSet] /\ Bounds'
    <3> HIDE DEF f
    <3> QED
      BY <1>3, <2>1, <2>2, MovedType DEF caller
  <2> QED
    BY <1>1, <1>3, <2>3 DEF CheckLogs, Typed, TypeOK, caller, apart, platform
<1> QED
  BY <1>2, <1>3 DEF CheckLogs

LEMMA IssueType ==
    ASSUME Typed, NEW d \in Devices, Issue(d)
    PROVE  /\ issued + 1 \in Known /\ issued' = issued + 1 /\ issued' \in Known
           /\ boundTo' \in [Tokens -> Devices] /\ world' \in World
BY DEF Typed, TypeOK, Issue, Known, Tokens

LEMMA AnswerTokenType == ASSUME Typed, NEW a \in Refreshers, AnswerToken(a) PROVE Typed'
<1>1. /\ mem \in MemorySet /\ seen \subseteq Tokens
      /\ ref \in [Refreshers -> RefreshSet] /\ ref[a] \in RefreshSet
  BY DEF Typed, TypeOK
<1>2. PICK d \in Devices : Issue(d) /\ mem' = [mem EXCEPT !.device = d]
  BY WorldDevices DEF AnswerToken, Typed, TypeOK
<1> DEFINE f == [ref[a] EXCEPT !.pc = "adopting", !.token = issued + 1]
<1>3. issued + 1 \in Known /\ issued + 1 # NoToken
  BY <1>2, IssueType DEF Typed, TypeOK, Known, NoToken
<1>9. f \in RefreshSet /\ f.pc = "adopting" /\ f.token # NoToken
  BY <1>1, <1>3 DEF RefreshSet
<1>4. ref' = [ref EXCEPT ![a] = f]
  BY <1>1 DEF AnswerToken
<1>5. UNCHANGED <<row, caller, sched, seen, marks>>
  BY DEF AnswerToken
<1>6. ref' \in [Refreshers -> RefreshSet] /\ Bounds'
  <2> HIDE DEF f
  <2> QED
    BY <1>9, <1>4, <1>5, MovedType DEF caller
<1>7. mem' \in MemorySet
  BY <1>1, <1>2 DEF MemorySet
<1> QED
  BY <1>1, <1>2, <1>5, <1>6, <1>7, IssueType DEF Typed, TypeOK, caller

LEMMA AdoptType == ASSUME Typed, NEW a \in Refreshers, Adopt(a) PROVE Typed'
<1> DEFINE f == [ref[a] EXCEPT !.pc = "storing", !.device = mem.device]
<1>1. /\ mem \in MemorySet /\ seen \subseteq Tokens
      /\ ref \in [Refreshers -> RefreshSet] /\ ref[a] \in RefreshSet
  BY DEF Typed, TypeOK
<1>2. ref[a].token # NoToken
  BY DEF Adopt, Typed, Bounds
<1>3. ref[a].token \in Tokens
  BY <1>1, <1>2 DEF RefreshSet, Known, Tokens, NoToken
<1>4. f \in RefreshSet /\ f.pc = "storing" /\ f.token # NoToken
  BY <1>1, <1>2 DEF RefreshSet, MemorySet
<1>5. ref' = [ref EXCEPT ![a] = f]
  BY <1>1 DEF Adopt
<1>6. UNCHANGED <<row, caller, sched, platform, marks>> /\ seen' = seen \cup {ref[a].token}
  BY DEF Adopt
<1>7. ref' \in [Refreshers -> RefreshSet] /\ Bounds'
  <2> HIDE DEF f
  <2> QED
    BY <1>4, <1>5, <1>6, MovedType DEF caller
<1>8. mem' \in MemorySet
  BY <1>1 DEF Adopt, MemorySet, RefreshSet
<1> QED
  BY <1>1, <1>3, <1>6, <1>7, <1>8 DEF Typed, TypeOK, caller, platform

LEMMA StoreType == ASSUME Typed, NEW a \in Refreshers, Store(a) PROVE Typed'
<1>1. /\ mem \in MemorySet /\ ws \in SocketSet /\ enabled \in BOOLEAN
      /\ row \in RowSet /\ ref[a] \in RefreshSet
  BY DEF Typed, TypeOK
<1>2. CASE /\ row' = [token |-> ref[a].token, device |-> ref[a].device,
                      expire |-> "fresh", renew |-> "past"]
           /\ Done(a, [mem EXCEPT !.inUse = ref[a].token], enabled, ws)
           /\ UNCHANGED marks
  <2>1. [mem EXCEPT !.inUse = ref[a].token] \in MemorySet
    BY <1>1 DEF MemorySet, RefreshSet
  <2>2. row' \in RowSet
    BY <1>1, <1>2 DEF RowSet, RefreshSet, Ages
  <2> QED
    BY <1>1, <1>2, <2>1, <2>2, DoneType DEF Store, Typed, TypeOK, platform
<1>3. CASE row' = row /\ Done(a, mem, enabled, ws) /\ marks' = marks \cup {"unstored"}
  BY <1>1, <1>3, DoneType DEF Store, Typed, TypeOK, platform
<1> QED
  BY <1>2, <1>3 DEF Store

LEMMA DeletingType ==
    ASSUME Typed, NEW a \in Refreshers, NEW m \in MemorySet, NEW again \in BOOLEAN,
           NEW e \in BOOLEAN, again => ref[a].captcha < CaptchaLimit,
           Deleting(a, m, again, e), UNCHANGED <<row, apart>>
    PROVE  Typed'
<1> DEFINE f == [ref[a] EXCEPT !.pc = "deleting", !.token = m.inUse, !.device = m.device,
                               !.again = again]
<1>1. ref \in [Refreshers -> RefreshSet] /\ ref[a] \in RefreshSet
  BY DEF Typed, TypeOK
<1>2. f \in RefreshSet /\ f.pc = "deleting" /\ (f.again => f.captcha < CaptchaLimit)
  BY <1>1 DEF RefreshSet, MemorySet
<1>3. ref' = [ref EXCEPT ![a] = f]
  BY <1>1 DEF Deleting
<1>4. mem' = m /\ enabled' = e /\ UNCHANGED <<main, ws, lapses>>
  BY DEF Deleting
<1>5. ref' \in [Refreshers -> RefreshSet] /\ Bounds'
  <2> HIDE DEF f
  <2> QED
    BY <1>2, <1>3, <1>4, MovedType
<1> QED
  BY <1>4, <1>5 DEF Typed, TypeOK, apart, platform

LEMMA AgainType ==
    ASSUME Typed, NEW a \in Refreshers, NEW captcha \in 0 .. CaptchaLimit,
           NEW expiry \in 0 .. 1, Again(a, captcha, expiry)
    PROVE  /\ ref' \in [Refreshers -> RefreshSet] /\ mem' \in MemorySet
           /\ UNCHANGED caller /\ Bounds'
<1> DEFINE f == [Idle EXCEPT !.pc = "setting", !.captcha = captcha, !.expiry = expiry]
<1>1. f \in RefreshSet /\ f.pc = "setting"
  BY IdleType DEF RefreshSet, Idle
<1>2. ref' = [ref EXCEPT ![a] = f] /\ UNCHANGED caller
  BY DEF Again
<1>3. mem' \in MemorySet
  BY ForgetType DEF Again, Typed, TypeOK
<1> HIDE DEF f
<1> QED
  BY <1>1, <1>2, <1>3, MovedType DEF caller

LEMMA DeleteType == ASSUME Typed, NEW a \in Refreshers, Delete(a) PROVE Typed'
<1>1. /\ mem \in MemorySet /\ ws \in SocketSet /\ enabled \in BOOLEAN
      /\ row \in RowSet /\ ref[a] \in RefreshSet
  BY DEF Typed, TypeOK
<1>2. row' \in RowSet
  BY <1>1 DEF Delete, DeleteCached, Marked, RowSet, Ages
<1>3. CASE ref[a].again /\ Again(a, ref[a].captcha + 1, 0)
  <2>1. ref[a].captcha < CaptchaLimit
    BY <1>3 DEF Delete, Typed, Bounds
  <2>2. ref[a].captcha + 1 \in 0 .. CaptchaLimit
    BY <1>1, <2>1, Limits DEF RefreshSet
  <2> QED
    <3>1. 0 \in 0 .. 1
      OBVIOUS
    <3>2. /\ ref' \in [Refreshers -> RefreshSet] /\ mem' \in MemorySet
          /\ UNCHANGED caller /\ Bounds'
      BY <1>3, <2>2, <3>1, AgainType
    <3> QED
      BY <1>2, <3>2 DEF Delete, Typed, TypeOK, caller, apart, platform
<1>4. CASE Done(a, mem, enabled, ws)
  BY <1>1, <1>2, <1>4, DoneType DEF Delete, Typed, TypeOK, apart, platform
<1> QED
  BY <1>3, <1>4 DEF Delete

LEMMA NoTokenAsType ==
    ASSUME Typed
    PROVE  NoTokenAs("failed") \in MemorySet /\ NoTokenAs("excused") \in MemorySet
BY ForgetType DEF NoTokenAs, Typed, TypeOK

LEMMA AnswerType ==
    ASSUME Typed, NEW a \in Refreshers,
           \/ AnswerTimeout(a) \/ AnswerRefused(a) \/ AnswerExpired(a) \/ AnswerSession(a)
    PROVE  Typed'
<1>1. /\ mem \in MemorySet /\ ws \in SocketSet /\ enabled \in BOOLEAN
      /\ ref \in [Refreshers -> RefreshSet] /\ ref[a] \in RefreshSet
  BY DEF Typed, TypeOK
<1>2. CASE AnswerTimeout(a)
  BY <1>1, <1>2, NoTokenAsType, DoneType DEF AnswerTimeout, Typed, TypeOK, apart, platform
<1>3. CASE AnswerRefused(a)
  BY <1>1, <1>3, NoTokenAsType, DeletingType DEF AnswerRefused
<1>4. CASE AnswerExpired(a)
  <2>1. /\ ref[a].captcha \in 0 .. CaptchaLimit /\ 1 \in 0 .. 1
        /\ Again(a, ref[a].captcha, 1) /\ UNCHANGED <<row, apart>>
    BY <1>1, <1>4 DEF AnswerExpired, RefreshSet
  <2>2. /\ ref' \in [Refreshers -> RefreshSet] /\ mem' \in MemorySet
        /\ UNCHANGED caller /\ Bounds'
    BY <2>1, AgainType
  <2> QED
    BY <2>1, <2>2 DEF Typed, TypeOK, caller, apart, platform
<1>5. CASE AnswerSession(a)
  <2>1. /\ [ref[a] EXCEPT !.pc = "login"] \in RefreshSet
        /\ [ref[a] EXCEPT !.pc = "login"].pc = "login"
        /\ [ref[a] EXCEPT !.pc = "login"].captcha < CaptchaLimit
    BY <1>1, <1>5 DEF AnswerSession, RefreshSet, Typed, Bounds
  <2>2. ref' = [ref EXCEPT ![a] = [ref[a] EXCEPT !.pc = "login"]]
    BY <1>1, <1>5 DEF AnswerSession
  <2>3. ref' \in [Refreshers -> RefreshSet] /\ Bounds'
    BY <1>5, <2>1, <2>2, MovedType DEF AnswerSession, caller
  <2> QED
    BY <1>5, <2>3 DEF AnswerSession, Typed, TypeOK, caller, apart, platform
<1> QED
  BY <1>2, <1>3, <1>4, <1>5

LEMMA AnswerCaptchaType == ASSUME Typed, NEW a \in Refreshers, AnswerCaptcha(a) PROVE Typed'
<1>1. /\ mem \in MemorySet /\ ws \in SocketSet /\ enabled \in BOOLEAN
      /\ ref \in [Refreshers -> RefreshSet] /\ ref[a] \in RefreshSet
  BY DEF Typed, TypeOK
<1>2. /\ [mem EXCEPT !.status = "excused"] \in MemorySet
      /\ [mem EXCEPT !.status = "failed"] \in MemorySet
  BY <1>1, ForgetType
<1>3. UNCHANGED <<row, apart>> /\ ref[a].pc = "asking"
  BY DEF AnswerCaptcha
<1>4. ASSUME NEW m \in MemorySet, Done(a, m, enabled, ws)
      PROVE  Typed'
  BY <1>1, <1>3, <1>4, DoneType DEF Typed, TypeOK, apart, platform
<1>5. CASE Deleting(a, NoTokenAs("excused"), FALSE, enabled)
  BY <1>1, <1>3, <1>5, NoTokenAsType, DeletingType
<1>6. CASE ref' = [ref EXCEPT ![a].pc = "solving"] /\ UNCHANGED <<mem, caller>>
  <2>1. /\ [ref[a] EXCEPT !.pc = "solving"] \in RefreshSet
        /\ [ref[a] EXCEPT !.pc = "solving"].pc = "solving"
        /\ [ref[a] EXCEPT !.pc = "solving"].captcha < CaptchaLimit
    BY <1>1, <1>3 DEF RefreshSet, Typed, Bounds
  <2>2. ref' = [ref EXCEPT ![a] = [ref[a] EXCEPT !.pc = "solving"]]
    BY <1>1, <1>6
  <2>3. ref' \in [Refreshers -> RefreshSet] /\ Bounds'
    BY <1>6, <2>1, <2>2, MovedType DEF caller
  <2> QED
    BY <1>3, <1>6, <2>3 DEF Typed, TypeOK, caller, apart, platform
<1> QED
  BY <1>2, <1>4, <1>5, <1>6, NoTokenAsType DEF AnswerCaptcha

LEMMA SolvedType ==
    ASSUME Typed, NEW a \in Refreshers, Solved(a) \/ LogIn(a)
    PROVE  Typed'
<1>1. mem \in MemorySet /\ ws \in SocketSet /\ enabled \in BOOLEAN
  BY DEF Typed, TypeOK
<1>2. UNCHANGED <<row, apart>> /\ ref[a].captcha < CaptchaLimit
  BY DEF Solved, LogIn, Typed, Bounds
<1>3. ASSUME NEW m \in MemorySet, NEW again \in BOOLEAN, NEW e \in BOOLEAN,
             Deleting(a, m, again, e)
      PROVE  Typed'
  BY <1>2, <1>3, DeletingType
<1>4. CASE Done(a, mem, FALSE, ws)
  BY <1>1, <1>2, <1>4, DoneType DEF Typed, TypeOK, apart, platform
<1> QED
  BY <1>1, <1>3, <1>4, NoTokenAsType DEF Solved, LogIn

\* A refetch may change the device in memory, and nothing else in it.
LEMMA RefetchDoes ==
    ASSUME Typed, NEW a \in Refreshers, Refetch(a)
    PROVE  /\ ref[a].pc = "solving"
           /\ \E g \in RefreshSet :
                /\ ref' = [ref EXCEPT ![a] = g]
                /\ g.pc = "solving" /\ g.token = ref[a].token /\ g.captcha = ref[a].captcha
                /\ g.expiry = ref[a].expiry /\ g.initial = ref[a].initial
           /\ mem' \in MemorySet /\ mem'.token = mem.token /\ mem'.inUse = mem.inUse
           /\ mem'.startup = mem.startup /\ mem'.fallback = mem.fallback
           /\ "refetch" \notin lapses' => mem.token = NoToken \/ mem'.device = mem.device
           /\ lapses \subseteq lapses' /\ lapses' \subseteq lapses \cup {"refetch"}
           /\ UNCHANGED <<row, enabled, main, ws, apart>>
<1>1. /\ mem \in MemorySet /\ world \in World
      /\ ref \in [Refreshers -> RefreshSet] /\ ref[a] \in RefreshSet
  BY DEF Typed, TypeOK
<1>2. PICK d \in world.refetches :
        /\ mem' = [mem EXCEPT !.device = d]
        /\ lapses' = IF mem.token # NoToken /\ d # mem.device
                       THEN lapses \cup {"refetch"} ELSE lapses
  BY DEF Refetch
<1>3. d \in Devices
  BY <1>1 DEF World
<1>4. /\ mem' \in MemorySet /\ mem'.token = mem.token /\ mem'.inUse = mem.inUse
      /\ mem'.startup = mem.startup /\ mem'.fallback = mem.fallback /\ mem'.device = d
  BY <1>1, <1>2, <1>3 DEF MemorySet
<1> DEFINE g == [ref[a] EXCEPT !.again = TRUE]
<1>5. /\ g \in RefreshSet /\ g.pc = ref[a].pc /\ g.token = ref[a].token
      /\ g.captcha = ref[a].captcha /\ g.expiry = ref[a].expiry /\ g.initial = ref[a].initial
  BY <1>1 DEF RefreshSet
<1>6. ref[a].pc = "solving" /\ UNCHANGED <<row, enabled, main, ws, apart>>
  BY DEF Refetch
<1>7. ref' = [ref EXCEPT ![a] = g]
  BY <1>1 DEF Refetch
<1> HIDE DEF g
<1> QED
  BY <1>2, <1>4, <1>5, <1>6, <1>7

LEMMA RefetchType == ASSUME Typed, NEW a \in Refreshers, Refetch(a) PROVE Typed'
<1>1. PICK g \in RefreshSet :
        ref' = [ref EXCEPT ![a] = g] /\ g.pc = "solving" /\ g.captcha = ref[a].captcha
  BY RefetchDoes
<1>2. ref[a].captcha < CaptchaLimit /\ UNCHANGED <<row, enabled, main, ws, apart>>
  BY RefetchDoes DEF Typed, Bounds
<1>3. ref' \in [Refreshers -> RefreshSet] /\ Bounds'
  BY <1>1, <1>2, MovedType
<1>4. mem' \in MemorySet /\ lapses' \subseteq lapses \cup {"refetch"}
  BY RefetchDoes
<1> QED
  BY <1>2, <1>3, <1>4 DEF Typed, TypeOK, apart, platform

LEMMA RefreshType == ASSUME Typed, NEW a \in Refreshers, Refresh(a) PROVE Typed'
BY ReadSwitchType, LookUpType, LookUpInVainType, LookUpFailsType, UseType, CheckLogsType,
   AnswerTokenType, AdoptType, StoreType, AnswerType, AnswerCaptchaType, RefetchType, SolvedType,
   DeleteType
   DEF Refresh
-----------------------------------------------------------------------------
(* So do the rounds of main.                                               *)

LEMMA EnterType ==
    ASSUME Typed, NEW a \in Refreshers, Enter(a, mem)
    PROVE  /\ ref' \in [Refreshers -> RefreshSet] /\ mem' \in MemorySet
           /\ lapses' \subseteq {"refreshes", "registration", "lookup", "refetch"}
           /\ \A b \in Refreshers : ref'[b] = ref[b] \/ ref'[b].pc = "setting"
<1> DEFINE f == [Idle EXCEPT !.pc = "setting", !.initial = mem.fallback]
<1>1. mem \in MemorySet /\ ref \in [Refreshers -> RefreshSet]
  BY DEF Typed, TypeOK
<1>2. f \in RefreshSet /\ f.pc = "setting"
  BY <1>1, IdleType DEF RefreshSet, MemorySet, Idle
<1>3. ref' = [ref EXCEPT ![a] = f]
  BY DEF Enter
<1>4. mem' \in MemorySet
  BY <1>1, ForgetType DEF Enter
<1>5. lapses' \subseteq {"refreshes", "registration", "lookup", "refetch"}
  BY DEF Enter, Typed, TypeOK
<1> HIDE DEF f
<1> QED
  BY <1>1, <1>2, <1>3, <1>4, <1>5

\* A round that moves on below the limits.
LEMMA RoundType ==
    ASSUME Typed, main' \in RoundSet,
           main'.pc = "connected" => main'.netFails = 0,
           main'.pc \notin {"failing", "relogin", "ended"} => main'.connFails < ConnectionLimit,
           \A b \in Refreshers : ref'[b] = ref[b] \/ ref'[b].pc \in {"idle", "setting"}
    PROVE  Bounds'
BY DEF Typed, Bounds

LEMMA EndType ==
    ASSUME Typed, End
    PROVE  /\ main' \in RoundSet /\ ref' \in [Refreshers -> RefreshSet]
           /\ ws' \in SocketSet /\ Bounds'
<1>1. main' \in RoundSet /\ main'.pc = "ended"
  BY DEF End, Ended, Typed, TypeOK, RoundSet
<1>2. ref' \in [Refreshers -> RefreshSet] /\ \A b \in Refreshers : ref'[b].pc = "idle"
  BY IdleType DEF End, AllIdle, Idle
<1>3. ws' \in SocketSet
  BY ClosedType DEF End
<1> QED
  BY <1>1, <1>2, <1>3, RoundType

LEMMA ReadStateType == ASSUME Typed, ReadState PROVE Typed'
<1>1. UNCHANGED <<row, mem, enabled, lapses, apart>>
  BY DEF ReadState
<1>2. CASE main' = [main EXCEPT !.pc = "ready"] /\ UNCHANGED <<ref, ws>>
  <2>1. main \in RoundSet /\ main.connFails < ConnectionLimit
    BY DEF ReadState, Typed, TypeOK, Bounds
  <2>2. main' \in RoundSet /\ main'.pc = "ready" /\ main'.connFails = main.connFails
    BY <1>2, <2>1 DEF RoundSet
  <2>3. Bounds'
    BY <1>2, <2>1, <2>2, RoundType
  <2> QED
    BY <1>1, <1>2, <2>2, <2>3 DEF Typed, TypeOK, apart, platform
<1>3. CASE End
  BY <1>1, <1>3, EndType DEF Typed, TypeOK, apart, platform
<1> QED
  BY <1>2, <1>3 DEF ReadState

LEMMA ProceedType == ASSUME Typed, Proceed PROVE Typed'
<1>1. UNCHANGED <<row, enabled, ws, apart>>
  BY DEF Proceed
<1>2. main \in RoundSet /\ main.connFails < ConnectionLimit
  BY DEF Proceed, Typed, TypeOK, Bounds
<1>3. CASE Enter(Main, mem) /\ main' = [main EXCEPT !.pc = "fetching"]
  <2>1. main' \in RoundSet /\ main'.pc = "fetching" /\ main'.connFails = main.connFails
    BY <1>2, <1>3 DEF RoundSet
  <2>2. /\ ref' \in [Refreshers -> RefreshSet] /\ mem' \in MemorySet
        /\ lapses' \subseteq {"refreshes", "registration", "lookup", "refetch"}
        /\ \A b \in Refreshers : ref'[b] = ref[b] \/ ref'[b].pc = "setting"
    BY <1>3, EnterType, MainRefreshes
  <2>3. Bounds'
    BY <1>2, <2>1, <2>2, RoundType
  <2> QED
    BY <1>1, <2>1, <2>2, <2>3 DEF Typed, TypeOK, apart, platform
<1>4. CASE /\ main' = [main EXCEPT !.pc = "connecting", !.tokenFails = 0]
           /\ UNCHANGED <<mem, ref, lapses>>
  <2>1. 0 \in 0 .. TokenLimit - 1
    BY Limits
  <2>2. main' \in RoundSet /\ main'.pc = "connecting" /\ main'.connFails = main.connFails
    BY <1>2, <1>4, <2>1 DEF RoundSet
  <2>3. Bounds'
    BY <1>2, <1>4, <2>2, RoundType
  <2> QED
    BY <1>1, <1>4, <2>2, <2>3 DEF Typed, TypeOK, apart, platform
<1> QED
  BY <1>3, <1>4 DEF Proceed

LEMMA ConnectType == ASSUME Typed, Connect PROVE Typed'
<1>1. UNCHANGED <<row, mem, ref, enabled, lapses, apart>> /\ main.pc = "connecting"
  BY DEF Connect
<1>2. main \in RoundSet /\ main.connFails < ConnectionLimit /\ mem \in MemorySet /\ ws \in SocketSet
  BY <1>1 DEF Typed, TypeOK, Bounds
<1>3. main' \in RoundSet /\ ws' \in SocketSet /\ Bounds'
  <2>1. CASE /\ main' = [main EXCEPT !.pc = "opening"]
             /\ ws' = [Closed EXCEPT !.open = "yes"]
    <3>1. main' \in RoundSet /\ main'.pc = "opening" /\ main'.connFails = main.connFails
      BY <1>2, <2>1 DEF RoundSet
    <3>2. ws' \in SocketSet
      BY <2>1, ClosedType
    <3> QED
      BY <1>1, <1>2, <3>1, <3>2, RoundType
  <2>2. CASE Failed(mem) /\ UNCHANGED ws
    BY <1>1, <1>2, <2>2, FailedType, RoundType
  <2> QED
    BY <2>1, <2>2 DEF Connect
<1> QED
  BY <1>1, <1>3 DEF Typed, TypeOK, apart, platform

LEMMA RegisterType == ASSUME Typed, Register PROVE Typed'
<1>1. UNCHANGED <<row, enabled, apart>> /\ main.pc = "opening"
  BY DEF Register
<1>2. /\ main \in RoundSet /\ main.connFails < ConnectionLimit
      /\ mem \in MemorySet /\ ws \in SocketSet
  BY <1>1 DEF Typed, TypeOK, Bounds
<1>3. CASE Enter(Main, mem) /\ UNCHANGED <<main, ws>>
  <2>1. /\ ref' \in [Refreshers -> RefreshSet] /\ mem' \in MemorySet
        /\ lapses' \subseteq {"refreshes", "registration", "lookup", "refetch"}
        /\ \A b \in Refreshers : ref'[b] = ref[b] \/ ref'[b].pc = "setting"
    BY <1>3, EnterType, MainRefreshes
  <2>2. Bounds'
    BY <1>1, <1>2, <1>3, <2>1, RoundType
  <2> QED
    BY <1>1, <1>3, <2>1, <2>2 DEF Typed, TypeOK, apart, platform
<1>4. CASE SendReg(mem, ws) /\ UNCHANGED <<mem, ref>>
  <2>1. /\ main' \in RoundSet /\ ws' \in SocketSet
        /\ lapses' \subseteq {"refreshes", "registration", "lookup", "refetch"}
        /\ main'.pc = "connected" => main'.netFails = 0
        /\ main'.pc \notin {"failing", "relogin", "ended"} => main'.connFails < ConnectionLimit
    BY <1>1, <1>2, <1>4, SendRegType
  <2>2. Bounds'
    BY <1>4, <2>1, RoundType
  <2> QED
    BY <1>1, <1>4, <2>1, <2>2 DEF Typed, TypeOK, apart, platform
<1> QED
  BY <1>3, <1>4 DEF Register

LEMMA JoinType == ASSUME Typed, Join PROVE Typed'
<1>1. UNCHANGED <<row, mem, ref, enabled, lapses, apart>> /\ main.pc = "joining"
  BY DEF Join
<1>2. main \in RoundSet /\ mem \in MemorySet /\ ws \in SocketSet
  BY DEF Typed, TypeOK
<1>3. main' \in RoundSet /\ ws' \in SocketSet /\ Bounds'
  <2>1. CASE /\ main' = [main EXCEPT !.pc = "connected", !.up = TRUE, !.connFails = 0,
                                     !.netFails = 0]
             /\ UNCHANGED ws
    <3>1. 0 \in 0 .. ConnectionLimit /\ 0 \in 0 .. 1 /\ 0 < ConnectionLimit
      BY Limits
    <3>2. main' \in RoundSet /\ main'.netFails = 0 /\ main'.connFails = 0
      BY <1>2, <2>1, <3>1 DEF RoundSet
    <3> QED
      BY <1>1, <1>2, <2>1, <3>1, <3>2, RoundType
  <2>2. CASE Failed(mem) /\ ws' = Closed
    <3>1. ws' \in SocketSet
      BY <2>2, ClosedType
    <3> QED
      BY <1>1, <1>2, <2>2, <3>1, FailedType, RoundType
  <2> QED
    BY <2>1, <2>2 DEF Join
<1> QED
  BY <1>1, <1>3 DEF Typed, TypeOK, apart, platform

LEMMA RejectType == ASSUME Typed, Reject PROVE mem' \in MemorySet
BY NoTokenKnown DEF Reject, Typed, TypeOK, MemorySet

LEMMA CloseType == ASSUME Typed, CloseNormally PROVE Typed'
<1>1. UNCHANGED <<row, ref, enabled, lapses, apart>> /\ main.pc = "connected"
  BY DEF CloseNormally
<1>2. main \in RoundSet /\ main.connFails < ConnectionLimit
  BY <1>1 DEF Typed, TypeOK, Bounds
<1>3. main' \in RoundSet /\ main'.pc = "checking" /\ main'.connFails = main.connFails
  BY <1>2 DEF CloseNormally, RoundSet
<1>4. ws' \in SocketSet
  BY ClosedType DEF CloseNormally
<1>5. mem' \in MemorySet
  BY RejectType DEF CloseNormally, Typed, TypeOK
<1>6. Bounds'
  BY <1>1, <1>2, <1>3, RoundType
<1> QED
  BY <1>1, <1>3, <1>4, <1>5, <1>6 DEF Typed, TypeOK, apart, platform

LEMMA DropType == ASSUME Typed, Drop PROVE Typed'
<1>1. UNCHANGED <<row, lapses, apart>> /\ main.pc = "connected"
  BY DEF Drop
<1>2. /\ main \in RoundSet /\ main.connFails < ConnectionLimit /\ main.netFails = 0
      /\ mem \in MemorySet /\ ws \in SocketSet /\ enabled \in BOOLEAN
      /\ ref \in [Refreshers -> RefreshSet]
  BY <1>1 DEF Typed, TypeOK, Bounds
<1>3. CASE /\ Reject /\ main' = [main EXCEPT !.pc = "checking"]
           /\ ws' = Closed /\ UNCHANGED <<ref, enabled>>
  <2>1. main' \in RoundSet /\ main'.pc = "checking" /\ main'.connFails = main.connFails
    BY <1>2, <1>3 DEF RoundSet
  <2>2. ws' \in SocketSet
    BY <1>3, ClosedType
  <2>3. Bounds'
    BY <1>2, <1>3, <2>1, RoundType
  <2> QED
    BY <1>1, <1>2, <1>3, <2>1, <2>2, <2>3, RejectType DEF Typed, TypeOK, apart, platform
<1>4. ASSUME NEW n \in 0 .. main.shorts + 1, n < ShortLimit, UNCHANGED <<mem, ref, enabled>>,
             main' = [main EXCEPT !.pc = "checking", !.netFails = @ + 1, !.shorts = n],
             ws' = Closed
      PROVE  Typed'
  <2>1. n \in 0 .. ShortLimit - 1 /\ main.netFails + 1 \in 0 .. 1
    BY <1>2, <1>4, Limits DEF RoundSet
  <2>2. main' \in RoundSet /\ main'.pc = "checking" /\ main'.connFails = main.connFails
    BY <1>2, <1>4, <2>1 DEF RoundSet
  <2>3. ws' \in SocketSet
    BY <1>4, ClosedType
  <2>4. Bounds'
    BY <1>2, <1>4, <2>2, RoundType
  <2> QED
    BY <1>1, <1>2, <1>4, <2>2, <2>3, <2>4 DEF Typed, TypeOK, apart, platform
<1>5. CASE End /\ enabled' = FALSE /\ UNCHANGED mem
  BY <1>1, <1>2, <1>5, EndType DEF Typed, TypeOK, apart, platform
<1> QED
  BY <1>3, <1>4, <1>5 DEF Drop

LEMMA MarkedType == ASSUME Typed PROVE Marked \in RowSet
BY DEF Typed, TypeOK, Marked, RowSet, Ages

LEMMA FailType == ASSUME Typed, Fail PROVE Typed'
<1>1. UNCHANGED <<ref, enabled, ws, lapses, apart>>
  BY DEF Fail
<1>2. main \in RoundSet /\ mem \in MemorySet /\ row \in RowSet
  BY DEF Typed, TypeOK
<1>3. row' \in RowSet
  BY <1>2, MarkedType DEF Fail, DeleteCached
<1>4. /\ main' \in RoundSet /\ mem' \in MemorySet /\ main'.pc \in {"checking", "relogin"}
      /\ main'.pc = "checking" => main'.connFails < ConnectionLimit
  <2>1. /\ [Forgotten EXCEPT !.pc = "checking"] \in RoundSet
        /\ [Forgotten EXCEPT !.pc = "checking"].pc = "checking"
        /\ [Forgotten EXCEPT !.pc = "checking"].connFails = main.connFails
        /\ [Forgotten EXCEPT !.pc = "relogin"] \in RoundSet
        /\ [Forgotten EXCEPT !.pc = "relogin"].pc = "relogin"
    BY <1>2, NoTokenKnown, SomeDevice DEF Forgotten, Idle, RoundSet
  <2>2. [mem EXCEPT !.token = NoToken] \in MemorySet
    BY <1>2, NoTokenKnown DEF MemorySet
  <2> QED
    BY <1>2, <2>1, <2>2 DEF Fail
<1>5. Bounds'
  BY <1>1, <1>4, RoundType
<1> QED
  BY <1>1, <1>3, <1>4, <1>5 DEF Typed, TypeOK, apart, platform

LEMMA ReloginType == ASSUME Typed, Relogin PROVE Typed'
<1>1. UNCHANGED <<mem, lapses, apart>>
  BY DEF Relogin
<1>2. main \in RoundSet /\ row \in RowSet /\ enabled \in BOOLEAN
  BY DEF Typed, TypeOK
<1>3. CASE /\ main' = [main EXCEPT !.pc = "checking", !.connFails = 0, !.netFails = 0]
           /\ row' \in {row, IF Hits([token |-> mem.inUse, device |-> mem.device])
                              THEN Marked ELSE row}
           /\ UNCHANGED <<ref, ws, enabled>>
  <2>1. 0 \in 0 .. ConnectionLimit /\ 0 \in 0 .. 1 /\ 0 < ConnectionLimit
    BY Limits
  <2>2. main' \in RoundSet /\ main'.pc = "checking" /\ main'.connFails = 0
    BY <1>2, <1>3, <2>1 DEF RoundSet
  <2>3. row' \in RowSet
    BY <1>2, <1>3, MarkedType
  <2>4. Bounds'
    BY <1>3, <2>1, <2>2, RoundType
  <2> QED
    BY <1>1, <1>3, <2>2, <2>3, <2>4 DEF Typed, TypeOK, apart, platform
<1>4. CASE End /\ enabled' \in {enabled, enabled /\ "wrong" \notin world.logins} /\ UNCHANGED row
  <2>1. enabled' \in BOOLEAN
    BY <1>2, <1>4
  <2> QED
    BY <1>1, <1>4, <2>1, EndType DEF Typed, TypeOK, apart, platform
<1> QED
  BY <1>3, <1>4 DEF Relogin

LEMMA RoundKeepsType == ASSUME Typed, Round PROVE Typed'
BY ReadStateType, ProceedType, ConnectType, RegisterType, JoinType, CloseType, DropType,
   FailType, ReloginType DEF Round

LEMMA StopType == ASSUME Typed, Stop PROVE Typed'
<1>1. UNCHANGED <<row, mem, enabled, lapses, apart>> /\ End
  BY DEF Stop
<1> QED
  BY <1>1, EndType DEF Typed, TypeOK, apart, platform

LEMMA StartTaskType == ASSUME Typed, Start PROVE Typed'
<1>1. UNCHANGED <<row, ref, sched, platform, lapses, seen>> /\ marks' = {}
  BY DEF Start
<1>2. PICK d \in Devices : mem' = FreshMemory(d) /\ ws' = Closed
  BY WorldDevices DEF Start, Typed, TypeOK
<1>3. mem' \in MemorySet /\ ws' \in SocketSet /\ enabled' \in BOOLEAN
  BY <1>2, StartType, ClosedType DEF Start, Typed, TypeOK
<1>4. main.starts + 1 \in Nat
  BY DEF Typed, TypeOK, RoundSet
<1>5. /\ main' \in RoundSet /\ main'.pc = "checking"
      /\ main'.connFails < ConnectionLimit
  BY <1>4, StartType DEF Start
<1>6. Bounds'
  BY <1>1, <1>5, RoundType
<1> QED
  BY <1>1, <1>3, <1>5, <1>6 DEF Typed, TypeOK, platform

LEMMA LoopRefreshType ==
    ASSUME Typed, NEW a \in Loops, LoopRefresh(a)
    PROVE  Typed'
<1>1. UNCHANGED <<row, enabled, main, ws, apart>> /\ Enter(a, mem) /\ a \in Refreshers
  BY MainRefreshes DEF LoopRefresh
<1>2. /\ ref' \in [Refreshers -> RefreshSet] /\ mem' \in MemorySet
      /\ lapses' \subseteq {"refreshes", "registration", "lookup", "refetch"}
      /\ \A b \in Refreshers : ref'[b] = ref[b] \/ ref'[b].pc = "setting"
  BY <1>1, EnterType
<1>3. Bounds'
  BY <1>1, <1>2 DEF Typed, Bounds
<1> QED
  BY <1>1, <1>2, <1>3 DEF Typed, TypeOK, apart, platform
-----------------------------------------------------------------------------
(* And so do the steps of others.                                          *)

LEMMA OthersType ==
    ASSUME Typed, Age \/ Renewal \/ Invalidate
    PROVE  Typed'
<1>1. UNCHANGED <<mem, ref, caller, seen, marks>>
  BY DEF Age, Renewal, RenewalPick, RenewalAnswer, RenewalWrite, Invalidate, apart
<1>2. row \in RowSet /\ sched \in RenewalSet /\ Resting \in RenewalSet
  BY SomeDevice DEF Typed, TypeOK, Resting, RenewalSet, Known, NoToken
<1>3. row' \in RowSet
  BY <1>2, MarkedType
     DEF Age, Older, Renewal, RenewalPick, RenewalAnswer, RenewalWrite, Invalidate, RowSet,
         RenewalSet, Ages
<1>4. (sched' \in RenewalSet /\ UNCHANGED platform) \/ RenewalAnswer
  BY <1>2, NoTokenKnown
     DEF Age, Renewal, RenewalPick, RenewalWrite, Invalidate, apart, RenewalSet, RowSet,
         Typed, TypeOK
<1>5. /\ sched' \in RenewalSet /\ issued' \in Known /\ boundTo' \in [Tokens -> Devices]
      /\ world' \in World
  <2>1. CASE \E d \in Devices :
                /\ Issue(d)
                /\ sched' = [pc |-> "writing", token |-> issued + 1, device |-> d]
    BY <2>1, IssueType DEF RenewalSet
  <2>2. CASE sched' \in RenewalSet /\ UNCHANGED platform
    BY <2>2 DEF Typed, TypeOK, platform
  <2> QED
    BY <1>2, <1>4, <2>1, <2>2, WorldDevices DEF RenewalAnswer, RenewalSet, Typed, TypeOK
<1>6. Bounds'
  BY <1>1 DEF Typed, Bounds, caller
<1> QED
  BY <1>1, <1>3, <1>5, <1>6 DEF Typed, TypeOK, caller

LEMMA StepType == ASSUME Typed, [Next]_vars PROVE Typed'
<1>1. CASE UNCHANGED vars
  BY <1>1 DEF vars, caller, apart, platform, Typed, TypeOK, Bounds
<1>2. CASE Next
  BY <1>2, RefreshType, LoopRefreshType, RoundKeepsType, StopType, StartTaskType, OthersType
     DEF Next
<1> QED
  BY <1>1, <1>2

(* The state stays well typed: no counter passes its limit, and the count  *)
(* of network failures, which main clears with every connection, never     *)
(* exceeds one (XianyuAsync.main).                                         *)
THEOREM TypeCorrect == Spec => []TypeOK
<1>1. Typed => TypeOK
  BY DEF Typed
<1> QED
  BY <1>1, InitType, StepType, PTL DEF Spec
-----------------------------------------------------------------------------
(* Failures speak about tokens the task has used.  A failure without any   *)
(* token would mark whatever row has run out; it cannot, because as long   *)
(* as the task has used no token, and has lost none on the way to the row, *)
(* either the row is empty or the refresh of main takes it (FirstToken).   *)

SeenTokens ==
    /\ {mem.token, mem.inUse, main.victim} \subseteq seen \cup {NoToken}
    /\ \A a \in Refreshers :
          ref[a].pc \in {"storing", "deleting"} => ref[a].token \in seen \cup {NoToken}

Quiet ==
    /\ ~main.up \/ main.pc = "ended" => \A b \in Loops : ref[b].pc = "idle"
    /\ ref[Main].pc # "idle" => main.pc \in {"fetching", "opening"}
    /\ \A a \in Refreshers : ref[a].initial => ref[a].captcha = 0 /\ ref[a].expiry = 0

NoneYet == mem.inUse = NoToken /\ "unstored" \notin marks

FirstToken ==
    NoneYet =>
       /\ ~main.up /\ main.pc \in {"checking", "ready", "fetching", "ended"}
       /\ mem.token # NoToken => ref[Main].pc = "storing" \/ main.pc = "ended"
       /\ row.token # NoToken =>
             /\ mem.fallback
             /\ ref[Main].pc \in {"idle", "setting", "looking", "using"}
             /\ ref[Main].pc \in {"setting", "looking"} => ref[Main].initial

Victims ==
    /\ \A a \in Refreshers :
          (ref[a].pc = "deleting" /\ ref[a].token = NoToken /\ "unstored" \notin marks)
             => mem.inUse = NoToken
    /\ main.pc = "failing" /\ "unstored" \notin marks => main.victim # NoToken

Kept == Typed /\ SeenTokens /\ Quiet /\ FirstToken /\ Victims

LEMMA InitKept == Init => Kept
<1> SUFFICES ASSUME Init PROVE Kept
  OBVIOUS
<1>1. Typed
  BY InitType
<1>2. \A a \in Refreshers : ref[a].pc = "idle" /\ ref[a].initial = FALSE
  BY DEF Init, Idle
<1>3. mem.token = NoToken /\ mem.inUse = NoToken /\ row.token = NoToken
  BY DEF Init, FreshMemory, NoRow
<1>4. main.victim = NoToken /\ main.up = FALSE /\ main.pc = "checking"
  BY DEF Init, FirstRound
<1> QED
  BY <1>1, <1>2, <1>3, <1>4, MainRefreshes DEF Kept, SeenTokens, Quiet, FirstToken, NoneYet, Victims

\* As long as the task has used no token, only main refreshes.
LEMMA OnlyMain ==
    ASSUME Kept, NoneYet, NEW a \in Refreshers, ref[a].pc # "idle"
    PROVE  a = Main /\ main.pc = "fetching"
BY DEF Kept, Quiet, FirstToken, Refreshers

\* What a return changes, whoever it returns to.
LEMMA DoneDoes ==
    ASSUME Typed, NEW a \in Refreshers, NEW m, NEW e, NEW w, Done(a, m, e, w)
    PROVE  /\ mem' = m /\ ref'[a].pc = "idle"
           /\ \A b \in Refreshers : ref'[b] = ref[b] \/ ref'[b] = Idle
           /\ main'.up = main.up
           /\ main'.pc = "ended" => main.pc = "ended" \/ ref' = AllIdle
           /\ \/ main' = main /\ a # Main
              \/ /\ a = Main /\ main'.victim = main.victim
                 /\ \/ main'.pc \in {"checking", "ended"} /\ m.token = NoToken
                    \/ main'.pc \in {"connecting", "joining"} /\ m.token # NoToken
              \/ /\ a = Main /\ main.pc = "opening"
                 /\ main'.pc = "failing" /\ main'.victim = m.inUse
<1> USE MainRefreshes
<1>1. main \in RoundSet /\ ref \in [Refreshers -> RefreshSet] /\ mem' = m
  BY DEF Typed, TypeOK, Done
<1>2. Idle.pc = "idle"
  BY DEF Idle
<1>3. ASSUME ref' = [ref EXCEPT ![a] = Idle]
      PROVE  ref'[a].pc = "idle" /\ \A b \in Refreshers : ref'[b] = ref[b] \/ ref'[b] = Idle
  BY <1>1, <1>2, <1>3
<1>4. ASSUME ref' = AllIdle
      PROVE  ref'[a].pc = "idle" /\ \A b \in Refreshers : ref'[b] = ref[b] \/ ref'[b] = Idle
  BY <1>2, <1>4 DEF AllIdle
<1>5. CASE a # Main /\ ref' = [ref EXCEPT ![a] = Idle] /\ UNCHANGED main
  BY <1>1, <1>3, <1>5
<1>6. CASE a = Main /\ m.token = NoToken /\ Count(m, e)
  <2> DEFINE n == main.tokenFails + (IF m.status = "excused" THEN 0 ELSE 1)
  <2>1. CASE /\ main' = [main EXCEPT !.pc = "checking", !.tokenFails = n]
             /\ ref' = [ref EXCEPT ![Main] = Idle]
    <3>1. main'.pc = "checking" /\ main'.up = main.up /\ main'.victim = main.victim
      BY <1>1, <2>1 DEF RoundSet
    <3> QED
      BY <1>1, <1>3, <1>6, <2>1, <3>1
  <2>2. CASE main' = Ended(main) /\ ref' = AllIdle
    <3>1. main'.pc = "ended" /\ main'.up = main.up /\ main'.victim = main.victim
      BY <1>1, <2>2 DEF Ended, RoundSet
    <3> QED
      BY <1>1, <1>4, <1>6, <2>2, <3>1
  <2> QED
    BY <1>6, <2>1, <2>2 DEF Count
<1>7. CASE /\ a = Main /\ m.token # NoToken /\ ref' = [ref EXCEPT ![a] = Idle]
           /\ main' = [main EXCEPT !.pc = "connecting"]
  <2>1. main'.pc = "connecting" /\ main'.up = main.up /\ main'.victim = main.victim
    BY <1>1, <1>7 DEF RoundSet
  <2> QED
    BY <1>1, <1>3, <1>7, <2>1
<1>8. CASE a = Main /\ main.pc = "opening" /\ ref' = [ref EXCEPT ![a] = Idle] /\ Failed(m)
  <2>1. main'.pc = "failing" /\ main'.up = main.up /\ main'.victim = m.inUse
    BY <1>1, <1>8 DEF Failed, RoundSet
  <2> QED
    BY <1>1, <1>3, <1>8, <2>1
<1>9. CASE /\ a = Main /\ m.token # NoToken /\ ref' = [ref EXCEPT ![a] = Idle]
           /\ main' = [main EXCEPT !.pc = "joining"]
  <2>1. main'.pc = "joining" /\ main'.up = main.up /\ main'.victim = main.victim
    BY <1>1, <1>9 DEF RoundSet
  <2> QED
    BY <1>1, <1>3, <1>9, <2>1
<1> QED
  BY <1>5, <1>6, <1>7, <1>8, <1>9 DEF Done, SendReg

\* A return keeps the invariant, unless it loses the token in use.
LEMMA ReturnKeeps ==
    ASSUME Kept, Typed', NEW a \in Refreshers, NEW m, NEW e, NEW w, Done(a, m, e, w),
           ref[a].pc # "idle", seen \subseteq seen', marks \subseteq marks',
           {m.token, m.inUse} \subseteq seen' \cup {NoToken},
           m.inUse = NoToken => mem.inUse = NoToken,
           NoneYet /\ m.inUse = NoToken /\ "unstored" \notin marks'
              => m.token = NoToken /\ (row'.token # NoToken => m.fallback)
    PROVE  Kept'
<1>0. Typed
  BY DEF Kept
<1>1. /\ mem' = m /\ ref'[a].pc = "idle"
      /\ \A b \in Refreshers : ref'[b] = ref[b] \/ ref'[b] = Idle
      /\ main'.up = main.up
      /\ main'.pc = "ended" => main.pc = "ended" \/ ref' = AllIdle
  BY <1>0, DoneDoes
<1>2. \/ main' = main /\ a # Main
      \/ /\ a = Main /\ main'.victim = main.victim
         /\ \/ main'.pc \in {"checking", "ended"} /\ m.token = NoToken
            \/ main'.pc \in {"connecting", "joining"} /\ m.token # NoToken
      \/ /\ a = Main /\ main.pc = "opening"
         /\ main'.pc = "failing" /\ main'.victim = m.inUse
  BY <1>0, DoneDoes
<1>3. Idle.pc = "idle" /\ Idle.initial = FALSE
  BY DEF Idle
<1>4. SeenTokens'
  BY <1>1, <1>2, <1>3 DEF Kept, SeenTokens
<1>5. Quiet'
  <2>1. ~main'.up \/ main'.pc = "ended" => \A b \in Loops : ref'[b].pc = "idle"
    BY <1>1, <1>2, <1>3, MainRefreshes DEF Kept, Quiet, AllIdle
  <2>2. ref'[Main].pc # "idle" => main'.pc \in {"fetching", "opening"}
    BY <1>1, <1>2, <1>3, MainRefreshes DEF Kept, Quiet
  <2>3. \A b \in Refreshers : ref'[b].initial => ref'[b].captcha = 0 /\ ref'[b].expiry = 0
    BY <1>1, <1>3 DEF Kept, Quiet
  <2> QED
    BY <2>1, <2>2, <2>3 DEF Quiet
<1>6. ASSUME NoneYet'
      PROVE  /\ a = Main /\ main.pc = "fetching" /\ ~main.up
             /\ m.token = NoToken /\ (row'.token # NoToken => m.fallback)
  <2>1. m.inUse = NoToken /\ "unstored" \notin marks' /\ NoneYet
    BY <1>1, <1>6 DEF NoneYet
  <2> QED
    BY <2>1, OnlyMain DEF Kept, FirstToken
<1>7. FirstToken'
  <2> SUFFICES ASSUME NoneYet' PROVE FirstToken'
    BY DEF FirstToken
  <2>1. /\ a = Main /\ main.pc = "fetching" /\ ~main.up
        /\ m.token = NoToken /\ (row'.token # NoToken => m.fallback)
    BY <1>6
  <2>2. main'.pc \in {"checking", "ended"}
    BY <1>2, <2>1
  <2> QED
    BY <1>1, <2>1, <2>2 DEF FirstToken
<1>8. Victims'
  <2>1. ASSUME NEW b \in Refreshers, ref'[b].pc = "deleting", ref'[b].token = NoToken,
               "unstored" \notin marks'
        PROVE  mem'.inUse = NoToken
    <3>1. ref'[b] = ref[b] /\ b # a
      BY <1>1, <1>3, <2>1
    <3>2. mem.inUse = NoToken
      BY <2>1, <3>1 DEF Kept, Victims
    <3>3. NoneYet
      BY <2>1, <3>2 DEF NoneYet
    <3> QED
      BY <2>1, <3>1, <3>3, OnlyMain
  <2>2. ASSUME main'.pc = "failing", "unstored" \notin marks'
        PROVE  main'.victim # NoToken
    <3>1. CASE main' = main
      BY <2>2, <3>1 DEF Kept, Victims
    <3>2. CASE a = Main /\ main.pc = "opening" /\ main'.victim = m.inUse
      <4>1. ~NoneYet'
        BY <1>6, <3>2
      <4> QED
        BY <1>1, <2>2, <3>2, <4>1 DEF NoneYet
    <3> QED
      BY <1>2, <2>2, <3>1, <3>2
  <2> QED
    BY <2>1, <2>2 DEF Victims
<1> QED
  BY <1>4, <1>5, <1>7, <1>8 DEF Kept

\* So does a refresh that goes to another place.
LEMMA MoveKeeps ==
    ASSUME Kept, Typed', NEW a \in Refreshers, NEW f, ref' = [ref EXCEPT ![a] = f],
           UNCHANGED <<main, marks>>, mem'.inUse = mem.inUse,
           ref[a].pc # "idle", seen \subseteq seen',
           mem'.token \in seen' \cup {NoToken},
           f.pc \in {"storing", "deleting"} => f.token \in seen' \cup {NoToken},
           f.initial => f.captcha = 0 /\ f.expiry = 0,
           f.pc = "deleting" /\ f.token = NoToken => mem.inUse = NoToken,
           NoneYet =>
              /\ mem'.token # NoToken => f.pc = "storing"
              /\ row'.token # NoToken =>
                    /\ mem'.fallback /\ f.pc \in {"setting", "looking", "using"}
                    /\ f.pc \in {"setting", "looking"} => f.initial
    PROVE  Kept'
<1>1. ref \in [Refreshers -> RefreshSet]
  BY DEF Kept, Typed, TypeOK
<1>2. ref'[a] = f /\ \A b \in Refreshers : b # a => ref'[b] = ref[b]
  BY <1>1
<1>3. SeenTokens'
  BY <1>2 DEF Kept, SeenTokens
<1>4. Quiet'
  BY <1>2, MainRefreshes DEF Kept, Quiet
<1>5. FirstToken'
  <2> SUFFICES ASSUME NoneYet' PROVE FirstToken'
    BY DEF FirstToken
  <2>1. NoneYet
    BY DEF NoneYet
  <2>2. a = Main /\ ~main.up /\ main.pc = "fetching"
    BY <2>1, OnlyMain DEF Kept, FirstToken
  <2> QED
    BY <1>2, <2>1, <2>2 DEF FirstToken
<1>6. Victims'
  BY <1>2 DEF Kept, Victims
<1> QED
  BY <1>3, <1>4, <1>5, <1>6 DEF Kept
-----------------------------------------------------------------------------
(* Every step keeps the invariant: the steps of a refresh.                 *)

\* What the invariant says about a refresh under way before any token.
LEMMA BeforeAny ==
    ASSUME Kept, NEW a \in Refreshers, ref[a].pc # "idle", NoneYet
    PROVE  /\ mem.token # NoToken => ref[a].pc = "storing"
           /\ row.token # NoToken =>
                 /\ mem.fallback /\ ref[a].pc \in {"setting", "looking", "using"}
                 /\ ref[a].pc \in {"setting", "looking"} => ref[a].initial
<1>1. a = Main /\ main.pc = "fetching"
  BY OnlyMain
<1> QED
  BY <1>1 DEF Kept, FirstToken

LEMMA ReadSwitchKeeps == ASSUME Kept, NEW a \in Refreshers, ReadSwitch(a) PROVE Kept'
<1>1. Typed'
  BY ReadSwitchType DEF Kept
<1>2. PICK s \in world.switch \cup (IF world.faults THEN {"unknown"} ELSE {}) :
        ref' = [ref EXCEPT ![a].slider = s,
                  ![a].pc = IF s # "off" \/ (ref[a].captcha = 0 /\ ref[a].expiry = 0)
                              THEN "looking" ELSE "logs"]
  BY DEF ReadSwitch
<1> DEFINE f == [ref[a] EXCEPT !.slider = s,
                   !.pc = IF s # "off" \/ (ref[a].captcha = 0 /\ ref[a].expiry = 0)
                            THEN "looking" ELSE "logs"]
<1>3. ref \in [Refreshers -> RefreshSet] /\ ref[a] \in RefreshSet
  BY DEF Kept, Typed, TypeOK
<1>4. ref' = [ref EXCEPT ![a] = f]
  BY <1>2, <1>3
<1>5. UNCHANGED <<row, mem, main, seen, marks>> /\ ref[a].pc = "setting"
  BY DEF ReadSwitch, caller, apart
<1>6. /\ f.pc \in {"looking", "logs"} /\ f.initial = ref[a].initial
      /\ f.captcha = ref[a].captcha /\ f.expiry = ref[a].expiry
      /\ f.captcha = 0 /\ f.expiry = 0 => f.pc = "looking"
  BY <1>3 DEF RefreshSet
<1>7. f.initial => f.captcha = 0 /\ f.expiry = 0
  BY <1>6 DEF Kept, Quiet
<1>8. mem.token \in seen \cup {NoToken}
  BY DEF Kept, SeenTokens
<1>9. NoneYet =>
         /\ mem.token = NoToken
         /\ row.token # NoToken => mem.fallback /\ f.pc = "looking" /\ f.initial
  BY <1>5, <1>6, <1>7, BeforeAny
<1> HIDE DEF f
<1> QED
  BY <1>1, <1>4, <1>5, <1>6, <1>7, <1>8, <1>9, MoveKeeps

LEMMA LookUpKeeps == ASSUME Kept, NEW a \in Refreshers, LookUp(a) PROVE Kept'
<1> DEFINE f == [ref[a] EXCEPT !.pc = "using", !.token = row.token,
                               !.device = row.device, !.kind = Validity]
<1>1. Typed'
  BY LookUpType DEF Kept
<1>2. ref \in [Refreshers -> RefreshSet] /\ ref[a] \in RefreshSet
  BY DEF Kept, Typed, TypeOK
<1>3. ref' = [ref EXCEPT ![a] = f]
  BY <1>2 DEF LookUp
<1>4. UNCHANGED <<mem, main, seen, marks>> /\ ref[a].pc = "looking" /\ row.token # NoToken
  BY DEF LookUp, caller, apart
<1>5. /\ f.pc = "using" /\ f.initial = ref[a].initial
      /\ f.captcha = ref[a].captcha /\ f.expiry = ref[a].expiry
  BY <1>2 DEF RefreshSet
<1>6. f.initial => f.captcha = 0 /\ f.expiry = 0
  BY <1>5 DEF Kept, Quiet
<1>7. mem.token \in seen \cup {NoToken}
  BY DEF Kept, SeenTokens
<1>8. NoneYet => mem.token = NoToken /\ mem.fallback
  BY <1>4, BeforeAny
<1> HIDE DEF f
<1> QED
  BY <1>1, <1>3, <1>4, <1>5, <1>6, <1>7, <1>8, MoveKeeps

\* A refresh that goes on with the memory as it is, and past the row.
LEMMA GoesOnKeeps ==
    ASSUME Kept, Typed', NEW a \in Refreshers, NEW f, ref' = [ref EXCEPT ![a] = f],
           UNCHANGED <<row, main, seen, marks>>,
           ref[a].pc \in {"looking", "logs", "asking"},
           ref[a].pc = "looking" /\ NoneYet => row.token = NoToken,
           f.pc \in {"logs", "asking", "login", "solving"},
           f.initial = ref[a].initial, f.captcha = ref[a].captcha, f.expiry = ref[a].expiry,
           mem'.inUse = mem.inUse, mem'.token = mem.token
    PROVE  Kept'
<1>1. mem.token \in seen \cup {NoToken}
  BY DEF Kept, SeenTokens
<1>2. f.initial => f.captcha = 0 /\ f.expiry = 0
  BY DEF Kept, Quiet
<1>3. NoneYet => mem.token = NoToken /\ row.token = NoToken
  BY BeforeAny
<1> QED
  BY <1>1, <1>2, <1>3, MoveKeeps

\* A return that gives the token up, or goes without one, past the row.
LEMMA GivesUpKeeps ==
    ASSUME Kept, Typed', NEW a \in Refreshers, NEW m, NEW e, NEW w, Done(a, m, e, w),
           UNCHANGED <<row, seen, marks>>,
           ref[a].pc \notin {"idle", "storing"},
           m.token \in {mem.token, NoToken}, m.inUse = mem.inUse, m.fallback = mem.fallback
    PROVE  Kept'
<1>1. {m.token, m.inUse} \subseteq seen \cup {NoToken}
  BY DEF Kept, SeenTokens
<1>2. NoneYet => m.token = NoToken /\ (row.token # NoToken => m.fallback)
  BY BeforeAny
<1> QED
  BY <1>1, <1>2, ReturnKeeps

LEMMA MemoryParts ==
    ASSUME Typed, NEW s
    PROVE  /\ [mem EXCEPT !.status = s].token = mem.token
           /\ [mem EXCEPT !.status = s].inUse = mem.inUse
           /\ [mem EXCEPT !.status = s].fallback = mem.fallback
           /\ NoTokenAs(s).token = NoToken
           /\ NoTokenAs(s).inUse = mem.inUse
           /\ NoTokenAs(s).fallback = mem.fallback
BY DEF Typed, TypeOK, MemorySet, NoTokenAs

LEMMA LookUpInVainKeeps == ASSUME Kept, NEW a \in Refreshers, LookUpInVain(a) PROVE Kept'
<1>0. Typed /\ Typed'
  BY LookUpInVainType DEF Kept
<1>1. UNCHANGED <<row, seen, marks>> /\ ref[a].pc = "looking"
  BY DEF LookUpInVain, apart
<1>2. CASE Done(a, [mem EXCEPT !.token = NoToken, !.status = "excused"], enabled, ws)
  <2>1. Done(a, NoTokenAs("excused"), enabled, ws)
    BY <1>2 DEF NoTokenAs
  <2> QED
    BY <1>0, <1>1, <2>1, MemoryParts, GivesUpKeeps
<1>3. CASE ref' = [ref EXCEPT ![a].pc = "logs"] /\ mem' = Looked(ref[a], mem) /\ UNCHANGED caller
  <2> DEFINE f == [ref[a] EXCEPT !.pc = "logs"]
  <2>1. /\ ref \in [Refreshers -> RefreshSet] /\ ref[a] \in RefreshSet /\ mem \in MemorySet
    BY <1>0 DEF Typed, TypeOK
  <2>2. /\ ref' = [ref EXCEPT ![a] = f] /\ f.pc = "logs" /\ f.initial = ref[a].initial
        /\ f.captcha = ref[a].captcha /\ f.expiry = ref[a].expiry
    BY <1>3, <2>1 DEF RefreshSet
  <2>3. mem'.inUse = mem.inUse /\ mem'.token = mem.token
    BY <1>3, <2>1 DEF Looked, MemorySet
  <2>4. NoneYet => row.token = NoToken
    BY <1>1, BeforeAny DEF LookUpInVain, AnyAge
  <2> HIDE DEF f
  <2> QED
    BY <1>0, <1>1, <1>3, <2>2, <2>3, <2>4, GoesOnKeeps DEF caller
<1> QED
  BY <1>2, <1>3 DEF LookUpInVain

LEMMA LookUpFailsKeeps == ASSUME Kept, NEW a \in Refreshers, LookUpFails(a) PROVE Kept'
<1>0. Typed /\ Typed'
  BY LookUpFailsType DEF Kept
<1>1. UNCHANGED <<row, seen, marks>> /\ ref[a].pc = "looking"
  BY DEF LookUpFails, apart
<1>2. CASE Done(a, [mem EXCEPT !.status = "excused"], enabled, ws)
  BY <1>0, <1>1, <1>2, MemoryParts, GivesUpKeeps
<1>3. CASE ~AnyAge(ref[a]) /\ ref' = [ref EXCEPT ![a].pc = "logs"] /\ UNCHANGED <<mem, main>>
  <2> DEFINE f == [ref[a] EXCEPT !.pc = "logs"]
  <2>1. /\ ref \in [Refreshers -> RefreshSet] /\ ref[a] \in RefreshSet
    BY <1>0 DEF Typed, TypeOK
  <2>2. /\ ref' = [ref EXCEPT ![a] = f] /\ f.pc = "logs" /\ f.initial = ref[a].initial
        /\ f.captcha = ref[a].captcha /\ f.expiry = ref[a].expiry
    BY <1>3, <2>1 DEF RefreshSet
  <2>4. NoneYet => row.token = NoToken
    BY <1>1, <1>3, BeforeAny DEF AnyAge
  <2> HIDE DEF f
  <2> QED
    BY <1>0, <1>1, <1>3, <2>2, <2>4, GoesOnKeeps
<1> QED
  BY <1>2, <1>3 DEF LookUpFails

LEMMA UseKeeps == ASSUME Kept, NEW a \in Refreshers, Use(a) PROVE Kept'
<1> DEFINE late == ref[a].kind = "expired" /\ ref[a].slider = "off"
           used == [mem EXCEPT !.token = ref[a].token, !.device = ref[a].device,
                      !.inUse = ref[a].token, !.startup = late,
                      !.status = IF ref[a].kind = "renewed" THEN "renewal" ELSE "success"]
           m == Looked(ref[a], used)
<1>1. Typed /\ Typed'
  BY UseType DEF Kept
<1>2. mem \in MemorySet /\ ref[a].token # NoToken
  BY <1>1 DEF Use, Typed, TypeOK, Bounds
<1>3. m.token = ref[a].token /\ m.inUse = ref[a].token
  BY <1>2 DEF Looked, MemorySet
<1>4. Done(a, m, enabled, Reconnect(ref[a].kind))
  BY DEF Use
<1>5. /\ seen' = seen \cup {ref[a].token} /\ marks \subseteq marks' /\ ref[a].pc = "using"
  BY DEF Use
<1> HIDE DEF m
<1> QED
  BY <1>1, <1>2, <1>3, <1>4, <1>5, ReturnKeeps

LEMMA CheckLogsKeeps == ASSUME Kept, NEW a \in Refreshers, CheckLogs(a) PROVE Kept'
<1>0. Typed /\ Typed'
  BY CheckLogsType DEF Kept
<1>1. UNCHANGED <<row, seen, marks>> /\ ref[a].pc = "logs"
  BY DEF CheckLogs, apart
<1>2. CASE Done(a, [mem EXCEPT !.status = "excused"], enabled, ws)
  BY <1>0, <1>1, <1>2, MemoryParts, GivesUpKeeps
<1>3. CASE /\ ref' = [ref EXCEPT ![a].pc = "asking"]
           /\ UNCHANGED <<mem, caller>>
  <2> DEFINE f == [ref[a] EXCEPT !.pc = "asking"]
  <2>1. /\ ref \in [Refreshers -> RefreshSet] /\ ref[a] \in RefreshSet
    BY <1>0 DEF Typed, TypeOK
  <2>2. /\ ref' = [ref EXCEPT ![a] = f] /\ f.pc = "asking" /\ f.initial = ref[a].initial
        /\ f.captcha = ref[a].captcha /\ f.expiry = ref[a].expiry
    BY <1>3, <2>1 DEF RefreshSet
  <2> HIDE DEF f
  <2> QED
    BY <1>0, <1>1, <1>3, <2>2, GoesOnKeeps DEF caller
<1> QED
  BY <1>2, <1>3 DEF CheckLogs

LEMMA AnswerTokenKeeps == ASSUME Kept, NEW a \in Refreshers, AnswerToken(a) PROVE Kept'
<1> DEFINE f == [ref[a] EXCEPT !.pc = "adopting", !.token = issued + 1]
<1>0. Typed /\ Typed'
  BY AnswerTokenType DEF Kept
<1>1. UNCHANGED <<row, main, seen, marks>> /\ ref[a].pc = "asking"
  BY DEF AnswerToken, caller
<1>2. ref \in [Refreshers -> RefreshSet] /\ ref[a] \in RefreshSet /\ mem \in MemorySet
  BY <1>0 DEF Typed, TypeOK
<1>3. /\ ref' = [ref EXCEPT ![a] = f] /\ f.pc = "adopting" /\ f.initial = ref[a].initial
      /\ f.captcha = ref[a].captcha /\ f.expiry = ref[a].expiry
  BY <1>2 DEF AnswerToken, RefreshSet
<1>4. mem'.inUse = mem.inUse /\ mem'.token = mem.token
  BY <1>2 DEF AnswerToken, MemorySet
<1>5. f.initial => f.captcha = 0 /\ f.expiry = 0
  BY <1>3 DEF Kept, Quiet
<1>6. mem.token \in seen \cup {NoToken}
  BY DEF Kept, SeenTokens
<1>7. NoneYet => mem.token = NoToken /\ row.token = NoToken
  BY <1>1, BeforeAny
<1> HIDE DEF f
<1> QED
  BY <1>0, <1>1, <1>3, <1>4, <1>5, <1>6, <1>7, MoveKeeps

LEMMA AdoptKeeps == ASSUME Kept, NEW a \in Refreshers, Adopt(a) PROVE Kept'
<1> DEFINE f == [ref[a] EXCEPT !.pc = "storing", !.device = mem.device]
<1>0. Typed /\ Typed'
  BY AdoptType DEF Kept
<1>1. /\ UNCHANGED <<row, main, marks>> /\ seen' = seen \cup {ref[a].token}
      /\ ref[a].pc = "adopting"
  BY DEF Adopt, caller
<1>2. ref \in [Refreshers -> RefreshSet] /\ ref[a] \in RefreshSet /\ mem \in MemorySet
  BY <1>0 DEF Typed, TypeOK
<1>3. /\ ref' = [ref EXCEPT ![a] = f] /\ f.pc = "storing" /\ f.initial = ref[a].initial
      /\ f.captcha = ref[a].captcha /\ f.expiry = ref[a].expiry /\ f.token = ref[a].token
  BY <1>2 DEF Adopt, RefreshSet
<1>4. mem'.inUse = mem.inUse /\ mem'.token = ref[a].token
  BY <1>2 DEF Adopt, MemorySet
<1>5. f.initial => f.captcha = 0 /\ f.expiry = 0
  BY <1>3 DEF Kept, Quiet
<1>6. NoneYet => row.token = NoToken
  BY <1>1, BeforeAny
<1> HIDE DEF f
<1> QED
  BY <1>0, <1>1, <1>3, <1>4, <1>5, <1>6, MoveKeeps

LEMMA StoreKeeps == ASSUME Kept, NEW a \in Refreshers, Store(a) PROVE Kept'
<1>0. Typed /\ Typed'
  BY StoreType DEF Kept
<1>1. UNCHANGED seen /\ ref[a].pc = "storing"
  BY DEF Store
<1>2. mem \in MemorySet /\ ref[a].token # NoToken
  BY <1>0, <1>1 DEF Typed, TypeOK, Bounds
<1>3. ref[a].token \in seen \cup {NoToken} /\ {mem.token, mem.inUse} \subseteq seen \cup {NoToken}
  BY <1>1 DEF Kept, SeenTokens
<1>4. CASE Done(a, [mem EXCEPT !.inUse = ref[a].token], enabled, ws) /\ UNCHANGED marks
  <2> DEFINE m == [mem EXCEPT !.inUse = ref[a].token]
  <2>1. m.token = mem.token /\ m.inUse = ref[a].token
    BY <1>2 DEF MemorySet
  <2>2. Done(a, m, enabled, ws)
    BY <1>4
  <2> HIDE DEF m
  <2> QED
    BY <1>0, <1>1, <1>2, <1>3, <1>4, <2>1, <2>2, ReturnKeeps
<1>5. CASE Done(a, mem, enabled, ws) /\ marks' = marks \cup {"unstored"}
  BY <1>0, <1>1, <1>3, <1>5, ReturnKeeps
<1> QED
  BY <1>4, <1>5 DEF Store

LEMMA DeletingKeeps ==
    ASSUME Kept, Typed', NEW a \in Refreshers, NEW m, NEW again, NEW e,
           Deleting(a, m, again, e), UNCHANGED <<row, apart>>,
           ref[a].pc \in {"asking", "solving", "login"},
           m.token \in {mem.token, NoToken}, m.inUse = mem.inUse
    PROVE  Kept'
<1> DEFINE f == [ref[a] EXCEPT !.pc = "deleting", !.token = m.inUse, !.device = m.device,
                               !.again = again]
<1>1. ref \in [Refreshers -> RefreshSet] /\ ref[a] \in RefreshSet
  BY DEF Kept, Typed, TypeOK
<1>2. /\ ref' = [ref EXCEPT ![a] = f] /\ f.pc = "deleting" /\ f.token = mem.inUse
      /\ f.initial = ref[a].initial /\ f.captcha = ref[a].captcha /\ f.expiry = ref[a].expiry
  BY <1>1 DEF Deleting, RefreshSet
<1>3. f.initial => f.captcha = 0 /\ f.expiry = 0
  BY <1>2 DEF Kept, Quiet
<1>4. {mem.token, mem.inUse} \subseteq seen \cup {NoToken}
  BY DEF Kept, SeenTokens
<1>5. mem' = m /\ UNCHANGED <<row, main, seen, marks>>
  BY DEF Deleting, apart
<1>6. NoneYet => mem.token = NoToken /\ row.token = NoToken
  BY BeforeAny
<1> HIDE DEF f
<1> QED
  BY <1>2, <1>3, <1>4, <1>5, <1>6, MoveKeeps

LEMMA AgainKeeps ==
    ASSUME Kept, Typed', NEW a \in Refreshers, NEW captcha, NEW expiry,
           Again(a, captcha, expiry), UNCHANGED <<seen, marks>>,
           ref[a].pc \in {"asking", "deleting"},
           NoneYet => row'.token = NoToken
    PROVE  Kept'
<1> DEFINE f == [Idle EXCEPT !.pc = "setting", !.captcha = captcha, !.expiry = expiry]
<1>1. f.pc = "setting" /\ f.initial = FALSE
  BY DEF Idle
<1>2. ref' = [ref EXCEPT ![a] = f] /\ mem' = [mem EXCEPT !.status = "started"] /\ UNCHANGED main
  BY DEF Again, caller
<1>3. mem'.token = mem.token /\ mem'.inUse = mem.inUse
  BY <1>2, MemoryParts DEF Kept
<1>4. mem.token \in seen \cup {NoToken}
  BY DEF Kept, SeenTokens
<1>5. NoneYet => mem.token = NoToken
  BY BeforeAny
<1> HIDE DEF f
<1> QED
  BY <1>1, <1>2, <1>3, <1>4, <1>5, MoveKeeps

\* A failure without a token finds an empty row.
LEMMA DeletesNothing ==
    ASSUME Kept, NEW a \in Refreshers, ref[a].pc = "deleting", ref[a].token = NoToken,
           "unstored" \notin marks
    PROVE  row.token = NoToken
<1>1. NoneYet
  BY DEF NoneYet, Kept, Victims
<1> QED
  BY <1>1, BeforeAny

LEMMA RowTokenStays ==
    ASSUME Typed, NEW v, DeleteCached(v)
    PROVE  row'.token = row.token
<1>1. row \in RowSet
  BY DEF Typed, TypeOK
<1>2. row' = row \/ row' = Marked
  BY DEF DeleteCached
<1> QED
  BY <1>1, <1>2 DEF Marked, RowSet

LEMMA DeleteKeeps == ASSUME Kept, NEW a \in Refreshers, Delete(a) PROVE Kept'
<1>0. Typed /\ Typed'
  BY DeleteType DEF Kept
<1>1. UNCHANGED <<seen, marks>> /\ ref[a].pc = "deleting"
  BY DEF Delete, apart
<1>2. row'.token = row.token
  BY <1>0, RowTokenStays DEF Delete
<1>3. NoneYet => mem.token = NoToken /\ row'.token = NoToken
  BY <1>1, <1>2, BeforeAny
<1>4. CASE Again(a, ref[a].captcha + 1, 0)
  BY <1>0, <1>1, <1>3, <1>4, AgainKeeps
<1>5. CASE Done(a, mem, enabled, ws)
  <2>1. {mem.token, mem.inUse} \subseteq seen \cup {NoToken}
    BY DEF Kept, SeenTokens
  <2> QED
    BY <1>0, <1>1, <1>3, <1>5, <2>1, ReturnKeeps
<1> QED
  BY <1>4, <1>5 DEF Delete

LEMMA AnswerKeeps ==
    ASSUME Kept, NEW a \in Refreshers,
           \/ AnswerTimeout(a) \/ AnswerRefused(a) \/ AnswerExpired(a) \/ AnswerSession(a)
           \/ AnswerCaptcha(a)
    PROVE  Kept'
<1>0. Typed /\ Typed'
  BY AnswerType, AnswerCaptchaType DEF Kept
<1>1. /\ UNCHANGED <<row, apart>> /\ UNCHANGED <<row, seen, marks>>
      /\ ref[a].pc = "asking"
  BY DEF AnswerTimeout, AnswerRefused, AnswerExpired, AnswerSession, AnswerCaptcha, apart
<1>2. ref \in [Refreshers -> RefreshSet] /\ ref[a] \in RefreshSet
  BY <1>0 DEF Typed, TypeOK
<1>3. ASSUME NEW m, NEW e, Done(a, m, e, ws), m.token \in {mem.token, NoToken},
             m.inUse = mem.inUse, m.fallback = mem.fallback
      PROVE  Kept'
  BY <1>0, <1>1, <1>3, GivesUpKeeps
<1>4. ASSUME NEW s, Done(a, [mem EXCEPT !.status = s], enabled, ws)
      PROVE  Kept'
  BY <1>0, <1>3, <1>4, MemoryParts
<1>5. ASSUME NEW s, Done(a, NoTokenAs(s), enabled, ws)
      PROVE  Kept'
  BY <1>0, <1>3, <1>5, MemoryParts
<1>6. ASSUME NEW s, Deleting(a, NoTokenAs(s), FALSE, enabled)
      PROVE  Kept'
  BY <1>0, <1>1, <1>6, MemoryParts, DeletingKeeps
<1>7. ASSUME NEW pc \in {"login", "solving"}, ref' = [ref EXCEPT ![a].pc = pc],
             UNCHANGED <<mem, caller>>
      PROVE  Kept'
  <2> DEFINE f == [ref[a] EXCEPT !.pc = pc]
  <2>1. /\ ref' = [ref EXCEPT ![a] = f] /\ f.pc = pc /\ f.initial = ref[a].initial
        /\ f.captcha = ref[a].captcha /\ f.expiry = ref[a].expiry
    BY <1>2, <1>7 DEF RefreshSet
  <2> HIDE DEF f
  <2> QED
    BY <1>0, <1>1, <1>7, <2>1, GoesOnKeeps DEF caller
<1>8. CASE AnswerExpired(a)
  <2>1. NoneYet => row'.token = NoToken
    BY <1>1, BeforeAny
  <2> QED
    BY <1>0, <1>1, <1>8, <2>1, AgainKeeps DEF AnswerExpired
<1> QED
  BY <1>4, <1>5, <1>6, <1>7, <1>8
     DEF AnswerTimeout, AnswerRefused, AnswerSession, AnswerCaptcha

LEMMA SolvedKeeps ==
    ASSUME Kept, NEW a \in Refreshers, Solved(a) \/ LogIn(a)
    PROVE  Kept'
<1>0. Typed /\ Typed'
  BY SolvedType DEF Kept
<1>1. /\ UNCHANGED <<row, apart>> /\ UNCHANGED <<row, seen, marks>>
      /\ ref[a].pc \in {"solving", "login"}
  BY DEF Solved, LogIn, apart
<1>2. ASSUME NEW m, NEW again, NEW e, Deleting(a, m, again, e),
             m.token \in {mem.token, NoToken}, m.inUse = mem.inUse
      PROVE  Kept'
  BY <1>0, <1>1, <1>2, DeletingKeeps
<1>3. ASSUME NEW s, NEW again, NEW e, Deleting(a, NoTokenAs(s), again, e)
      PROVE  Kept'
  BY <1>0, <1>2, <1>3, MemoryParts
<1>4. CASE Deleting(a, mem, TRUE, enabled)
  BY <1>2, <1>4
<1>5. CASE Done(a, mem, FALSE, ws)
  BY <1>0, <1>1, <1>5, GivesUpKeeps
<1> QED
  BY <1>3, <1>4, <1>5 DEF Solved, LogIn

LEMMA RefetchKeeps == ASSUME Kept, NEW a \in Refreshers, Refetch(a) PROVE Kept'
<1>1. PICK g \in RefreshSet :
        /\ ref' = [ref EXCEPT ![a] = g]
        /\ g.pc = "solving" /\ g.token = ref[a].token /\ g.captcha = ref[a].captcha
        /\ g.expiry = ref[a].expiry /\ g.initial = ref[a].initial
  BY RefetchDoes DEF Kept
<1>2. /\ UNCHANGED <<row, main, seen, marks>> /\ ref[a].pc = "solving"
      /\ mem'.token = mem.token /\ mem'.inUse = mem.inUse /\ mem'.fallback = mem.fallback
  BY RefetchDoes DEF Kept, apart
<1>3. ref \in [Refreshers -> RefreshSet] /\ Typed'
  BY RefetchType DEF Kept, Typed, TypeOK
<1>4. \A b \in Refreshers :
        /\ ref'[b].pc = ref[b].pc /\ ref'[b].token = ref[b].token
        /\ ref'[b].captcha = ref[b].captcha /\ ref'[b].expiry = ref[b].expiry
        /\ ref'[b].initial = ref[b].initial
  BY <1>1, <1>2, <1>3
<1> QED
  BY <1>2, <1>3, <1>4, MainRefreshes DEF Kept, SeenTokens, Quiet, FirstToken, NoneYet, Victims

LEMMA RefreshKeeps == ASSUME Kept, NEW a \in Refreshers, Refresh(a) PROVE Kept'
BY ReadSwitchKeeps, LookUpKeeps, LookUpInVainKeeps, LookUpFailsKeeps, UseKeeps, CheckLogsKeeps,
   AnswerTokenKeeps, AdoptKeeps, StoreKeeps, AnswerKeeps, RefetchKeeps, SolvedKeeps, DeleteKeeps
   DEF Refresh
-----------------------------------------------------------------------------
(* The rounds of main, and the steps of others.                            *)

\* Past the first token, a round that leaves the refreshes alone.
LEMMA RoundKeeps ==
    ASSUME Kept, Typed', UNCHANGED <<ref, seen, marks>>, ref[Main].pc = "idle",
           mem'.token \in {mem.token, NoToken}, mem'.inUse = mem.inUse,
           main'.up = main.up, main'.victim \in {main.victim, NoToken},
           main'.pc \notin {"failing", "ended"}, main.pc # "ended",
           ~NoneYet
    PROVE  Kept'
<1>1. SeenTokens'
  BY DEF Kept, SeenTokens
<1>2. Quiet'
  BY DEF Kept, Quiet
<1>3. FirstToken' /\ Victims'
  BY DEF Kept, FirstToken, NoneYet, Victims
<1> QED
  BY <1>1, <1>2, <1>3 DEF Kept

\* A connection that failed has used a token.
LEMMA FailedKeeps ==
    ASSUME Kept, Typed', UNCHANGED <<mem, ref, seen, marks>>, Failed(mem),
           ref[Main].pc = "idle", main.pc \in {"connecting", "opening", "joining"}
    PROVE  Kept'
<1>1. /\ main'.pc = "failing" /\ main'.up = main.up /\ main'.victim = mem.inUse
  BY DEF Failed, Kept, Typed, TypeOK, RoundSet
<1>2. ~NoneYet
  BY DEF Kept, FirstToken
<1>3. SeenTokens'
  BY <1>1 DEF Kept, SeenTokens
<1>4. Quiet'
  BY <1>1 DEF Kept, Quiet
<1>5. FirstToken' /\ Victims'
  BY <1>1, <1>2 DEF Kept, FirstToken, NoneYet, Victims
<1> QED
  BY <1>3, <1>4, <1>5 DEF Kept

LEMMA EndKeeps ==
    ASSUME Kept, Typed', End, UNCHANGED <<row, mem, seen, marks>>
    PROVE  Kept'
<1>1. main'.pc = "ended" /\ main'.up = main.up /\ main'.victim = main.victim
  BY DEF End, Ended, Kept, Typed, TypeOK, RoundSet
<1>2. \A b \in Refreshers : ref'[b].pc = "idle" /\ ref'[b].initial = FALSE
  BY DEF End, AllIdle, Idle
<1>3. SeenTokens'
  BY <1>1, <1>2 DEF Kept, SeenTokens
<1>4. Quiet'
  BY <1>2, MainRefreshes DEF Quiet
<1>5. FirstToken' /\ Victims'
  BY <1>1, <1>2, MainRefreshes DEF Kept, FirstToken, NoneYet, Victims
<1> QED
  BY <1>3, <1>4, <1>5 DEF Kept

LEMMA ReadStateKeeps == ASSUME Kept, ReadState PROVE Kept'
<1>0. Typed /\ Typed'
  BY ReadStateType DEF Kept
<1>1. UNCHANGED <<row, mem, seen, marks>> /\ main.pc = "checking"
  BY DEF ReadState, apart
<1>2. CASE main' = [main EXCEPT !.pc = "ready"] /\ UNCHANGED ref
  <2>1. main'.pc = "ready" /\ main'.up = main.up /\ main'.victim = main.victim
    BY <1>0, <1>2 DEF Typed, TypeOK, RoundSet
  <2>2. ref[Main].pc = "idle"
    BY <1>1 DEF Kept, Quiet
  <2>3. FirstToken'
    BY <1>1, <1>2, <2>1 DEF Kept, FirstToken, NoneYet
  <2>4. SeenTokens' /\ Quiet' /\ Victims'
    BY <1>1, <1>2, <2>1, <2>2 DEF Kept, SeenTokens, Quiet, Victims
  <2> QED
    BY <1>0, <2>3, <2>4 DEF Kept
<1>3. CASE End
  BY <1>0, <1>1, <1>3, EndKeeps
<1> QED
  BY <1>2, <1>3 DEF ReadState

\* A refresh that begins.
LEMMA Begins ==
    ASSUME Typed, NEW a \in Refreshers, Enter(a, mem)
    PROVE  /\ ref'[a].pc = "setting" /\ ref'[a].initial = mem.fallback
           /\ ref'[a].captcha = 0 /\ ref'[a].expiry = 0
           /\ \A b \in Refreshers : b # a => ref'[b] = ref[b]
           /\ mem'.token = mem.token /\ mem'.inUse = mem.inUse
           /\ mem'.fallback = mem.fallback
<1>1. ref \in [Refreshers -> RefreshSet] /\ mem \in MemorySet
  BY DEF Typed, TypeOK
<1> QED
  BY <1>1 DEF Enter, Idle, MemorySet

\* Past the first token, a refresh that begins keeps the invariant.
LEMMA BeginsKeeps ==
    ASSUME Kept, Typed', NEW a \in Refreshers, Enter(a, mem),
           UNCHANGED <<row, main, seen, marks>>, ~NoneYet,
           a = Main => main.pc = "opening",
           a \in Loops => main.up /\ main.pc # "ended"
    PROVE  Kept'
<1>1. /\ ref'[a].pc = "setting"
      /\ ref'[a].captcha = 0 /\ ref'[a].expiry = 0
      /\ \A b \in Refreshers : b # a => ref'[b] = ref[b]
      /\ mem'.token = mem.token /\ mem'.inUse = mem.inUse
  BY Begins DEF Kept
<1>2. SeenTokens' /\ FirstToken' /\ Victims'
  BY <1>1 DEF Kept, SeenTokens, FirstToken, NoneYet, Victims
<1>3. Quiet'
  BY <1>1, MainRefreshes DEF Kept, Quiet
<1> QED
  BY <1>2, <1>3 DEF Kept

LEMMA ProceedKeeps == ASSUME Kept, Proceed PROVE Kept'
<1>0. Typed /\ Typed'
  BY ProceedType DEF Kept
<1>1. UNCHANGED <<row, seen, marks>> /\ main.pc = "ready" /\ ref[Main].pc = "idle"
  BY DEF Proceed, apart, Kept, Quiet
<1>2. CASE mem.token = NoToken /\ Enter(Main, mem) /\ main' = [main EXCEPT !.pc = "fetching"]
  <2>1. main'.pc = "fetching" /\ main'.up = main.up /\ main'.victim = main.victim
    BY <1>0, <1>2 DEF Typed, TypeOK, RoundSet
  <2>2. /\ ref'[Main].pc = "setting" /\ ref'[Main].initial = mem.fallback
        /\ ref'[Main].captcha = 0 /\ ref'[Main].expiry = 0
        /\ \A b \in Refreshers : b # Main => ref'[b] = ref[b]
        /\ mem'.token = mem.token /\ mem'.inUse = mem.inUse
        /\ mem'.fallback = mem.fallback
    BY <1>0, <1>2, Begins, MainRefreshes
  <2>3. SeenTokens' /\ Victims'
    BY <1>1, <2>1, <2>2 DEF Kept, SeenTokens, Victims
  <2>4. Quiet'
    BY <1>1, <2>1, <2>2, MainRefreshes DEF Kept, Quiet
  <2>5. FirstToken'
    BY <1>1, <1>2, <2>1, <2>2 DEF Kept, FirstToken, NoneYet
  <2> QED
    BY <1>0, <2>3, <2>4, <2>5 DEF Kept
<1>3. CASE /\ mem.token # NoToken /\ main' = [main EXCEPT !.pc = "connecting", !.tokenFails = 0]
           /\ UNCHANGED <<mem, ref>>
  <2>1. main'.pc = "connecting" /\ main'.up = main.up /\ main'.victim = main.victim
    BY <1>0, <1>3 DEF Typed, TypeOK, RoundSet
  <2>2. ~NoneYet
    BY <1>1, <1>3 DEF Kept, FirstToken
  <2> QED
    BY <1>0, <1>1, <1>3, <2>1, <2>2, RoundKeeps
<1> QED
  BY <1>2, <1>3 DEF Proceed

LEMMA ConnectKeeps == ASSUME Kept, Connect PROVE Kept'
<1>0. Typed /\ Typed'
  BY ConnectType DEF Kept
<1>1. /\ UNCHANGED <<row, mem, ref, seen, marks>> /\ main.pc = "connecting"
      /\ ref[Main].pc = "idle" /\ ~NoneYet
  BY DEF Connect, apart, Kept, Quiet, FirstToken
<1>2. CASE main' = [main EXCEPT !.pc = "opening"]
  <2>1. main'.pc = "opening" /\ main'.up = main.up /\ main'.victim = main.victim
    BY <1>0, <1>2 DEF Typed, TypeOK, RoundSet
  <2> QED
    BY <1>0, <1>1, <2>1, RoundKeeps
<1>3. CASE Failed(mem)
  BY <1>0, <1>1, <1>3, FailedKeeps
<1> QED
  BY <1>2, <1>3 DEF Connect

LEMMA RegisterKeeps == ASSUME Kept, Register PROVE Kept'
<1>0. Typed /\ Typed'
  BY RegisterType DEF Kept
<1>1. /\ UNCHANGED <<row, seen, marks>> /\ main.pc = "opening"
      /\ ref[Main].pc = "idle" /\ ~NoneYet
  BY DEF Register, apart, Kept, FirstToken
<1>2. CASE Enter(Main, mem) /\ UNCHANGED main
  BY <1>0, <1>1, <1>2, BeginsKeeps, MainRefreshes
<1>3. CASE main' = [main EXCEPT !.pc = "joining"] /\ UNCHANGED <<mem, ref>>
  <2>1. main'.pc = "joining" /\ main'.up = main.up /\ main'.victim = main.victim
    BY <1>0, <1>3 DEF Typed, TypeOK, RoundSet
  <2> QED
    BY <1>0, <1>1, <1>3, <2>1, RoundKeeps
<1>4. CASE Failed(mem) /\ UNCHANGED <<mem, ref>>
  BY <1>0, <1>1, <1>4, FailedKeeps
<1> QED
  BY <1>2, <1>3, <1>4 DEF Register, SendReg

LEMMA JoinKeeps == ASSUME Kept, Join PROVE Kept'
<1>0. Typed /\ Typed'
  BY JoinType DEF Kept
<1>1. /\ UNCHANGED <<row, mem, ref, seen, marks>> /\ main.pc = "joining"
      /\ ref[Main].pc = "idle" /\ ~NoneYet
  BY DEF Join, apart, Kept, Quiet, FirstToken
<1>2. CASE main' = [main EXCEPT !.pc = "connected", !.up = TRUE, !.connFails = 0, !.netFails = 0]
  <2>1. main'.pc = "connected" /\ main'.up = TRUE /\ main'.victim = main.victim
    BY <1>0, <1>2 DEF Typed, TypeOK, RoundSet
  <2>2. SeenTokens' /\ FirstToken' /\ Victims'
    BY <1>1, <2>1 DEF Kept, SeenTokens, FirstToken, NoneYet, Victims
  <2>3. Quiet'
    BY <1>1, <2>1 DEF Kept, Quiet
  <2> QED
    BY <1>0, <2>2, <2>3 DEF Kept
<1>3. CASE Failed(mem)
  BY <1>0, <1>1, <1>3, FailedKeeps
<1> QED
  BY <1>2, <1>3 DEF Join

LEMMA CloseKeeps == ASSUME Kept, CloseNormally \/ Drop PROVE Kept'
<1>0. Typed /\ Typed'
  BY CloseType, DropType DEF Kept
<1>1. /\ UNCHANGED <<row, seen, marks>> /\ main.pc = "connected"
      /\ ref[Main].pc = "idle" /\ ~NoneYet
  BY DEF CloseNormally, Drop, apart, Kept, Quiet, FirstToken
<1>2. mem'.token \in {mem.token, NoToken} /\ mem'.inUse = mem.inUse
  BY <1>0 DEF CloseNormally, Drop, Reject, Typed, TypeOK, MemorySet
<1>3. CASE End /\ UNCHANGED mem
  BY <1>0, <1>1, <1>3, EndKeeps
<1>4. ASSUME NEW n, NEW s, UNCHANGED ref,
             main' = [main EXCEPT !.pc = "checking", !.netFails = n, !.shorts = s]
      PROVE  Kept'
  <2>1. main'.pc = "checking" /\ main'.up = main.up /\ main'.victim = main.victim
    BY <1>0, <1>4 DEF Typed, TypeOK, RoundSet
  <2> QED
    BY <1>0, <1>1, <1>2, <1>4, <2>1, RoundKeeps
<1>5. CASE UNCHANGED ref /\ main' = [main EXCEPT !.pc = "checking"]
  <2>1. main'.pc = "checking" /\ main'.up = main.up /\ main'.victim = main.victim
    BY <1>0, <1>5 DEF Typed, TypeOK, RoundSet
  <2> QED
    BY <1>0, <1>1, <1>2, <1>5, <2>1, RoundKeeps
<1> QED
  BY <1>3, <1>4, <1>5 DEF CloseNormally, Drop

LEMMA FailKeeps == ASSUME Kept, Fail PROVE Kept'
<1>0. Typed /\ Typed'
  BY FailType DEF Kept
<1>1. /\ UNCHANGED <<ref, seen, marks>> /\ main.pc = "failing"
      /\ ref[Main].pc = "idle" /\ ~NoneYet
  BY DEF Fail, apart, Kept, Quiet, FirstToken
<1>2. /\ mem'.token \in {mem.token, NoToken} /\ mem'.inUse = mem.inUse
      /\ main'.pc \in {"checking", "relogin"} /\ main'.up = main.up
      /\ main'.victim \in {main.victim, NoToken}
  <2>1. main \in RoundSet /\ mem \in MemorySet
    BY <1>0 DEF Typed, TypeOK
  <2>2. /\ Forgotten.up = main.up /\ Forgotten.victim = NoToken
        /\ \A p \in {"checking", "relogin"} :
              LET m == [Forgotten EXCEPT !.pc = p] IN
              m.pc = p /\ m.up = main.up /\ m.victim = NoToken
    BY <2>1 DEF Forgotten, RoundSet
  <2>3. [mem EXCEPT !.token = NoToken].token = NoToken
        /\ [mem EXCEPT !.token = NoToken].inUse = mem.inUse
    BY <2>1 DEF MemorySet
  <2>4. \/ main' = [Forgotten EXCEPT !.pc = "checking"] /\ mem' = [mem EXCEPT !.token = NoToken]
        \/ main' = [Forgotten EXCEPT !.pc = "relogin"] /\ UNCHANGED mem
    BY DEF Fail
  <2> QED
    BY <2>2, <2>3, <2>4
<1>3. main'.pc \notin {"fetching", "opening", "joining", "connected", "ended", "failing"}
  BY <1>2
<1> QED
  BY <1>0, <1>1, <1>2, <1>3, RoundKeeps

LEMMA ReloginKeeps == ASSUME Kept, Relogin PROVE Kept'
<1>0. Typed /\ Typed'
  BY ReloginType DEF Kept
<1>1. /\ UNCHANGED <<mem, seen, marks>> /\ main.pc = "relogin"
      /\ ref[Main].pc = "idle" /\ ~NoneYet
  BY DEF Relogin, apart, Kept, Quiet, FirstToken
<1>2. CASE /\ main' = [main EXCEPT !.pc = "checking", !.connFails = 0, !.netFails = 0]
           /\ UNCHANGED ref
  <2>1. main'.pc = "checking" /\ main'.up = main.up /\ main'.victim = main.victim
    BY <1>0, <1>2 DEF Typed, TypeOK, RoundSet
  <2> QED
    BY <1>0, <1>1, <1>2, <2>1, RoundKeeps
<1>3. CASE End /\ UNCHANGED row
  BY <1>0, <1>1, <1>3, EndKeeps
<1> QED
  BY <1>2, <1>3 DEF Relogin

LEMMA StopKeeps == ASSUME Kept, Stop PROVE Kept'
<1>1. UNCHANGED <<row, mem, seen, marks>> /\ End
  BY DEF Stop, apart
<1> QED
  BY <1>1, StopType, EndKeeps DEF Kept

LEMMA StartKeeps == ASSUME Kept, Start PROVE Kept'
<1>0. Typed /\ Typed'
  BY StartTaskType DEF Kept
<1>1. /\ UNCHANGED <<row, ref, seen>> /\ main.pc = "ended"
      /\ mem'.token = NoToken /\ mem'.inUse = NoToken /\ mem'.fallback = TRUE
      /\ main'.pc = "checking" /\ main'.up = FALSE /\ main'.victim = NoToken
  BY DEF Start, FreshMemory, FirstRound
<1>2. \A b \in Refreshers : ref[b].pc = "idle"
  BY <1>1 DEF Kept, Quiet, Refreshers
<1>3. SeenTokens' /\ FirstToken' /\ Victims'
  BY <1>1, <1>2, MainRefreshes DEF SeenTokens, FirstToken, Victims
<1>4. Quiet'
  BY <1>1, <1>2, MainRefreshes DEF Kept, Quiet
<1> QED
  BY <1>0, <1>3, <1>4 DEF Kept

LEMMA LoopRefreshKeeps == ASSUME Kept, NEW a \in Loops, LoopRefresh(a) PROVE Kept'
<1>0. Typed /\ Typed'
  BY LoopRefreshType DEF Kept
<1>1. /\ UNCHANGED <<row, main, seen, marks>> /\ Enter(a, mem) /\ a \in Refreshers
      /\ main.up /\ main.pc # "ended" /\ a # Main
  BY MainRefreshes DEF LoopRefresh, apart
<1>2. ~NoneYet
  BY <1>1 DEF Kept, FirstToken
<1> QED
  BY <1>0, <1>1, <1>2, BeginsKeeps

LEMMA OthersKeep == ASSUME Kept, Age \/ Renewal \/ Invalidate PROVE Kept'
<1>0. Typed /\ Typed'
  BY OthersType DEF Kept
<1>1. UNCHANGED <<mem, ref, main, seen, marks>>
  BY DEF Age, Renewal, RenewalPick, RenewalAnswer, RenewalWrite, Invalidate, apart, caller
<1>2. row'.token # NoToken => row.token # NoToken
  BY <1>0 DEF Age, Renewal, RenewalPick, RenewalAnswer, RenewalWrite, Renewable, Invalidate
<1>3. SeenTokens' /\ Quiet' /\ Victims'
  BY <1>1 DEF Kept, SeenTokens, Quiet, Victims
<1>4. FirstToken'
  BY <1>1, <1>2 DEF Kept, FirstToken, NoneYet
<1> QED
  BY <1>0, <1>3, <1>4 DEF Kept

LEMMA StepKeeps == ASSUME Kept, [Next]_vars PROVE Kept'
<1>1. CASE UNCHANGED vars
  <2>1. UNCHANGED <<row, mem, ref, main, seen, marks>>
    BY <1>1 DEF vars, caller, apart
  <2>2. Typed'
    BY <1>1, StepType DEF Kept
  <2> QED
    BY <2>1, <2>2 DEF Kept, SeenTokens, Quiet, FirstToken, NoneYet, Victims
<1>2. CASE Next
  BY <1>2, RefreshKeeps, LoopRefreshKeeps, ReadStateKeeps, ProceedKeeps, ConnectKeeps,
     RegisterKeeps, JoinKeeps, CloseKeeps, FailKeeps, ReloginKeeps, StopKeeps, StartKeeps,
     OthersKeep DEF Next, Round
<1> QED
  BY <1>1, <1>2
-----------------------------------------------------------------------------

\* A failure that speaks about a token it has seen does not hit one it has not.
LEMMA Misses ==
    ASSUME row.token \notin seen, NEW v, v.token \in seen \cup {NoToken},
           v.token = NoToken => row.token = NoToken
    PROVE  ~Hits(v)
BY DEF Hits

LEMMA UnseenStays ==
    ASSUME Kept, Next, row.token \notin seen, "unstored" \notin marks,
           <<ref, main>>' # <<ref, main>>, row' = Marked
    PROVE  row = Marked
<1>0. row \in RowSet
  BY DEF Kept, Typed, TypeOK
<1>1. Marked.expire = "past"
  BY <1>0 DEF Marked, RowSet
<1>2. ASSUME NEW a \in Refreshers, Refresh(a) PROVE row = Marked
  <2>1. CASE UNCHANGED row
    BY <2>1
  <2>2. CASE LookUp(a)
    <3>1. CASE Validity = "renewed"
      <4>1. row'.expire = row.renew /\ row.renew # "past"
        BY <1>0, <2>2, <3>1 DEF LookUp, RowSet, Validity
      <4> QED
        BY <1>1, <4>1
    <3>2. CASE row' = row
      BY <3>2
    <3> QED
      BY <2>2, <3>1, <3>2 DEF LookUp
  <2>3. CASE Store(a)
    BY <1>1, <2>3 DEF Store
  <2>4. CASE Delete(a)
    <3> DEFINE v == [token |-> ref[a].token, device |-> ref[a].device]
    <3>1. ref[a].pc = "deleting" /\ DeleteCached(v)
      BY <2>4 DEF Delete
    <3>2. v.token \in seen \cup {NoToken}
      BY <3>1 DEF Kept, SeenTokens
    <3>3. v.token = NoToken => row.token = NoToken
      BY <3>1, DeletesNothing
    <3> HIDE DEF v
    <3> QED
      BY <3>1, <3>2, <3>3, Misses DEF DeleteCached
  <2> QED
    BY <1>2, <2>1, <2>2, <2>3, <2>4
       DEF Refresh, ReadSwitch, LookUpInVain, LookUpFails, Use, CheckLogs, AnswerToken, Adopt,
           AnswerTimeout, AnswerRefused, AnswerExpired, AnswerSession, AnswerCaptcha, Refetch,
           Solved, LogIn
<1>3. CASE Round
  <2>1. CASE UNCHANGED row
    BY <2>1
  <2>2. CASE Fail
    <3> DEFINE v == [token |-> main.victim, device |-> main.device]
    <3>1. v.token \in seen /\ (DeleteCached(v) \/ UNCHANGED row)
      BY <2>2 DEF Fail, Kept, SeenTokens, Victims
    <3>2. v.token # NoToken
      BY <2>2 DEF Fail, Kept, Victims
    <3> HIDE DEF v
    <3> QED
      BY <3>1, <3>2, Misses DEF DeleteCached
  <2>3. CASE Relogin
    <3> DEFINE v == [token |-> mem.inUse, device |-> mem.device]
    <3>1. v.token \in seen /\ v.token # NoToken
      BY <2>3 DEF Relogin, Kept, SeenTokens, FirstToken, NoneYet
    <3>2. row' = row \/ row' = IF Hits(v) THEN Marked ELSE row
      BY <2>3 DEF Relogin
    <3> HIDE DEF v
    <3> QED
      BY <3>1, <3>2, Misses
  <2> QED
    BY <1>3, <2>1, <2>2, <2>3
       DEF Round, ReadState, Proceed, Connect, Register, Join, CloseNormally, Drop
<1>4. CASE Stop \/ Start \/ \E a \in Loops : LoopRefresh(a)
  BY <1>4 DEF Stop, Start, LoopRefresh
<1>5. CASE Age \/ Renewal \/ Invalidate
  BY <1>5 DEF Age, Renewal, RenewalPick, RenewalAnswer, RenewalWrite, Invalidate, caller
<1> QED
  BY <1>2, <1>3, <1>4, <1>5 DEF Next

(* What the account's task finds out speaks about tokens it has used: no   *)
(* failure of its refreshes, connections and logins makes it mark a token  *)
(* the scheduler has put into the row meanwhile (mark_token_cache_expired),*)
(* provided its own tokens got into the row.                               *)
THEOREM UnseenTokensKept == Spec => UnseenTokenKept
<1>1. ASSUME Kept, [Next]_vars
      PROVE  [(row.token \notin seen /\ "unstored" \notin marks /\ <<ref, main>>' # <<ref, main>>)
                => (row' = Marked => row = Marked)]_vars
  BY <1>1, UnseenStays
<1> QED
  BY <1>1, InitKept, StepKeeps, PTL DEF Spec, UnseenTokenKept
-----------------------------------------------------------------------------
(* What a step of a refresh may do: it gives up and returns, it goes on to *)
(* its next place, or it is one of those that handle a token.              *)

\* Memory that keeps its device and what it knows of the row.
Alike(m) ==
    /\ m \in MemorySet
    /\ m.token \in {mem.token, NoToken} /\ m.device = mem.device
    /\ m.inUse = mem.inUse /\ m.startup = mem.startup

\* Has a refresh looked at the row, or is it not going to?
PastLook(f) ==
    \/ f.pc \in {"logs", "asking", "adopting", "storing", "login", "solving", "deleting"}
    \/ f.pc \in {"setting", "looking"} /\ (f.captcha > 0 \/ f.expiry > 0)

GivesUp(a) ==
    /\ ref[a].pc \in {"looking", "logs", "asking", "login"}
    /\ \E m \in MemorySet, e \in BOOLEAN :
          Alike(m) /\ m.fallback = mem.fallback /\ Done(a, m, e, ws)
    /\ UNCHANGED <<row, apart>>

GoesOn(a) == \E g \in RefreshSet :
    /\ ref' = [ref EXCEPT ![a] = g]
    /\ ref[a].pc \in {"setting", "looking", "logs", "asking", "login", "solving"}
    /\ g.pc \in {"setting", "looking", "logs", "asking", "login", "solving", "deleting"}
    /\ g.token \in {ref[a].token, mem.inUse, NoToken}
    /\ g.pc = "deleting" => g.token = mem.inUse
    /\ g.initial => ref[a].initial
    /\ Alike(mem')
    /\ mem'.fallback = mem.fallback \/ (~mem'.fallback /\ row.token = NoToken)
    /\ PastLook(g) => \/ PastLook(ref[a]) \/ row.token = NoToken \/ Validity = "expired"
                      \/ "lookup" \in lapses'
    /\ PastLook(g) \/ ~g.initial =>
          PastLook(ref[a]) \/ ~ref[a].initial \/ row.token = NoToken
    /\ lapses \subseteq lapses'
    /\ UNCHANGED <<row, main, ws, apart>>

LEMMA AlikeAnswers ==
    ASSUME Typed, NEW s \in {"none", "started", "success", "renewal", "excused", "failed"}
    PROVE  /\ Alike(mem) /\ Alike([mem EXCEPT !.status = s]) /\ Alike(NoTokenAs(s))
           /\ [mem EXCEPT !.status = s].fallback = mem.fallback
           /\ NoTokenAs(s).fallback = mem.fallback
           /\ mem \in MemorySet /\ [mem EXCEPT !.status = s] \in MemorySet
           /\ NoTokenAs(s) \in MemorySet
<1>1. mem \in MemorySet
  BY DEF Typed, TypeOK
<1>2. NoTokenAs(s) \in MemorySet /\ [mem EXCEPT !.status = s] \in MemorySet
  BY <1>1, ForgetType DEF NoTokenAs
<1>3. /\ NoTokenAs(s).token = NoToken /\ NoTokenAs(s).device = mem.device
      /\ NoTokenAs(s).inUse = mem.inUse /\ NoTokenAs(s).startup = mem.startup
      /\ NoTokenAs(s).fallback = mem.fallback
  BY <1>1 DEF NoTokenAs, MemorySet
<1>4. LET n == [mem EXCEPT !.status = s] IN
      n.token = mem.token /\ n.device = mem.device /\ n.inUse = mem.inUse
      /\ n.startup = mem.startup /\ n.fallback = mem.fallback
  BY <1>1 DEF MemorySet
<1> QED
  BY <1>1, <1>2, <1>3, <1>4 DEF Alike

LEMMA GivesUpStep ==
    ASSUME Typed, NEW a \in Refreshers,
           ref[a].pc \in {"looking", "logs", "asking", "login"},
           NEW m, Alike(m), m.fallback = mem.fallback, NEW e \in BOOLEAN, Done(a, m, e, ws),
           UNCHANGED <<row, apart>>
    PROVE  GivesUp(a)
BY DEF GivesUp, Alike

\* The cached row is to be marked.
LEMMA DeletingStep ==
    ASSUME Typed, NEW a \in Refreshers, ref[a].pc \in {"asking", "login", "solving"},
           NEW m, Alike(m), m.fallback = mem.fallback, NEW e, NEW again \in BOOLEAN,
           Deleting(a, m, again, e), UNCHANGED <<row, apart>>
    PROVE  GoesOn(a)
<1> DEFINE g == [ref[a] EXCEPT !.pc = "deleting", !.token = m.inUse, !.device = m.device,
                               !.again = again]
<1>1. ref \in [Refreshers -> RefreshSet] /\ ref[a] \in RefreshSet
  BY DEF Typed, TypeOK
<1>2. ref' = [ref EXCEPT ![a] = g] /\ mem' = m /\ UNCHANGED <<main, ws, lapses>>
  BY <1>1 DEF Deleting
<1>3. m.inUse \in Known /\ m.device \in Devices /\ m.inUse = mem.inUse
  BY DEF Alike, MemorySet
<1>4. g \in RefreshSet /\ g.pc = "deleting" /\ g.token = mem.inUse /\ g.initial = ref[a].initial
  BY <1>1, <1>3 DEF RefreshSet
<1>5. PastLook(ref[a])
  BY DEF PastLook
<1> HIDE DEF g
<1> QED
  BY <1>2, <1>4, <1>5 DEF GoesOn

\* To the next place.
LEMMA PlaceStep ==
    ASSUME Typed, NEW a \in Refreshers, NEW g \in RefreshSet, ref' = [ref EXCEPT ![a] = g],
           ref[a].pc \in {"setting", "looking", "logs", "asking", "login", "solving"},
           g.pc \in {"setting", "looking", "logs", "asking", "login", "solving"},
           g.token \in {ref[a].token, NoToken}, g.initial => ref[a].initial,
           PastLook(ref[a]) \/ ((PastLook(g) <=> PastLook(ref[a])) /\ g.initial = ref[a].initial),
           Alike(mem'), mem'.fallback = mem.fallback, lapses' = lapses,
           UNCHANGED <<row, main, ws, apart>>
    PROVE  GoesOn(a)
BY DEF GoesOn

LEMMA ReadSwitchGoesOn == ASSUME Typed, NEW a \in Refreshers, ReadSwitch(a) PROVE GoesOn(a)
<1>1. PICK s \in world.switch \cup (IF world.faults THEN {"unknown"} ELSE {}) :
        ref' = [ref EXCEPT ![a].slider = s,
                  ![a].pc = IF s # "off" \/ (ref[a].captcha = 0 /\ ref[a].expiry = 0)
                              THEN "looking" ELSE "logs"]
  BY DEF ReadSwitch
<1> DEFINE g == [ref[a] EXCEPT !.slider = s,
                   !.pc = IF s # "off" \/ (ref[a].captcha = 0 /\ ref[a].expiry = 0)
                            THEN "looking" ELSE "logs"]
<1>2. ref \in [Refreshers -> RefreshSet] /\ ref[a] \in RefreshSet /\ world \in World
  BY DEF Typed, TypeOK
<1>3. s \in {"on", "off", "unknown"}
  BY <1>1, <1>2 DEF World
<1>4. ref' = [ref EXCEPT ![a] = g]
  BY <1>1, <1>2
<1>5. /\ g \in RefreshSet /\ g.token = ref[a].token /\ g.initial = ref[a].initial
      /\ g.captcha = ref[a].captcha /\ g.expiry = ref[a].expiry
      /\ g.pc = IF s # "off" \/ (ref[a].captcha = 0 /\ ref[a].expiry = 0) THEN "looking" ELSE "logs"
  BY <1>2, <1>3 DEF RefreshSet
<1>6. ref[a].pc = "setting" /\ ref[a].captcha \in Nat /\ ref[a].expiry \in Nat
  BY <1>2 DEF ReadSwitch, RefreshSet
<1> HIDE DEF g
<1>7. PastLook(g) <=> PastLook(ref[a])
  BY <1>5, <1>6 DEF PastLook
<1>8. g.pc \in {"looking", "logs"}
  BY <1>5
<1>9. UNCHANGED <<row, mem, main, ws, lapses, apart>>
  BY DEF ReadSwitch, caller
<1> QED
  BY <1>4, <1>5, <1>6, <1>7, <1>8, <1>9, AlikeAnswers, PlaceStep

LEMMA LookUpInVainDoes ==
    ASSUME Typed, NEW a \in Refreshers, LookUpInVain(a)
    PROVE  GivesUp(a) \/ GoesOn(a)
<1>1. UNCHANGED <<row, apart>> /\ ref[a].pc = "looking"
  BY DEF LookUpInVain
<1>2. ref \in [Refreshers -> RefreshSet] /\ ref[a] \in RefreshSet /\ mem \in MemorySet /\ enabled \in BOOLEAN
  BY DEF Typed, TypeOK
<1>3. CASE Done(a, [mem EXCEPT !.token = NoToken, !.status = "excused"], enabled, ws)
  <2>1. Done(a, NoTokenAs("excused"), enabled, ws)
    BY <1>3 DEF NoTokenAs
  <2> QED
    BY <1>1, <1>2, <2>1, AlikeAnswers, GivesUpStep
<1>4. CASE ref' = [ref EXCEPT ![a].pc = "logs"] /\ mem' = Looked(ref[a], mem) /\ UNCHANGED caller
  <2> DEFINE g == [ref[a] EXCEPT !.pc = "logs"]
  <2>1. ref' = [ref EXCEPT ![a] = g]
    BY <1>2, <1>4
  <2>2. /\ g \in RefreshSet /\ g.pc = "logs" /\ g.token = ref[a].token
        /\ g.initial = ref[a].initial
    BY <1>2 DEF RefreshSet
  <2>3. /\ Alike(mem')
        /\ mem'.fallback = (mem.fallback /\ ~(ref[a].slider = "off" /\ ref[a].initial))
    BY <1>2, <1>4 DEF Looked, Alike, MemorySet
  <2>4. row.token = NoToken \/ (Validity = "expired" /\ ~AnyAge(ref[a]))
    BY DEF LookUpInVain
  <2>5. mem'.fallback = mem.fallback \/ (~mem'.fallback /\ row.token = NoToken)
    BY <1>2, <2>3, <2>4 DEF AnyAge, MemorySet
  <2>6. ~ref[a].initial \/ row.token = NoToken
    BY <2>4 DEF AnyAge
  <2> HIDE DEF g
  <2> QED
    BY <1>1, <1>4, <2>1, <2>2, <2>3, <2>4, <2>5, <2>6 DEF GoesOn, caller
<1> QED
  BY <1>3, <1>4 DEF LookUpInVain

LEMMA LookUpFailsDoes ==
    ASSUME Typed, NEW a \in Refreshers, LookUpFails(a)
    PROVE  GivesUp(a) \/ GoesOn(a)
<1>1. UNCHANGED <<row, apart>> /\ ref[a].pc = "looking"
  BY DEF LookUpFails
<1>2. ref \in [Refreshers -> RefreshSet] /\ ref[a] \in RefreshSet /\ enabled \in BOOLEAN
  BY DEF Typed, TypeOK
<1>3. CASE Done(a, [mem EXCEPT !.status = "excused"], enabled, ws)
  BY <1>1, <1>2, <1>3, AlikeAnswers, GivesUpStep
<1>4. CASE /\ ~AnyAge(ref[a]) /\ ref' = [ref EXCEPT ![a].pc = "logs"]
           /\ lapses' = lapses \cup {"lookup"} /\ UNCHANGED <<mem, main, ws>>
  <2> DEFINE g == [ref[a] EXCEPT !.pc = "logs"]
  <2>1. ref' = [ref EXCEPT ![a] = g]
    BY <1>2, <1>4
  <2>2. /\ g \in RefreshSet /\ g.pc = "logs" /\ g.token = ref[a].token
        /\ g.initial = ref[a].initial
    BY <1>2 DEF RefreshSet
  <2>3. ~ref[a].initial
    BY <1>4 DEF AnyAge
  <2>4. Alike(mem') /\ mem'.fallback = mem.fallback
    BY <1>4, AlikeAnswers
  <2> HIDE DEF g
  <2> QED
    BY <1>1, <1>4, <2>1, <2>2, <2>3, <2>4 DEF GoesOn
<1> QED
  BY <1>3, <1>4 DEF LookUpFails

LEMMA CheckLogsDoes ==
    ASSUME Typed, NEW a \in Refreshers, CheckLogs(a)
    PROVE  GivesUp(a) \/ GoesOn(a)
<1>1. UNCHANGED <<row, apart>> /\ ref[a].pc = "logs"
  BY DEF CheckLogs
<1>2. ref \in [Refreshers -> RefreshSet] /\ ref[a] \in RefreshSet /\ enabled \in BOOLEAN
  BY DEF Typed, TypeOK
<1>3. CASE Done(a, [mem EXCEPT !.status = "excused"], enabled, ws)
  BY <1>1, <1>2, <1>3, AlikeAnswers, GivesUpStep
<1>4. CASE ref' = [ref EXCEPT ![a].pc = "asking"] /\ UNCHANGED <<mem, caller>>
  <2> DEFINE g == [ref[a] EXCEPT !.pc = "asking"]
  <2>1. ref' = [ref EXCEPT ![a] = g]
    BY <1>2, <1>4
  <2>2. mem.device \in Devices
    BY DEF Typed, TypeOK, MemorySet
  <2>3. /\ g \in RefreshSet /\ g.pc = "asking" /\ g.token = ref[a].token
        /\ g.initial = ref[a].initial
    BY <1>2, <2>2 DEF RefreshSet
  <2>4. Alike(mem') /\ mem'.fallback = mem.fallback /\ UNCHANGED <<lapses, main, ws>>
    BY <1>4, AlikeAnswers DEF caller
  <2>5. PastLook(ref[a])
    BY <1>1 DEF PastLook
  <2> HIDE DEF g
  <2> QED
    BY <1>1, <2>1, <2>3, <2>4, <2>5, PlaceStep
<1> QED
  BY <1>3, <1>4 DEF CheckLogs

LEMMA AnswerDoes ==
    ASSUME Typed, NEW a \in Refreshers,
           \/ AnswerTimeout(a) \/ AnswerRefused(a) \/ AnswerExpired(a) \/ AnswerSession(a)
    PROVE  GivesUp(a) \/ GoesOn(a)
<1>1. UNCHANGED <<row, apart>> /\ ref[a].pc = "asking"
  BY DEF AnswerTimeout, AnswerRefused, AnswerExpired, AnswerSession
<1>2. ref \in [Refreshers -> RefreshSet] /\ ref[a] \in RefreshSet /\ enabled \in BOOLEAN
  BY DEF Typed, TypeOK
<1>3. PastLook(ref[a])
  BY <1>1 DEF PastLook
<1>4. CASE AnswerTimeout(a)
  BY <1>1, <1>2, <1>4, AlikeAnswers, GivesUpStep DEF AnswerTimeout
<1>5. CASE AnswerRefused(a)
  BY <1>1, <1>5, AlikeAnswers, DeletingStep DEF AnswerRefused
<1>6. CASE AnswerExpired(a)
  <2> DEFINE g == [Idle EXCEPT !.pc = "setting", !.captcha = ref[a].captcha, !.expiry = 1]
  <2>1. ref' = [ref EXCEPT ![a] = g] /\ mem' = [mem EXCEPT !.status = "started"] /\ UNCHANGED caller
    BY <1>6 DEF AnswerExpired, Again
  <2>4. ref[a].captcha \in 0 .. CaptchaLimit /\ 1 \in 0 .. 1
    BY <1>2 DEF RefreshSet
  <2>5. g \in RefreshSet
    BY <2>4, IdleType DEF RefreshSet, Idle
  <2>2. g \in RefreshSet /\ g.pc = "setting" /\ g.token = NoToken /\ ~g.initial
    BY <2>5 DEF Idle
  <2>3. Alike(mem') /\ mem'.fallback = mem.fallback
    BY <2>1, AlikeAnswers
  <2>6. g.initial => ref[a].initial
    BY <2>2
  <2>7. UNCHANGED <<lapses, main, ws>> /\ ref' = [ref EXCEPT ![a] = g]
    BY <2>1 DEF caller
  <2> HIDE DEF g
  <2> QED
    BY <1>1, <1>3, <2>7, <2>2, <2>3, <2>6 DEF GoesOn
<1>7. CASE AnswerSession(a)
  <2> DEFINE g == [ref[a] EXCEPT !.pc = "login"]
  <2>1. ref' = [ref EXCEPT ![a] = g] /\ UNCHANGED <<mem, caller>>
    BY <1>2, <1>7 DEF AnswerSession
  <2>2. /\ g \in RefreshSet /\ g.pc = "login" /\ g.token = ref[a].token
        /\ g.initial = ref[a].initial
    BY <1>2 DEF RefreshSet
  <2>3. Alike(mem') /\ mem'.fallback = mem.fallback
    BY <2>1, AlikeAnswers
  <2> HIDE DEF g
  <2> QED
    BY <1>1, <1>3, <2>1, <2>2, <2>3, PlaceStep DEF caller
<1> QED
  BY <1>4, <1>5, <1>6, <1>7

LEMMA AnswerCaptchaDoes ==
    ASSUME Typed, NEW a \in Refreshers, AnswerCaptcha(a)
    PROVE  GivesUp(a) \/ GoesOn(a)
<1>1. UNCHANGED <<row, apart>> /\ ref[a].pc = "asking"
  BY DEF AnswerCaptcha
<1>2. ref \in [Refreshers -> RefreshSet] /\ ref[a] \in RefreshSet /\ enabled \in BOOLEAN
  BY DEF Typed, TypeOK
<1>3. CASE \E m \in {NoTokenAs("excused"), [mem EXCEPT !.status = "excused"],
                     [mem EXCEPT !.status = "failed"]} : Done(a, m, enabled, ws)
  <2>1. PICK m \in {NoTokenAs("excused"), [mem EXCEPT !.status = "excused"],
                    [mem EXCEPT !.status = "failed"]} : Done(a, m, enabled, ws)
    BY <1>3
  <2>2. Alike(m) /\ m.fallback = mem.fallback
    BY AlikeAnswers
  <2> QED
    BY <1>1, <1>2, <2>1, <2>2, GivesUpStep
<1>4. CASE Deleting(a, NoTokenAs("excused"), FALSE, enabled)
  BY <1>1, <1>4, AlikeAnswers, DeletingStep
<1>5. CASE ref' = [ref EXCEPT ![a].pc = "solving"] /\ UNCHANGED <<mem, caller>>
  <2> DEFINE g == [ref[a] EXCEPT !.pc = "solving"]
  <2>1. ref' = [ref EXCEPT ![a] = g]
    BY <1>2, <1>5
  <2>2. /\ g \in RefreshSet /\ g.pc = "solving" /\ g.token = ref[a].token
        /\ g.initial = ref[a].initial
    BY <1>2 DEF RefreshSet
  <2>3. Alike(mem') /\ mem'.fallback = mem.fallback /\ UNCHANGED <<lapses, main, ws>>
    BY <1>5, AlikeAnswers DEF caller
  <2>4. PastLook(ref[a])
    BY <1>1 DEF PastLook
  <2> HIDE DEF g
  <2> QED
    BY <1>1, <2>1, <2>2, <2>3, <2>4, PlaceStep
<1> QED
  BY <1>3, <1>4, <1>5 DEF AnswerCaptcha

LEMMA SolvedDoes ==
    ASSUME Typed, NEW a \in Refreshers, Solved(a) \/ LogIn(a)
    PROVE  GivesUp(a) \/ GoesOn(a)
<1>1. UNCHANGED <<row, apart>> /\ ref[a].pc \in {"solving", "login"}
  BY DEF Solved, LogIn
<1>2. CASE LogIn(a) /\ Done(a, mem, FALSE, ws)
  BY <1>1, <1>2, AlikeAnswers, GivesUpStep DEF LogIn
<1>3. CASE \E m \in {mem, NoTokenAs("excused"), NoTokenAs("failed")}, e \in {enabled, FALSE},
              again \in BOOLEAN : Deleting(a, m, again, e)
  <2>1. PICK m \in {mem, NoTokenAs("excused"), NoTokenAs("failed")}, e \in {enabled, FALSE},
             again \in BOOLEAN : Deleting(a, m, again, e)
    BY <1>3
  <2>2. Alike(m) /\ m.fallback = mem.fallback
    BY AlikeAnswers
  <2> QED
    BY <1>1, <2>1, <2>2, DeletingStep
<1> QED
  BY <1>2, <1>3 DEF Solved, LogIn

LEMMA RefreshSteps ==
    ASSUME Typed, NEW a \in Refreshers, Refresh(a)
    PROVE  \/ GivesUp(a) \/ GoesOn(a) \/ Refetch(a)
           \/ LookUp(a) \/ Use(a) \/ AnswerToken(a) \/ Adopt(a) \/ Store(a) \/ Delete(a)
BY ReadSwitchGoesOn, LookUpInVainDoes, LookUpFailsDoes, CheckLogsDoes, AnswerDoes,
   AnswerCaptchaDoes, SolvedDoes DEF Refresh

\* What a return does to the connection and to the refreshes.
LEMMA DoneSocket ==
    ASSUME Typed, NEW a \in Refreshers, NEW m, NEW e, NEW w \in SocketSet, Done(a, m, e, w)
    PROVE  /\ lapses \subseteq lapses'
           /\ \/ ws'.token = w.token /\ ws'.device = w.device
              \/ ws'.token = m.token /\ ws'.device = m.device
              \/ ws'.token = NoToken
           /\ ref' \in {AllIdle, [ref EXCEPT ![a] = Idle]}
<1>1. \/ ws' = w \/ ws' = Closed
      \/ ws' = [w EXCEPT !.token = m.token, !.device = m.device]
  BY DEF Done, Count, SendReg
<1>2. \/ ws'.token = w.token /\ ws'.device = w.device
      \/ ws'.token = m.token /\ ws'.device = m.device
      \/ ws'.token = NoToken
  BY <1>1, ClosedType DEF SocketSet
<1>3. lapses \subseteq lapses'
  BY DEF Done, SendReg
<1>4. ref' \in {AllIdle, [ref EXCEPT ![a] = Idle]}
  BY DEF Done, Count
<1> QED
  BY <1>2, <1>3, <1>4

LEMMA EnterDoes ==
    ASSUME Typed, NEW a \in Refreshers, Enter(a, mem)
    PROVE  /\ ref'[a].pc = "setting" /\ ref'[a].initial = mem.fallback
           /\ ref'[a].captcha = 0 /\ ref'[a].expiry = 0 /\ ref'[a].token = NoToken
           /\ \A b \in Refreshers \ {a} : ref'[b] = ref[b]
           /\ lapses \subseteq lapses'
           /\ "refreshes" \notin lapses' => \A b \in Refreshers \ {a} : ref[b].pc = "idle"
           /\ Alike(mem') /\ mem'.fallback = mem.fallback
<1> DEFINE g == [Idle EXCEPT !.pc = "setting", !.initial = mem.fallback]
<1>1. ref \in [Refreshers -> RefreshSet] /\ mem' = [mem EXCEPT !.status = "started"]
  BY DEF Typed, TypeOK, Enter
<1>2. ref' = [ref EXCEPT ![a] = g]
  BY DEF Enter
<1>3. /\ g.pc = "setting" /\ g.initial = mem.fallback
      /\ g.captcha = 0 /\ g.expiry = 0 /\ g.token = NoToken
  BY DEF Idle
<1>4. ref'[a] = g /\ \A b \in Refreshers \ {a} : ref'[b] = ref[b]
  BY <1>1, <1>2
<1>5. /\ lapses \subseteq lapses'
      /\ "refreshes" \notin lapses' => \A b \in Refreshers \ {a} : ref[b].pc = "idle"
  BY DEF Enter, Other
<1>6. Alike(mem') /\ mem'.fallback = mem.fallback
  BY <1>1, AlikeAnswers
<1> HIDE DEF g
<1> QED
  BY <1>3, <1>4, <1>5, <1>6

\* What a round of main and a stop do: they keep the device and what is known
\* of the row, and begin a refresh or end all of them.
Rounds ==
    /\ main.pc # "ended"
    /\ \/ ref' = ref /\ lapses \subseteq lapses'
       \/ ref' = AllIdle /\ main'.pc = "ended" /\ lapses \subseteq lapses'
       \/ Enter(Main, mem) /\ (main.pc = "ready" \/ ref[Main].pc = "idle")
    /\ mem' \in MemorySet
    /\ mem'.token \in {mem.token, NoToken} /\ mem'.device = mem.device
    /\ mem'.inUse = mem.inUse /\ (mem'.startup => mem.startup)
    /\ mem'.fallback = mem.fallback
    /\ row' \in {row, Marked}
    /\ \/ ws'.token = ws.token /\ ws'.device = ws.device
       \/ ws'.token = NoToken
       \/ /\ ref[Main].pc = "idle" /\ ws'.token = mem.token /\ ws'.device = mem.device
          /\ "registration" \in lapses' \/ \A b \in Loops : ref[b].pc # "adopting"
    /\ UNCHANGED apart

LEMMA RoundSteps == ASSUME Typed, Round \/ Stop PROVE Rounds
<1>0. mem \in MemorySet /\ main \in RoundSet /\ ws \in SocketSet
  BY DEF Typed, TypeOK
<1>1. main.pc # "ended" /\ UNCHANGED apart
  BY DEF Round, ReadState, Proceed, Connect, Register, Join, CloseNormally, Drop, Fail, Relogin, Stop
<1>2. \/ ref' = ref /\ lapses \subseteq lapses'
      \/ ref' = AllIdle /\ main'.pc = "ended" /\ lapses \subseteq lapses'
      \/ Enter(Main, mem) /\ (main.pc = "ready" \/ ref[Main].pc = "idle")
  <2>1. End => ref' = AllIdle /\ main'.pc = "ended"
    BY <1>0 DEF End, Ended, RoundSet
  <2>2. CASE ReadState \/ Drop \/ Relogin \/ Stop
    BY <2>1, <2>2 DEF ReadState, Drop, Relogin, Stop
  <2>3. CASE Proceed \/ Register
    BY <2>3 DEF Proceed, Register, SendReg
  <2>4. CASE Connect \/ Join \/ CloseNormally \/ Fail
    BY <2>4 DEF Connect, Join, CloseNormally, Fail
  <2> QED
    BY <2>2, <2>3, <2>4 DEF Round
<1>3. \/ mem' = mem \/ Reject \/ mem' = [mem EXCEPT !.token = NoToken]
      \/ mem' = [mem EXCEPT !.status = "started"]
  BY DEF Round, ReadState, Proceed, Connect, Register, Join, CloseNormally, Drop, Fail, Relogin, Stop,
         Enter
<1>4. /\ mem' \in MemorySet
      /\ mem'.token \in {mem.token, NoToken} /\ mem'.device = mem.device
      /\ mem'.inUse = mem.inUse /\ mem'.fallback = mem.fallback
      /\ mem'.startup => mem.startup
  BY <1>0, <1>3, NoTokenKnown DEF Reject, MemorySet
<1>6. row' \in {row, Marked}
  BY DEF Round, ReadState, Proceed, Connect, Register, Join, CloseNormally, Drop, Fail, Relogin, Stop,
         DeleteCached
<1>7. \/ ws'.token = ws.token /\ ws'.device = ws.device
      \/ ws'.token = NoToken
      \/ /\ ref[Main].pc = "idle" /\ ws'.token = mem.token /\ ws'.device = mem.device
         /\ "registration" \in lapses' \/ \A b \in Loops : ref[b].pc # "adopting"
  <2>1. CASE ws' \in {ws, Closed}
    BY <2>1, ClosedType
  <2>2. CASE ws' = [Closed EXCEPT !.open = "yes"]
    BY <2>2, ClosedType
  <2>3. CASE /\ ref[Main].pc = "idle"
             /\ ws' = [ws EXCEPT !.token = mem.token, !.device = mem.device]
             /\ lapses' = IF \E b \in Loops : ref[b].pc = "adopting"
                            THEN lapses \cup {"registration"} ELSE lapses
    BY <1>0, <2>3 DEF SocketSet
  <2>4. Register => ws' \in {ws, Closed} \/
             (/\ ref[Main].pc = "idle"
              /\ ws' = [ws EXCEPT !.token = mem.token, !.device = mem.device]
              /\ lapses' = IF \E b \in Loops : ref[b].pc = "adopting"
                             THEN lapses \cup {"registration"} ELSE lapses)
    BY DEF Register, SendReg
  <2>5. Connect => ws' \in {ws, [Closed EXCEPT !.open = "yes"]}
    BY DEF Connect
  <2>6. ~Register /\ ~Connect => ws' \in {ws, Closed}
    BY DEF Round, ReadState, Proceed, Join, CloseNormally, Drop, Fail, Relogin, Stop, End
  <2> QED
    BY <2>1, <2>2, <2>3, <2>4, <2>5, <2>6
<1> QED
  BY <1>1, <1>2, <1>4, <1>6, <1>7 DEF Rounds
-----------------------------------------------------------------------------
(* At most one refresh is under way, until refreshes have overlapped.      *)
Active(a) == ref[a].pc # "idle"

Alone ==
    "refreshes" \notin lapses => \A a, b \in Refreshers : Active(a) /\ Active(b) => a = b

\* A step of a refresh changes no other one, unless it ends them all.
LEMMA RefreshOthers ==
    ASSUME Typed, NEW a \in Refreshers, Refresh(a)
    PROVE  /\ Active(a) /\ lapses \subseteq lapses'
           /\ \A b \in Refreshers \ {a} : ref'[b] = ref[b] \/ ref'[b].pc = "idle"
<1>1. ref \in [Refreshers -> RefreshSet] /\ ws \in SocketSet
  BY DEF Typed, TypeOK
<1>2. Idle.pc = "idle"
  BY DEF Idle
<1>3. ASSUME NEW m, NEW e, NEW w \in SocketSet, Done(a, m, e, w)
      PROVE  /\ lapses \subseteq lapses'
             /\ \A b \in Refreshers \ {a} : ref'[b] = ref[b] \/ ref'[b].pc = "idle"
  BY <1>2, <1>3, DoneSocket, DoneDoes
<1>4. CASE GivesUp(a)
  BY <1>1, <1>3, <1>4 DEF GivesUp, Active
<1>5. CASE GoesOn(a)
  BY <1>1, <1>5 DEF GoesOn, Active
<1>10. CASE Refetch(a)
  BY <1>1, <1>10, RefetchDoes DEF Active
<1>6. CASE LookUp(a) \/ AnswerToken(a) \/ Adopt(a)
  BY <1>1, <1>6 DEF LookUp, AnswerToken, Adopt, Active, caller
<1>7. CASE Use(a)
  <2>1. Reconnect(ref[a].kind) \in SocketSet
    BY <1>1 DEF Reconnect, SocketSet
  <2> QED
    BY <1>3, <1>7, <2>1 DEF Use, Active
<1>8. CASE Store(a)
  BY <1>1, <1>3, <1>8 DEF Store, Active
<1>9. CASE Delete(a)
  <2>1. CASE Done(a, mem, enabled, ws)
    BY <1>1, <1>3, <1>9, <2>1 DEF Delete, Active
  <2>2. CASE Again(a, ref[a].captcha + 1, 0)
    BY <1>1, <1>9, <2>2 DEF Delete, Again, Active, caller
  <2> QED
    BY <1>9, <2>1, <2>2 DEF Delete
<1> QED
  BY <1>4, <1>5, <1>6, <1>7, <1>8, <1>9, <1>10, RefreshSteps

\* While one refresh is at work the others are idle, before and after.
LEMMA Solo ==
    ASSUME Typed, Alone, "refreshes" \notin lapses, NEW a \in Refreshers, Refresh(a)
    PROVE  \A b \in Refreshers \ {a} : ref[b].pc = "idle" /\ ref'[b].pc = "idle"
BY RefreshOthers DEF Alone, Active

\* All steps that no refresh makes.
Apart == Age \/ Renewal \/ Invalidate

LEMMA ApartDoes ==
    ASSUME Apart
    PROVE  UNCHANGED <<mem, ref, enabled, main, ws, lapses, seen, marks>>
BY DEF Apart, Age, Renewal, RenewalPick, RenewalAnswer, RenewalWrite, Invalidate, caller, apart

LEMMA NextSteps ==
    ASSUME Typed, Next
    PROVE  \/ \E a \in Refreshers : Refresh(a)
           \/ \E a \in Loops : LoopRefresh(a)
           \/ Rounds \/ Start \/ Apart
BY RoundSteps DEF Next, Apart

LEMMA AllAreIdle == \A a \in Refreshers : AllIdle[a] = Idle /\ Idle.pc = "idle"
BY DEF AllIdle, Idle

LEMMA AloneStep == ASSUME Typed, Alone, [Next]_vars PROVE Alone'
<1> SUFFICES ASSUME "refreshes" \notin lapses', NEW b \in Refreshers, NEW c \in Refreshers,
                    Active(b)', Active(c)'
             PROVE  b = c
  BY DEF Alone
<1> USE DEF Active
<1>1. CASE \E a \in Refreshers : Refresh(a)
  <2>1. PICK a \in Refreshers : Refresh(a)
    BY <1>1
  <2>2. "refreshes" \notin lapses
    BY <2>1, RefreshOthers
  <2> QED
    BY <2>1, <2>2, Solo
<1>2. ASSUME NEW a \in Refreshers, Enter(a, mem) PROVE b = c
  BY <1>2, EnterDoes
<1>3. CASE \E a \in Loops : LoopRefresh(a)
  BY <1>2, <1>3, MainRefreshes DEF LoopRefresh
<1>4. CASE Rounds
  <2>1. CASE ref' = ref /\ lapses \subseteq lapses'
    BY <2>1 DEF Alone
  <2>2. CASE ref' = AllIdle
    BY <2>2, AllAreIdle
  <2> QED
    BY <1>2, <1>4, <2>1, <2>2, MainRefreshes DEF Rounds
<1>5. CASE Start
  BY <1>5 DEF Start, Alone
<1>6. CASE Apart
  BY <1>6, ApartDoes DEF Alone
<1>7. CASE UNCHANGED vars
  BY <1>7 DEF vars, caller, Alone
<1> QED
  BY <1>1, <1>3, <1>4, <1>5, <1>6, <1>7, NextSteps
-----------------------------------------------------------------------------
Late(a) == ref[a].kind = "expired" /\ ref[a].slider = "off"

\* What the use of a cached token leaves in memory.
UsedMemory(a) ==
    Looked(ref[a], [mem EXCEPT !.token = ref[a].token, !.device = ref[a].device,
                               !.inUse = ref[a].token, !.startup = Late(a),
                               !.status = IF ref[a].kind = "renewed" THEN "renewal" ELSE "success"])

LEMMA UseDoes ==
    ASSUME Typed, NEW a \in Refreshers, Use(a)
    PROVE  /\ ref[a].pc = "using" /\ ref[a].token # NoToken
           /\ Done(a, UsedMemory(a), enabled, Reconnect(ref[a].kind))
           /\ mem' = UsedMemory(a) /\ ref'[a].pc = "idle"
           /\ seen' = seen \cup {ref[a].token}
           /\ marks' = IF Late(a) THEN marks \cup {"fallback"} ELSE marks
           /\ UNCHANGED <<row, sched, platform>>
           /\ mem'.inUse = ref[a].token /\ mem'.startup = Late(a)
           /\ mem'.fallback <=> mem.fallback /\ ~(ref[a].slider = "off" /\ ref[a].initial)
           /\ UsedMemory(a).token = ref[a].token /\ UsedMemory(a).device = ref[a].device
           /\ UsedMemory(a).inUse = ref[a].token
           /\ Reconnect(ref[a].kind) \in SocketSet
           /\ Reconnect(ref[a].kind).token = ws.token /\ Reconnect(ref[a].kind).device = ws.device
<1>1. mem \in MemorySet /\ ws \in SocketSet
  BY DEF Typed, TypeOK
<1>2. /\ ref[a].pc = "using"
      /\ Done(a, UsedMemory(a), enabled, Reconnect(ref[a].kind))
      /\ seen' = seen \cup {ref[a].token}
      /\ marks' = IF Late(a) THEN marks \cup {"fallback"} ELSE marks
      /\ UNCHANGED <<row, sched, platform>>
  BY DEF Use, UsedMemory, Late
<1>3. mem' = UsedMemory(a) /\ ref'[a].pc = "idle"
  BY <1>2, DoneDoes
<1>4. /\ UsedMemory(a).inUse = ref[a].token /\ UsedMemory(a).startup = Late(a)
      /\ UsedMemory(a).token = ref[a].token /\ UsedMemory(a).device = ref[a].device
      /\ UsedMemory(a).fallback = (mem.fallback /\ ~(ref[a].slider = "off" /\ ref[a].initial))
  BY <1>1 DEF UsedMemory, Looked, MemorySet
<1>5. ref[a].token # NoToken
  BY <1>2 DEF Typed, Bounds
<1>6. /\ Reconnect(ref[a].kind) \in SocketSet
      /\ Reconnect(ref[a].kind).token = ws.token /\ Reconnect(ref[a].kind).device = ws.device
  BY <1>1 DEF Reconnect, SocketSet
<1> QED
  BY <1>2, <1>3, <1>4, <1>5, <1>6
-----------------------------------------------------------------------------
(* Every token anywhere has been issued; the next one is new.              *)
Issues ==
    /\ row.token <= issued /\ mem.token <= issued /\ mem.inUse <= issued
    /\ ws.token <= issued /\ sched.token <= issued
    /\ \A a \in Refreshers : ref[a].token <= issued
    /\ \A t \in seen : t <= issued

LEMMA IssueDoes ==
    ASSUME Typed, NEW d \in Devices, Issue(d)
    PROVE  /\ issued' = issued + 1 /\ issued \in Nat /\ issued + 1 \in Tokens
           /\ boundTo'[issued + 1] = d
           /\ \A t \in Known : t <= issued /\ t # NoToken => boundTo'[t] = boundTo[t]
<1>1. issued \in 0 .. MaxTokens /\ boundTo \in [Tokens -> Devices] /\ issued < MaxTokens
  BY DEF Typed, TypeOK, Issue, Known
<1>2. issued + 1 \in Tokens /\ issued \in Nat
  BY <1>1 DEF Tokens
<1>3. \A t \in Known : t <= issued /\ t # NoToken => t \in Tokens /\ t # issued + 1
  BY <1>1 DEF Known, Tokens, NoToken
<1> QED
  BY <1>1, <1>2, <1>3 DEF Issue

\* A token keeps the device it was issued for.
LEMMA BoundKept ==
    ASSUME Typed, [Next]_vars
    PROVE  /\ issued <= issued' /\ issued \in Nat /\ issued' \in Nat
           /\ \A t \in Known : t <= issued /\ t # NoToken => boundTo'[t] = boundTo[t]
<1>1. issued \in Nat /\ world \in World
  BY DEF Typed, TypeOK, Known
<1>2. CASE UNCHANGED platform
  BY <1>1, <1>2 DEF platform
<1>3. ASSUME NEW d \in world.devices, Issue(d)
      PROVE  /\ issued <= issued' /\ issued' \in Nat
             /\ \A t \in Known : t <= issued /\ t # NoToken => boundTo'[t] = boundTo[t]
  BY <1>1, <1>3, IssueDoes, WorldDevices
<1>4. CASE \E a \in Refreshers : Refresh(a)
  BY <1>1, <1>2, <1>3, <1>4, RefreshSteps
     DEF GivesUp, GoesOn, Refetch, LookUp, Use, AnswerToken, Adopt, Store, Delete, apart
<1>5. CASE (\E a \in Loops : LoopRefresh(a)) \/ Rounds \/ Start
  BY <1>2, <1>5 DEF LoopRefresh, Rounds, Start, apart
<1>6. CASE Apart
  BY <1>1, <1>2, <1>3, <1>6 DEF Apart, Age, Renewal, RenewalPick, RenewalAnswer, RenewalWrite, Invalidate, apart
<1>7. CASE UNCHANGED vars
  BY <1>2, <1>7 DEF vars, apart
<1> QED
  BY <1>1, <1>4, <1>5, <1>6, <1>7, NextSteps

LEMMA IssuesInit == Init => Issues
<1> SUFFICES ASSUME Init PROVE Issues
  OBVIOUS
<1>1. \A a \in Refreshers : ref[a].token = NoToken
  BY DEF Init, Idle
<1>2. /\ row.token = NoToken /\ mem.token = NoToken /\ mem.inUse = NoToken /\ ws.token = NoToken
      /\ sched.token = NoToken /\ issued = 0 /\ seen = {}
  BY DEF Init, NoRow, FreshMemory, Closed, Resting
<1> QED
  BY <1>1, <1>2 DEF Issues, NoToken

\* A return issues no token.
LEMMA IssuesReturn ==
    ASSUME Typed, Issues, NEW a \in Refreshers, NEW m, NEW e, NEW w \in SocketSet, Done(a, m, e, w),
           m.token <= issued, m.inUse <= issued, w.token <= issued, row'.token <= issued,
           \A t \in seen' : t <= issued, UNCHANGED <<sched, platform>>
    PROVE  Issues'
<1>2. Idle.token = NoToken /\ NoToken <= issued
  BY DEF Idle, NoToken, Typed, TypeOK, Known
<1>1. mem' = m /\ issued' = issued /\ sched' = sched /\ ws'.token <= issued
  BY <1>2, DoneDoes, DoneSocket DEF platform
<1>3. \A b \in Refreshers : ref'[b].token <= issued
  BY <1>2, DoneDoes DEF Issues
<1> QED
  BY <1>1, <1>3 DEF Issues

LEMMA IssuesLater ==
    ASSUME Typed, Issues
    PROVE  /\ row.token <= issued + 1 /\ mem.token <= issued + 1 /\ mem.inUse <= issued + 1
           /\ ws.token <= issued + 1 /\ sched.token <= issued + 1
           /\ \A a \in Refreshers : ref[a].token <= issued + 1
           /\ \A t \in seen : t <= issued + 1
<1>1. issued \in Nat
  BY DEF Typed, TypeOK, Known
<1>2. /\ row.token \in Nat /\ mem.token \in Nat /\ mem.inUse \in Nat
      /\ ws.token \in Nat /\ sched.token \in Nat
  BY DEF Typed, TypeOK, RowSet, MemorySet, SocketSet, RenewalSet, Known
<1>3. seen \subseteq Nat
  BY DEF Typed, TypeOK, Tokens
<1>4. \A b \in Refreshers : ref[b].token \in Nat
  BY DEF Typed, TypeOK, RefreshSet, Known
<1>5. \A t \in Nat : t <= issued => t <= issued + 1
  BY <1>1
<1> QED
  BY <1>2, <1>3, <1>4, <1>5 DEF Issues

LEMMA IssuesRefresh ==
    ASSUME Typed, Issues, NEW a \in Refreshers, Refresh(a)
    PROVE  Issues'
<1>1. /\ ref \in [Refreshers -> RefreshSet] /\ ws \in SocketSet /\ issued \in Nat
      /\ row \in RowSet /\ mem \in MemorySet
  BY DEF Typed, TypeOK, Known
<1>2. NoToken <= issued
  BY <1>1 DEF NoToken
<1>3. CASE GivesUp(a)
  <2>1. PICK m \in MemorySet, e \in BOOLEAN : Alike(m) /\ Done(a, m, e, ws)
    BY <1>3 DEF GivesUp
  <2>2. m.token <= issued /\ m.inUse <= issued /\ UNCHANGED <<row, seen, sched, platform>>
    BY <1>2, <1>3, <2>1 DEF Issues, Alike, GivesUp, apart
  <2>3. row'.token <= issued /\ ws.token <= issued /\ \A t \in seen' : t <= issued
    BY <2>2 DEF Issues
  <2> QED
    BY <1>1, <2>1, <2>2, <2>3, IssuesReturn
<1>4. CASE GoesOn(a)
  <2>1. PICK g \in RefreshSet : ref' = [ref EXCEPT ![a] = g] /\ g.token \in {ref[a].token, mem.inUse, NoToken}
    BY <1>4 DEF GoesOn
  <2>2. Alike(mem') /\ UNCHANGED <<row, ws, seen, sched, issued>>
    BY <1>4 DEF GoesOn, apart, platform
  <2>3. \A b \in Refreshers : ref'[b].token <= issued
    BY <1>1, <1>2, <2>1 DEF Issues
  <2>4. mem'.token <= issued /\ mem'.inUse <= issued
    BY <1>2, <2>2 DEF Alike, Issues
  <2> QED
    BY <2>2, <2>3, <2>4 DEF Issues
<1>5. CASE LookUp(a)
  <2>1. row'.token = row.token /\ UNCHANGED <<mem, ws, seen, sched, issued>>
    BY <1>1, <1>5 DEF LookUp, RowSet, caller, apart, platform
  <2>2. \A b \in Refreshers : ref'[b].token = ref[b].token \/ ref'[b].token = row.token
    BY <1>1, <1>5 DEF LookUp, RefreshSet
  <2> QED
    BY <2>1, <2>2 DEF Issues
<1>6. CASE Use(a)
  BY <1>1, <1>6, UseDoes, IssuesReturn DEF Issues
<1>7. CASE AnswerToken(a)
  <2>1. PICK d \in world.devices : Issue(d) /\ mem' = [mem EXCEPT !.device = d]
    BY <1>7 DEF AnswerToken
  <2>2. issued' = issued + 1
    BY <2>1 DEF Issue
  <2>3. UNCHANGED <<row, ws, seen, sched>> /\ mem'.token = mem.token /\ mem'.inUse = mem.inUse
    BY <1>1, <1>7, <2>1 DEF AnswerToken, caller, MemorySet
  <2>4. \A b \in Refreshers : ref'[b].token = ref[b].token \/ ref'[b].token = issued + 1
    BY <1>1, <1>7 DEF AnswerToken, RefreshSet
  <2> QED
    BY <1>1, <2>2, <2>3, <2>4, IssuesLater DEF Issues
<1>8. CASE Adopt(a)
  <2>1. /\ UNCHANGED <<row, ws, sched, issued>> /\ seen' = seen \cup {ref[a].token}
        /\ mem'.token = ref[a].token /\ mem'.inUse = mem.inUse
    BY <1>1, <1>8 DEF Adopt, caller, platform, MemorySet
  <2>2. \A b \in Refreshers : ref'[b].token = ref[b].token
    BY <1>1, <1>8 DEF Adopt, RefreshSet
  <2> QED
    BY <2>1, <2>2 DEF Issues
<1>9. CASE Store(a)
  <2>1. UNCHANGED <<sched, platform, seen>> /\ row'.token \in {row.token, ref[a].token}
    BY <1>9 DEF Store
  <2>2. PICK m \in {mem, [mem EXCEPT !.inUse = ref[a].token]} : Done(a, m, enabled, ws)
    BY <1>9 DEF Store
  <2>3. m.token = mem.token /\ m.inUse \in {mem.inUse, ref[a].token}
    BY <1>1, <2>2 DEF MemorySet
  <2> QED
    BY <1>1, <2>1, <2>2, <2>3, IssuesReturn DEF Issues
<1>10. CASE Delete(a)
  <2>1. row'.token = row.token /\ UNCHANGED <<sched, platform, seen>>
    BY <1>1, <1>10 DEF Delete, DeleteCached, Marked, RowSet, apart
  <2>2. CASE Done(a, mem, enabled, ws)
    BY <1>1, <2>1, <2>2, IssuesReturn DEF Issues
  <2>3. CASE Again(a, ref[a].captcha + 1, 0)
    <3>1. mem'.token = mem.token /\ mem'.inUse = mem.inUse /\ UNCHANGED ws
      BY <1>1, <2>3 DEF Again, caller, MemorySet
    <3>2. \A b \in Refreshers : ref'[b].token = ref[b].token \/ ref'[b].token = NoToken
      BY <1>1, <2>3 DEF Again, Idle
    <3> QED
      BY <1>2, <2>1, <3>1, <3>2 DEF Issues, platform
  <2> QED
    BY <1>10, <2>2, <2>3 DEF Delete
<1>11. CASE Refetch(a)
  <2>1. /\ UNCHANGED <<row, ws, seen, sched, issued>>
        /\ mem'.token = mem.token /\ mem'.inUse = mem.inUse
    BY <1>11, RefetchDoes DEF apart, platform
  <2>2. \A b \in Refreshers : ref'[b].token = ref[b].token
    BY <1>1, <1>11, RefetchDoes
  <2> QED
    BY <2>1, <2>2 DEF Issues
<1> QED
  BY <1>3, <1>4, <1>5, <1>6, <1>7, <1>8, <1>9, <1>10, <1>11, RefreshSteps

LEMMA IssuesStep == ASSUME Typed, Issues, [Next]_vars PROVE Issues'
<1>1. /\ ref \in [Refreshers -> RefreshSet] /\ ws \in SocketSet /\ issued \in Nat
      /\ row \in RowSet /\ mem \in MemorySet /\ sched \in RenewalSet /\ world \in World
  BY DEF Typed, TypeOK, Known
<1>2. NoToken <= issued /\ Idle.token = NoToken
  BY <1>1 DEF NoToken, Idle
<1>3. ASSUME NEW a \in Refreshers, Enter(a, mem)
      PROVE  /\ mem'.token <= issued /\ mem'.inUse <= issued
             /\ \A b \in Refreshers : ref'[b].token <= issued
  BY <1>2, <1>3, EnterDoes DEF Alike, Issues
<1>4. CASE \E a \in Refreshers : Refresh(a)
  BY <1>4, IssuesRefresh
<1>5. CASE \E a \in Loops : LoopRefresh(a)
  <2>1. UNCHANGED <<row, ws, sched, issued, seen>>
    BY <1>5 DEF LoopRefresh, apart, platform
  <2> QED
    BY <1>3, <1>5, <2>1, MainRefreshes DEF LoopRefresh, Issues
<1>6. CASE Rounds
  <2>1. UNCHANGED <<sched, issued, seen>> /\ row'.token = row.token
    BY <1>1, <1>6 DEF Rounds, apart, platform, Marked, RowSet
  <2>2. mem'.token <= issued /\ mem'.inUse <= issued /\ ws'.token <= issued
    BY <1>2, <1>6 DEF Rounds, Issues
  <2>3. \A b \in Refreshers : ref'[b].token <= issued
    <3>1. CASE ref' = ref
      BY <3>1 DEF Issues
    <3>2. CASE ref' = AllIdle
      BY <1>2, <3>2, AllAreIdle
    <3> QED
      BY <1>3, <1>6, <3>1, <3>2, MainRefreshes DEF Rounds
  <2> QED
    BY <2>1, <2>2, <2>3 DEF Issues
<1>7. CASE Start
  <2>1. UNCHANGED <<row, ref, sched, issued, seen>>
    BY <1>7 DEF Start, platform
  <2>2. mem'.token = NoToken /\ mem'.inUse = NoToken /\ ws'.token = NoToken
    BY <1>7 DEF Start, FreshMemory, Closed
  <2> QED
    BY <1>2, <2>1, <2>2 DEF Issues
<1>8. CASE Apart
  <2>1. UNCHANGED <<mem, ref, ws, seen>>
    BY <1>8, ApartDoes
  <2>2. CASE Age \/ Invalidate \/ RenewalPick
    <3>1. row'.token = row.token
      BY <1>1, <2>2 DEF Age, Invalidate, RenewalPick, Marked, RowSet
    <3>2. sched'.token \in {sched.token, NoToken} /\ UNCHANGED issued
      BY <2>2 DEF Age, Invalidate, RenewalPick, apart, platform
    <3> QED
      BY <1>2, <2>1, <3>1, <3>2 DEF Issues
  <2>3. CASE RenewalAnswer
    <3>1. UNCHANGED row
      BY <2>3 DEF RenewalAnswer
    <3>2. CASE sched' = Resting /\ UNCHANGED platform
      BY <1>2, <2>1, <3>1, <3>2 DEF Resting, platform, Issues
    <3>3. CASE \E d \in world.devices :
                  Issue(d) /\ sched' = [pc |-> "writing", token |-> issued + 1, device |-> d]
      <4>1. issued' = issued + 1 /\ sched'.token = issued + 1
        BY <3>3 DEF Issue
      <4> QED
        BY <1>1, <2>1, <3>1, <4>1, IssuesLater DEF Issues
    <3> QED
      BY <2>3, <3>2, <3>3 DEF RenewalAnswer
  <2>4. CASE RenewalWrite
    <3>1. row'.token \in {row.token, sched.token} /\ sched'.token = NoToken /\ UNCHANGED issued
      BY <1>1, <2>4 DEF RenewalWrite, RowSet, Resting, platform
    <3> QED
      BY <1>2, <2>1, <3>1 DEF Issues
  <2> QED
    BY <1>8, <2>2, <2>3, <2>4 DEF Apart, Renewal
<1>9. CASE UNCHANGED vars
  BY <1>9 DEF vars, caller, apart, platform, Issues
<1> QED
  BY <1>4, <1>5, <1>6, <1>7, <1>8, <1>9, NextSteps
-----------------------------------------------------------------------------
(* Where a token is kept with a device it is the one it was issued for.    *)
(* Between the device and the token of an answer (adopting) the memory     *)
(* pairs nothing; a task that was stopped there has ended.  A refetch      *)
(* parts what the memory holds, and with it what is registered; the row is *)
(* written from what a refresh holds.                                      *)
Fits(t, d) == t # NoToken => d = boundTo[t]
Held(t, d) == "refetch" \notin lapses => Fits(t, d)

PairsHold ==
    /\ Fits(row.token, row.device)
    /\ Held(ws.token, ws.device)
    /\ sched.pc = "writing" => Fits(sched.token, sched.device)
    /\ \A a \in Refreshers :
         /\ ref[a].pc \in {"using", "storing"} => Fits(ref[a].token, ref[a].device)
         /\ ref[a].pc = "adopting" => Fits(ref[a].token, mem.device)
    /\ (main.pc # "ended" /\ \A a \in Refreshers : ref[a].pc # "adopting")
          => Held(mem.token, mem.device)

Pairs == lapses \subseteq {"lookup", "refetch"} => PairsHold

LEMMA LapsesGrow == ASSUME Typed, [Next]_vars PROVE lapses \subseteq lapses'
<1>1. CASE \E a \in Refreshers : Refresh(a)
  BY <1>1, RefreshOthers
<1>2. CASE (\E a \in Loops : LoopRefresh(a)) \/ Rounds
  BY <1>2, EnterDoes, MainRefreshes DEF LoopRefresh, Rounds
<1>3. CASE Start \/ Apart
  BY <1>3, ApartDoes DEF Start
<1>4. CASE UNCHANGED vars
  BY <1>4 DEF vars, caller
<1> QED
  BY <1>1, <1>2, <1>3, <1>4, NextSteps

\* Who is active belongs to a task that has not ended.
LEMMA ActiveInTask ==
    ASSUME Kept, NEW a \in Refreshers, Active(a)
    PROVE  main.pc # "ended"
BY DEF Kept, Quiet, Active, Refreshers

\* What was true of the memory and of a registration is still, or excused.
LEMMA HeldStays ==
    ASSUME NEW t, NEW d, Held(t, d), boundTo' = boundTo, lapses \subseteq lapses'
    PROVE  Held(t, d)'
BY DEF Held, Fits

LEMMA PairsReturn ==
    ASSUME Typed, NEW a \in Refreshers, NEW m, NEW e, NEW w \in SocketSet, Done(a, m, e, w),
           \A b \in Refreshers \ {a} : ref'[b].pc = "idle",
           Held(m.token, m.device), Held(w.token, w.device), Fits(row'.token, row'.device),
           PairsHold, UNCHANGED <<sched, platform>>, lapses \subseteq lapses'
    PROVE  PairsHold'
<1>1. mem' = m /\ boundTo' = boundTo /\ Held(ws'.token, ws'.device)
  BY DoneDoes, DoneSocket DEF platform, Held, Fits
<1>2. \A b \in Refreshers : ref'[b].pc = "idle"
  BY DoneDoes
<1> QED
  BY <1>1, <1>2 DEF PairsHold, Fits, Held

LEMMA PairsRefresh ==
    ASSUME Kept, Alone, Issues, PairsHold, "refreshes" \notin lapses,
           NEW a \in Refreshers, Refresh(a)
    PROVE  PairsHold'
<1>1. /\ ref \in [Refreshers -> RefreshSet] /\ ws \in SocketSet /\ row \in RowSet
      /\ mem \in MemorySet /\ world \in World /\ Typed /\ boundTo \in [Tokens -> Devices]
      /\ lapses \subseteq lapses'
  BY RefreshOthers DEF Kept, Typed, TypeOK
<1>2. \A b \in Refreshers \ {a} : ref[b].pc = "idle" /\ ref'[b].pc = "idle"
  BY <1>1, Solo
<1>3. main.pc # "ended"
  BY <1>1, RefreshOthers, ActiveInTask
<1>4. ref[a].pc # "adopting" => Held(mem.token, mem.device)
  BY <1>2, <1>3 DEF PairsHold
<1>5. Fits(row.token, row.device) /\ Held(ws.token, ws.device)
  BY DEF PairsHold
<1>6. CASE GivesUp(a)
  <2>1. PICK m \in MemorySet, e \in BOOLEAN : Alike(m) /\ Done(a, m, e, ws)
    BY <1>6 DEF GivesUp
  <2>2. Held(m.token, m.device) /\ UNCHANGED <<row, sched, platform>>
    BY <1>4, <1>6, <2>1 DEF GivesUp, Alike, Fits, Held, apart
  <2> QED
    BY <1>1, <1>2, <1>5, <2>1, <2>2, PairsReturn
<1>7. CASE GoesOn(a)
  <2>1. PICK g \in RefreshSet :
          /\ ref' = [ref EXCEPT ![a] = g]
          /\ g.pc \in {"setting", "looking", "logs", "asking", "login", "solving", "deleting"}
    BY <1>7 DEF GoesOn
  <2>2. /\ UNCHANGED <<row, ws, sched, boundTo>>
        /\ Held(mem'.token, mem'.device)
    BY <1>4, <1>7 DEF GoesOn, Alike, Fits, Held, apart, platform
  <2>3. \A b \in Refreshers : ref'[b].pc \notin {"using", "storing", "adopting"}
    BY <1>1, <1>2, <2>1
  <2> QED
    BY <1>1, <2>2, <2>3 DEF PairsHold, Fits, Held
<1>8. CASE LookUp(a)
  <2>1. row'.token = row.token /\ row'.device = row.device
    BY <1>1, <1>8 DEF LookUp, RowSet
  <2>2. UNCHANGED <<mem, ws, sched, boundTo>> /\ ref[a].pc # "adopting"
    BY <1>8 DEF LookUp, caller, apart, platform
  <2>3. ref'[a].pc = "using" /\ ref'[a].token = row.token /\ ref'[a].device = row.device
    BY <1>1, <1>8 DEF LookUp, RefreshSet
  <2>4. \A b \in Refreshers : ref'[b].pc \in {"using", "storing", "adopting"} => b = a
    BY <1>2
  <2> QED
    BY <1>1, <1>4, <1>5, <2>1, <2>2, <2>3, <2>4 DEF PairsHold, Fits, Held
<1>9. CASE Use(a)
  <2>1. Fits(ref[a].token, ref[a].device)
    BY <1>9 DEF Use, PairsHold
  <2>2. Held(UsedMemory(a).token, UsedMemory(a).device)
        /\ Held(Reconnect(ref[a].kind).token, Reconnect(ref[a].kind).device)
    BY <1>1, <1>5, <1>9, <2>1, UseDoes DEF Held
  <2> QED
    BY <1>1, <1>2, <1>5, <1>9, <2>2, UseDoes, PairsReturn
<1>10. CASE AnswerToken(a)
  <2>1. PICK d \in world.devices : Issue(d) /\ mem' = [mem EXCEPT !.device = d]
    BY <1>10 DEF AnswerToken
  <2>2. UNCHANGED <<row, ws, sched>> /\ mem'.device = d
    BY <1>1, <1>10, <2>1 DEF AnswerToken, caller, MemorySet
  <2>3. ref'[a].pc = "adopting" /\ ref'[a].token = issued + 1
    BY <1>1, <1>10 DEF AnswerToken, RefreshSet
  <2>4. /\ boundTo'[issued + 1] = d
        /\ \A t \in Known : t <= issued /\ t # NoToken => boundTo'[t] = boundTo[t]
    BY <1>1, <2>1, IssueDoes, WorldDevices
  <2>5. /\ row.token \in Known /\ ws.token \in Known /\ sched.token \in Known
        /\ row.token <= issued /\ ws.token <= issued /\ sched.token <= issued
    BY <1>1 DEF Issues, RowSet, SocketSet, RenewalSet, Typed, TypeOK
  <2>6. Fits(row.token, row.device)' /\ Held(ws.token, ws.device)'
        /\ (sched.pc = "writing" => Fits(sched.token, sched.device))'
    BY <1>1, <2>2, <2>4, <2>5 DEF PairsHold, Fits, Held
  <2>7. \A b \in Refreshers : ref'[b].pc \in {"using", "storing", "adopting"} => b = a
    BY <1>2
  <2> QED
    BY <1>1, <2>2, <2>3, <2>4, <2>6, <2>7 DEF PairsHold, Fits, Held
<1>11. CASE Adopt(a)
  <2>1. /\ ref[a].pc = "adopting" /\ UNCHANGED <<row, ws, sched, boundTo>>
        /\ mem'.token = ref[a].token /\ mem'.device = mem.device
    BY <1>1, <1>11 DEF Adopt, caller, platform, MemorySet
  <2>2. ref'[a].pc = "storing" /\ ref'[a].token = ref[a].token /\ ref'[a].device = mem.device
    BY <1>1, <1>11 DEF Adopt, RefreshSet
  <2>3. \A b \in Refreshers : ref'[b].pc \in {"using", "storing", "adopting"} => b = a
    BY <1>2
  <2>4. Fits(ref[a].token, mem.device)
    BY <2>1 DEF PairsHold
  <2> QED
    BY <1>1, <2>1, <2>2, <2>3, <2>4 DEF PairsHold, Fits, Held
<1>12. CASE Store(a)
  <2>1. ref[a].pc = "storing" /\ UNCHANGED <<sched, platform>>
    BY <1>12 DEF Store
  <2>2. \/ row' = row
        \/ row'.token = ref[a].token /\ row'.device = ref[a].device
    BY <1>12 DEF Store
  <2>3. Fits(ref[a].token, ref[a].device)
    BY <2>1 DEF PairsHold
  <2>4. Fits(row'.token, row'.device)
    BY <1>5, <2>2, <2>3
  <2>5. PICK m \in {mem, [mem EXCEPT !.inUse = ref[a].token]} : Done(a, m, enabled, ws)
    BY <1>12 DEF Store
  <2>6. m.token = mem.token /\ m.device = mem.device
    BY <1>1, <2>5 DEF MemorySet
  <2>7. Held(m.token, m.device)
    BY <1>4, <2>1, <2>6
  <2> QED
    BY <1>1, <1>2, <1>5, <2>1, <2>4, <2>5, <2>7, PairsReturn
<1>13. CASE Delete(a)
  <2>1. /\ ref[a].pc = "deleting" /\ UNCHANGED <<sched, platform>>
        /\ row'.token = row.token /\ row'.device = row.device
    BY <1>1, <1>13 DEF Delete, DeleteCached, Marked, RowSet, apart
  <2>2. Held(mem.token, mem.device)
    BY <1>4, <2>1
  <2>3. CASE Done(a, mem, enabled, ws)
    <3>1. Fits(row'.token, row'.device)
      BY <1>5, <2>1
    <3> QED
      BY <1>1, <1>2, <1>5, <2>1, <2>2, <2>3, <3>1, PairsReturn
  <2>4. CASE Again(a, ref[a].captcha + 1, 0)
    <3>1. mem'.token = mem.token /\ mem'.device = mem.device /\ UNCHANGED <<ws, boundTo>>
      BY <1>1, <2>1, <2>4 DEF Again, caller, platform, MemorySet
    <3>2. ref'[a].pc = "setting"
      BY <1>1, <2>4 DEF Again, Idle
    <3>3. \A b \in Refreshers : ref'[b].pc \notin {"using", "storing", "adopting"}
      BY <1>2, <3>2
    <3> QED
      BY <1>1, <2>1, <2>2, <3>1, <3>3 DEF PairsHold, Fits, Held
  <2> QED
    BY <1>13, <2>3, <2>4 DEF Delete
<1>14. CASE Refetch(a)
  <2>1. /\ ref[a].pc = "solving" /\ UNCHANGED <<row, ws, sched, boundTo>>
    BY <1>1, <1>14, RefetchDoes DEF apart, platform
  <2>2. ref'[a].pc = "solving"
    BY <1>1, <1>14, RefetchDoes
  <2>4. \A b \in Refreshers : ref'[b].pc \notin {"using", "storing", "adopting"}
    BY <1>2, <2>2
  <2>3. Held(mem.token, mem.device)'
    BY <1>1, <1>4, <1>14, <2>1, RefetchDoes DEF Held, Fits
  <2> QED
    BY <1>1, <2>1, <2>3, <2>4 DEF PairsHold, Fits, Held
<1> QED
  BY <1>1, <1>6, <1>7, <1>8, <1>9, <1>10, <1>11, <1>12, <1>13, <1>14, RefreshSteps

LEMMA PairsStep ==
    ASSUME Kept, Alone, Issues, Pairs, [Next]_vars
    PROVE  Pairs'
<1> SUFFICES ASSUME lapses' \subseteq {"lookup", "refetch"} PROVE PairsHold'
  BY DEF Pairs
<1>1. /\ ref \in [Refreshers -> RefreshSet] /\ ws \in SocketSet /\ row \in RowSet
      /\ mem \in MemorySet /\ sched \in RenewalSet /\ world \in World /\ Typed
  BY DEF Kept, Typed, TypeOK
<1>2. PairsHold /\ "refreshes" \notin lapses /\ lapses \subseteq lapses'
  BY <1>1, LapsesGrow DEF Pairs
<1>3. CASE \E a \in Refreshers : Refresh(a)
  BY <1>2, <1>3, PairsRefresh
<1>4. ASSUME NEW a \in Refreshers, Enter(a, mem), main.pc # "ended", ref[a].pc = "idle",
             UNCHANGED <<sched, boundTo>>, Held(ws'.token, ws'.device), Fits(row'.token, row'.device)
      PROVE  PairsHold'
  <2>1. \A b \in Refreshers \ {a} : ref[b].pc = "idle" /\ ref'[b] = ref[b]
    BY <1>1, <1>4, EnterDoes
  <2>2. ref'[a].pc = "setting" /\ mem'.token \in {mem.token, NoToken} /\ mem'.device = mem.device
    BY <1>1, <1>4, EnterDoes DEF Alike
  <2>3. \A b \in Refreshers : ref'[b].pc \notin {"using", "storing", "adopting"}
    BY <2>1, <2>2
  <2>4. Held(mem.token, mem.device)
    BY <1>2, <1>4, <2>1 DEF PairsHold
  <2> QED
    BY <1>2, <1>4, <2>2, <2>3, <2>4 DEF PairsHold, Fits, Held
<1>5. CASE \E a \in Loops : LoopRefresh(a)
  BY <1>2, <1>4, <1>5, MainRefreshes DEF LoopRefresh, apart, platform, PairsHold
<1>6. CASE Rounds
  <2>1. /\ UNCHANGED <<sched, boundTo>> /\ main.pc # "ended"
        /\ row'.token = row.token /\ row'.device = row.device
        /\ mem'.token \in {mem.token, NoToken} /\ mem'.device = mem.device
    BY <1>1, <1>6 DEF Rounds, Marked, RowSet, apart, platform
  <2>2. Fits(row'.token, row'.device)
    BY <1>2, <2>1 DEF PairsHold
  <2>3. Held(ws'.token, ws'.device)
    <3>1. CASE ws'.token = ws.token /\ ws'.device = ws.device
      BY <1>2, <3>1 DEF PairsHold
    <3>2. CASE ws'.token = NoToken
      BY <3>2 DEF Held, Fits
    <3>3. CASE /\ ref[Main].pc = "idle" /\ ws'.token = mem.token /\ ws'.device = mem.device
               /\ \A b \in Loops : ref[b].pc # "adopting"
      BY <1>2, <2>1, <3>3 DEF PairsHold, Refreshers
    <3> QED
      BY <1>6, <3>1, <3>2, <3>3 DEF Rounds
  <2>4. CASE Enter(Main, mem) /\ (main.pc = "ready" \/ ref[Main].pc = "idle")
    <3>1. ref[Main].pc = "idle"
      BY <2>4 DEF Kept, Quiet
    <3> QED
      BY <1>4, <2>1, <2>2, <2>3, <2>4, <3>1, MainRefreshes
  <2>5. CASE ref' = ref
    BY <1>2, <2>1, <2>2, <2>3, <2>5 DEF PairsHold, Fits, Held
  <2>6. CASE ref' = AllIdle /\ main'.pc = "ended"
    <3>1. \A b \in Refreshers : ref'[b].pc = "idle"
      BY <2>6, AllAreIdle
    <3> QED
      BY <1>2, <2>1, <2>2, <2>3, <2>6, <3>1 DEF PairsHold, Fits, Held
  <2> QED
    BY <1>6, <2>4, <2>5, <2>6 DEF Rounds
<1>7. CASE Start
  <2>1. UNCHANGED <<row, ref, sched, boundTo>> /\ main.pc = "ended"
    BY <1>7 DEF Start, platform
  <2>2. mem'.token = NoToken /\ ws'.token = NoToken
    BY <1>7 DEF Start, FreshMemory, Closed
  <2>3. \A b \in Refreshers : ref'[b].pc = "idle"
    BY <2>1, ActiveInTask DEF Active
  <2> QED
    BY <1>2, <2>1, <2>2, <2>3 DEF PairsHold, Fits, Held
<1>8. CASE Apart
  <2>1. UNCHANGED <<mem, ref, main, ws>>
    BY <1>8, ApartDoes
  <2>2. CASE Age \/ Invalidate \/ RenewalPick
    <3>1. row'.token = row.token /\ row'.device = row.device
      BY <1>1, <2>2 DEF Age, Invalidate, RenewalPick, Marked, RowSet
    <3>2. UNCHANGED boundTo /\ (sched' = sched \/ sched'.pc = "asking")
      BY <2>2 DEF Age, Invalidate, RenewalPick, apart, platform
    <3> QED
      BY <1>2, <2>1, <3>1, <3>2 DEF PairsHold, Fits, Held
  <2>3. CASE RenewalAnswer
    <3>1. UNCHANGED row
      BY <2>3 DEF RenewalAnswer
    <3>2. CASE sched' = Resting /\ UNCHANGED platform
      BY <1>2, <2>1, <3>1, <3>2 DEF Resting, platform, PairsHold, Fits, Held
    <3>3. CASE \E d \in world.devices :
                  Issue(d) /\ sched' = [pc |-> "writing", token |-> issued + 1, device |-> d]
      <4>1. PICK d \in world.devices :
              Issue(d) /\ sched' = [pc |-> "writing", token |-> issued + 1, device |-> d]
        BY <3>3
      <4>2. /\ boundTo'[issued + 1] = d
            /\ \A t \in Known : t <= issued /\ t # NoToken => boundTo'[t] = boundTo[t]
        BY <1>1, <4>1, IssueDoes, WorldDevices
      <4>3. sched'.token = issued + 1 /\ sched'.device = d
        BY <4>1
      <4>4. Fits(sched.token, sched.device)'
        BY <4>2, <4>3 DEF Fits
      <4>5. row.token \in Known /\ ws.token \in Known /\ mem.token \in Known
            /\ row.token <= issued /\ ws.token <= issued /\ mem.token <= issued
        BY <1>1 DEF Issues, RowSet, SocketSet, MemorySet
      <4>6. \A b \in Refreshers : ref[b].token \in Known /\ ref[b].token <= issued
        BY <1>1 DEF Issues, RefreshSet
      <4> QED
        BY <1>2, <2>1, <3>1, <4>2, <4>4, <4>5, <4>6 DEF PairsHold, Fits, Held
    <3> QED
      BY <2>3, <3>2, <3>3 DEF RenewalAnswer
  <2>4. CASE RenewalWrite
    <3>1. /\ row' = row \/ (row'.token = sched.token /\ row'.device = sched.device)
          /\ sched.pc = "writing" /\ sched'.pc = "idle" /\ UNCHANGED boundTo
      BY <1>1, <2>4 DEF RenewalWrite, RowSet, Resting, platform
    <3> QED
      BY <1>2, <2>1, <3>1 DEF PairsHold, Fits, Held
  <2> QED
    BY <1>8, <2>2, <2>3, <2>4 DEF Apart, Renewal
<1>9. CASE UNCHANGED vars
  BY <1>2, <1>9 DEF vars, caller, apart, platform, PairsHold, Fits, Held
<1> QED
  BY <1>1, <1>3, <1>5, <1>6, <1>7, <1>8, <1>9, NextSteps

LEMMA PairsInit == Init => Pairs
<1> SUFFICES ASSUME Init PROVE PairsHold
  BY DEF Pairs
<1>1. \A a \in Refreshers : ref[a].pc = "idle"
  BY DEF Init, Idle
<1>2. row.token = NoToken /\ mem.token = NoToken /\ ws.token = NoToken /\ sched.pc = "idle"
  BY DEF Init, NoRow, FreshMemory, Closed, Resting
<1> QED
  BY <1>1, <1>2 DEF PairsHold, Fits, Held

LEMMA AloneInit == Init => Alone
BY DEF Init, Alone, Active, Idle

Sound == Kept /\ Alone /\ Issues

LEMMA SoundHolds == Spec => []Sound
<1>1. Init => Sound
  BY InitKept, AloneInit, IssuesInit DEF Sound
<1>2. Sound /\ [Next]_vars => Sound'
  BY StepKeeps, AloneStep, IssuesStep DEF Sound, Kept
<1> QED
  BY <1>1, <1>2, PTL DEF Spec

(* Unless refreshes overlap or a registration falls between device and     *)
(* token, the cached row pairs every token with the device it was issued   *)
(* for, and so does the registration as long as no slider's refetch takes  *)
(* over a device without its token (_use_cached_token, refresh_token,      *)
(* write_renewed_token_cache, _request_captcha_url_sync).                  *)
THEOREM PairsAreKept == Spec => []PairKept
<1>1. Sound /\ Pairs /\ [Next]_vars => Pairs'
  BY PairsStep DEF Sound
<1>2. Pairs => PairKept
  BY DEF Pairs, PairsHold, Fits, Held, PairKept
<1> QED
  BY <1>1, <1>2, PairsInit, SoundHolds, PTL DEF Spec
-----------------------------------------------------------------------------
(* A start has one fallback: once an expired token was used it is gone,    *)
(* for the refreshes that come and for the one that is under way.          *)
FallbackGone ==
    "fallback" \in marks => ~mem.fallback /\ \A a \in Refreshers : Active(a) => ~ref[a].initial

LateIsInitial ==
    \A a \in Refreshers :
        ref[a].pc = "using" /\ ref[a].kind = "expired" /\ ref[a].slider = "off" => ref[a].initial

Fallback == "refreshes" \notin lapses => FallbackGone /\ LateIsInitial

LEMMA FallbackRefresh ==
    ASSUME Typed, Alone, "refreshes" \notin lapses, FallbackGone, LateIsInitial,
           NEW a \in Refreshers, Refresh(a)
    PROVE  FallbackGone' /\ LateIsInitial'
<1>1. /\ ref \in [Refreshers -> RefreshSet] /\ ws \in SocketSet /\ mem \in MemorySet
  BY DEF Typed, TypeOK
<1>2. /\ \A b \in Refreshers \ {a} : ref[b].pc = "idle" /\ ref'[b].pc = "idle"
      /\ Active(a)
  BY Solo, RefreshOthers
<1>3. "fallback" \in marks => ~mem.fallback /\ ~ref[a].initial
  BY <1>2 DEF FallbackGone
<1>4. ASSUME "fallback" \in marks' => ~mem'.fallback /\ (Active(a)' => ~ref'[a].initial),
             ref'[a].pc = "using" /\ ref'[a].kind = "expired" /\ ref'[a].slider = "off"
                => ref'[a].initial
      PROVE  FallbackGone' /\ LateIsInitial'
  BY <1>2, <1>4 DEF FallbackGone, LateIsInitial, Active
<1>5. CASE GivesUp(a)
  <2>1. PICK m \in MemorySet, e \in BOOLEAN :
          Alike(m) /\ m.fallback = mem.fallback /\ Done(a, m, e, ws)
    BY <1>5 DEF GivesUp
  <2>2. mem' = m /\ ref'[a].pc = "idle" /\ marks' = marks
    BY <1>5, <2>1, DoneDoes DEF GivesUp, apart
  <2> QED
    BY <1>3, <1>4, <2>1, <2>2 DEF Alike, Active
<1>6. CASE GoesOn(a)
  <2>1. PICK g \in RefreshSet : ref' = [ref EXCEPT ![a] = g] /\ g.pc # "using" /\ (g.initial => ref[a].initial)
    BY <1>6 DEF GoesOn
  <2>2. ref'[a] = g /\ marks' = marks /\ Alike(mem') /\ (mem'.fallback = mem.fallback \/ ~mem'.fallback)
    BY <1>1, <1>6, <2>1 DEF GoesOn, apart
  <2> QED
    BY <1>3, <1>4, <2>1, <2>2 DEF Alike
<1>7. CASE LookUp(a)
  <2>1. UNCHANGED <<mem, marks>> /\ (Validity # "expired" \/ ref[a].slider # "off" \/ ref[a].initial)
    BY <1>7 DEF LookUp, AnyAge, apart
  <2>2. ref'[a].kind = Validity /\ ref'[a].slider = ref[a].slider /\ ref'[a].initial = ref[a].initial
    BY <1>1, <1>7 DEF LookUp, RefreshSet
  <2> QED
    BY <1>3, <1>4, <2>1, <2>2
<1>8. CASE Use(a)
  <2>1. Late(a) => ref[a].initial
    BY <1>8, UseDoes DEF Late, LateIsInitial
  <2>2. /\ ref'[a].pc = "idle" /\ mem'.startup = Late(a)
        /\ marks' = IF Late(a) THEN marks \cup {"fallback"} ELSE marks
        /\ mem'.fallback <=> mem.fallback /\ ~(ref[a].slider = "off" /\ ref[a].initial)
    BY <1>8, UseDoes
  <2>3. "fallback" \in marks' => ~mem'.fallback
    BY <1>3, <2>1, <2>2 DEF Late
  <2> QED
    BY <1>4, <1>8, <2>1, <2>2, <2>3 DEF Active
<1>9. CASE AnswerToken(a) \/ Adopt(a)
  <2>1. marks' = marks /\ mem'.fallback = mem.fallback
    BY <1>1, <1>9 DEF AnswerToken, Adopt, MemorySet
  <2>2. ref'[a].pc # "using" /\ ref'[a].initial = ref[a].initial
    BY <1>1, <1>9 DEF AnswerToken, Adopt, RefreshSet
  <2> QED
    BY <1>3, <1>4, <2>1, <2>2
<1>10. CASE Store(a)
  <2>1. PICK m \in {mem, [mem EXCEPT !.inUse = ref[a].token]} : Done(a, m, enabled, ws)
    BY <1>10 DEF Store
  <2>2. m.fallback = mem.fallback
    BY <1>1, <2>1 DEF MemorySet
  <2>3. mem' = m /\ ref'[a].pc = "idle" /\ ("fallback" \in marks' => "fallback" \in marks)
    BY <1>10, <2>1, DoneDoes DEF Store
  <2> QED
    BY <1>3, <1>4, <2>2, <2>3 DEF Active
<1>11. CASE Delete(a)
  <2>1. marks' = marks
    BY <1>11 DEF Delete, apart
  <2>2. CASE Done(a, mem, enabled, ws)
    <3>1. mem' = mem /\ ref'[a].pc = "idle"
      BY <2>2, DoneDoes
    <3> QED
      BY <1>3, <1>4, <2>1, <3>1 DEF Active
  <2>3. CASE Again(a, ref[a].captcha + 1, 0)
    <3>1. mem'.fallback = mem.fallback
      BY <1>1, <2>3 DEF Again, MemorySet
    <3>2. ref'[a].pc = "setting" /\ ~ref'[a].initial
      BY <1>1, <2>3 DEF Again, Idle
    <3> QED
      BY <1>3, <1>4, <2>1, <3>1, <3>2
  <2> QED
    BY <1>11, <2>2, <2>3 DEF Delete
<1>12. CASE Refetch(a)
  <2>1. marks' = marks /\ mem'.fallback = mem.fallback /\ ref[a].pc = "solving"
    BY <1>1, <1>12, RefetchDoes DEF apart
  <2>2. ref'[a].pc = "solving" /\ ref'[a].initial = ref[a].initial
    BY <1>1, <1>12, <2>1, RefetchDoes
  <2> QED
    BY <1>3, <1>4, <2>1, <2>2
<1> QED
  BY <1>5, <1>6, <1>7, <1>8, <1>9, <1>10, <1>11, <1>12, RefreshSteps

LEMMA FallbackStep ==
    ASSUME Sound, Fallback, [Next]_vars
    PROVE  Fallback'
<1> SUFFICES ASSUME "refreshes" \notin lapses' PROVE FallbackGone' /\ LateIsInitial'
  BY DEF Fallback
<1>1. Typed /\ Alone /\ "refreshes" \notin lapses /\ FallbackGone /\ LateIsInitial
  BY LapsesGrow DEF Sound, Kept, Fallback
<1>2. CASE \E a \in Refreshers : Refresh(a)
  BY <1>1, <1>2, FallbackRefresh
<1>3. ASSUME NEW a \in Refreshers, Enter(a, mem), UNCHANGED marks
      PROVE  FallbackGone' /\ LateIsInitial'
  <2>1. /\ \A b \in Refreshers \ {a} : ref'[b].pc = "idle"
        /\ ref'[a].pc = "setting" /\ ref'[a].initial = mem.fallback /\ mem'.fallback = mem.fallback
    BY <1>1, <1>3, EnterDoes
  <2> QED
    BY <1>1, <1>3, <2>1 DEF FallbackGone, LateIsInitial, Active
<1>4. CASE \E a \in Loops : LoopRefresh(a)
  BY <1>3, <1>4, MainRefreshes DEF LoopRefresh, apart
<1>5. CASE Rounds
  <2>1. UNCHANGED marks /\ mem'.fallback = mem.fallback
    BY <1>5 DEF Rounds, apart
  <2>2. CASE ref' = ref
    BY <1>1, <2>1, <2>2 DEF FallbackGone, LateIsInitial, Active
  <2>3. CASE ref' = AllIdle
    BY <1>1, <2>1, <2>3, AllAreIdle DEF FallbackGone, LateIsInitial, Active
  <2> QED
    BY <1>3, <1>5, <2>1, <2>2, <2>3, MainRefreshes DEF Rounds
<1>6. CASE Start
  BY <1>1, <1>6 DEF Start, FallbackGone, LateIsInitial
<1>7. CASE Apart
  BY <1>1, <1>7, ApartDoes DEF FallbackGone, LateIsInitial, Active
<1>8. CASE UNCHANGED vars
  BY <1>1, <1>8 DEF vars, caller, apart, FallbackGone, LateIsInitial, Active
<1> QED
  BY <1>1, <1>2, <1>4, <1>5, <1>6, <1>7, <1>8, NextSteps

(* The fallback a start has for an expired token serves once, unless       *)
(* refreshes overlap: a refresh that takes an expired token after it has   *)
(* found the local slider disabled, or could not read that switch          *)
(* (refresh_token, _get_cached_token, _use_cached_token).                  *)
THEOREM FallbackUsedOnce == Spec => []FallbackOnce
<1>1. Init => Fallback
  BY DEF Init, Fallback, FallbackGone, LateIsInitial, Idle
<1>2. Sound /\ Fallback /\ [Next]_vars => Fallback'
  BY FallbackStep
<1>3. Fallback => FallbackOnce
  BY DEF Fallback, FallbackGone, LateIsInitial, Active, FallbackOnce
<1> QED
  BY <1>1, <1>2, <1>3, SoundHolds, PTL DEF Spec
-----------------------------------------------------------------------------
(* What a refresh that has looked at the row finds out cannot hit a valid  *)
(* token: the row is empty, has run out, or holds a token the scheduler    *)
(* put there, which no refresh has seen.                                   *)
Spent == row.token = NoToken \/ Validity = "expired" \/ row.token \notin seen

\* A token the scheduler is about to write is nowhere else.
Unborn ==
    sched.pc = "writing" =>
        /\ sched.token # NoToken /\ sched.token \notin seen /\ sched.token # row.token
        /\ \A a \in Refreshers :
             ref[a].pc \in {"using", "adopting"} => ref[a].token # sched.token

\* As long as the task has used no token the row is empty.
NoneUsed == mem.inUse = NoToken => row.token = NoToken

SparesHold ==
    /\ \A a \in Refreshers : PastLook(ref[a]) => Spent
    /\ Unborn
    /\ \A a \in Refreshers : ref[a].pc = "adopting" => ref[a].token # row.token
    /\ ~mem.fallback => NoneUsed
    /\ \A a \in Refreshers : Active(a) /\ (PastLook(ref[a]) \/ ~ref[a].initial) => NoneUsed
    /\ \A a \in Refreshers : ref[a].pc = "deleting" => ref[a].token = mem.inUse

Spares == lapses \subseteq {"refetch"} => SparesHold

LEMMA MarkedExpired ==
    ASSUME Typed
    PROVE  /\ Marked.token = row.token /\ Marked.expire = "past" /\ Marked.renew = "past"
           /\ row' = Marked => Validity' = "expired"
<1>1. Marked.token = row.token /\ Marked.expire = "past" /\ Marked.renew = "past"
  BY DEF Typed, TypeOK, RowSet, Marked
<1> QED
  BY <1>1 DEF Validity

LEMMA IdleNotPast ==
    \A f : f.pc = "idle" => ~PastLook(f) /\ f.pc \notin {"using", "adopting", "deleting"}
BY DEF PastLook

\* The row stays or is marked, and nobody has seen more.
LEMMA SpentStays ==
    ASSUME Typed, Spent, row' \in {row, Marked}, seen' = seen
    PROVE  Spent'
<1>1. CASE row' = row
  BY <1>1 DEF Spent, Validity
<1>2. CASE row' = Marked
  BY <1>2, MarkedExpired DEF Spent
<1> QED
  BY <1>1, <1>2

\* After a return nothing but the memory matters.
LEMMA SparesReturn ==
    ASSUME SparesHold, \A b \in Refreshers : ref'[b].pc = "idle", UNCHANGED sched,
           sched.pc = "writing" => sched.token \notin seen' /\ sched.token # row'.token,
           ~mem'.fallback => NoneUsed'
    PROVE  SparesHold'
<1>1. \A b \in Refreshers :
        ~PastLook(ref'[b]) /\ ref'[b].pc \notin {"using", "adopting", "deleting"}
  BY IdleNotPast
<1>2. Unborn'
  BY <1>1 DEF Unborn, SparesHold
<1> QED
  BY <1>1, <1>2 DEF SparesHold, Active

\* After a step of one refresh only it and the memory matter.
LEMMA SparesMove ==
    ASSUME SparesHold, NEW a \in Refreshers,
           \A b \in Refreshers \ {a} : ref'[b].pc = "idle", UNCHANGED sched,
           sched.pc = "writing" =>
               /\ sched.token \notin seen' /\ sched.token # row'.token
               /\ ref'[a].pc \in {"using", "adopting"} => ref'[a].token # sched.token,
           ref'[a].pc = "adopting" => ref'[a].token # row'.token,
           PastLook(ref'[a]) => Spent',
           ~mem'.fallback \/ PastLook(ref'[a]) \/ ~ref'[a].initial => NoneUsed',
           ref'[a].pc = "deleting" => ref'[a].token = mem'.inUse
    PROVE  SparesHold'
<1>1. \A b \in Refreshers \ {a} :
        ~PastLook(ref'[b]) /\ ref'[b].pc \notin {"using", "adopting", "deleting"}
  BY IdleNotPast
<1>2. Unborn'
  BY <1>1 DEF Unborn, SparesHold
<1> QED
  BY <1>1, <1>2 DEF SparesHold, Active

LEMMA SparesRefresh ==
    ASSUME Sound, SparesHold, lapses' \subseteq {"refetch"}, NEW a \in Refreshers, Refresh(a)
    PROVE  SparesHold'
<1>1. /\ ref \in [Refreshers -> RefreshSet] /\ ws \in SocketSet /\ row \in RowSet
      /\ mem \in MemorySet /\ sched \in RenewalSet /\ world \in World
      /\ Typed /\ Alone /\ Issues /\ SeenTokens
  BY DEF Sound, Kept, Typed, TypeOK
<1>2. /\ \A b \in Refreshers \ {a} : ref[b].pc = "idle" /\ ref'[b].pc = "idle"
      /\ Active(a)
  BY <1>1, Solo, RefreshOthers
<1>3. sched.pc = "writing" =>
        /\ sched.token # NoToken /\ sched.token \notin seen /\ sched.token # row.token
        /\ ref[a].pc \in {"using", "adopting"} => ref[a].token # sched.token
  BY DEF SparesHold, Unborn
<1>4. /\ PastLook(ref[a]) => Spent
      /\ ~mem.fallback \/ PastLook(ref[a]) \/ ~ref[a].initial => NoneUsed
      /\ ref[a].pc = "deleting" => ref[a].token = mem.inUse
      /\ ref[a].pc = "adopting" => ref[a].token # row.token
  BY <1>2 DEF SparesHold
<1>5. CASE GivesUp(a)
  <2>1. PICK m \in MemorySet, e \in BOOLEAN :
          Alike(m) /\ m.fallback = mem.fallback /\ Done(a, m, e, ws)
    BY <1>5 DEF GivesUp
  <2>2. mem' = m /\ ref'[a].pc = "idle" /\ UNCHANGED <<row, seen, sched>>
    BY <1>1, <1>5, <2>1, DoneDoes DEF GivesUp, apart
  <2>3. mem'.inUse = mem.inUse /\ mem'.fallback = mem.fallback
    BY <2>1, <2>2 DEF Alike
  <2>4. ~mem'.fallback => NoneUsed'
    BY <1>4, <2>2, <2>3 DEF NoneUsed
  <2> QED
    BY <1>2, <1>3, <2>2, <2>4, SparesReturn
<1>6. CASE GoesOn(a)
  <2>1. PICK g \in RefreshSet :
          /\ ref' = [ref EXCEPT ![a] = g]
          /\ g.pc \in {"setting", "looking", "logs", "asking", "login", "solving", "deleting"}
          /\ g.pc = "deleting" => g.token = mem.inUse
          /\ mem'.fallback = mem.fallback \/ (~mem'.fallback /\ row.token = NoToken)
          /\ PastLook(g) => PastLook(ref[a]) \/ row.token = NoToken \/ Validity = "expired"
                            \/ "lookup" \in lapses'
          /\ PastLook(g) \/ ~g.initial =>
                PastLook(ref[a]) \/ ~ref[a].initial \/ row.token = NoToken
    BY <1>6 DEF GoesOn
  <2>2. ref'[a] = g /\ UNCHANGED <<row, seen, sched>> /\ mem'.inUse = mem.inUse
    BY <1>1, <1>6, <2>1 DEF GoesOn, Alike, apart
  <2>3. PastLook(g) => Spent'
    BY <1>4, <2>1, <2>2 DEF Spent, Validity
  <2>4. ~mem'.fallback \/ PastLook(g) \/ ~g.initial => NoneUsed'
    BY <1>4, <2>1, <2>2 DEF NoneUsed
  <2> QED
    BY <1>2, <1>3, <2>1, <2>2, <2>3, <2>4, SparesMove
<1>7. CASE LookUp(a)
  <2>1. row'.token = row.token /\ UNCHANGED <<mem, seen, sched>> /\ ref[a].pc = "looking"
    BY <1>1, <1>7 DEF LookUp, RowSet, apart
  <2>2. /\ ref'[a].pc = "using" /\ ref'[a].token = row.token
        /\ ref'[a].initial = ref[a].initial
    BY <1>1, <1>7 DEF LookUp, RefreshSet
  <2>3. ~PastLook(ref'[a])
    BY <2>2 DEF PastLook
  <2>4. ~mem'.fallback \/ ~ref'[a].initial => NoneUsed'
    BY <1>4, <2>1, <2>2 DEF NoneUsed
  <2> QED
    BY <1>2, <1>3, <2>1, <2>2, <2>3, <2>4, SparesMove
<1>8. CASE Use(a)
  <2>1. /\ ref[a].pc = "using" /\ ref[a].token # NoToken /\ ref'[a].pc = "idle"
        /\ seen' = seen \cup {ref[a].token} /\ UNCHANGED <<row, sched>>
        /\ mem'.inUse = ref[a].token
    BY <1>1, <1>8, UseDoes
  <2> QED
    BY <1>2, <1>3, <2>1, SparesReturn DEF NoneUsed
<1>9. CASE AnswerToken(a)
  <2>1. PICK d \in world.devices : Issue(d) /\ mem' = [mem EXCEPT !.device = d]
    BY <1>9 DEF AnswerToken
  <2>2. /\ UNCHANGED <<row, sched, seen>> /\ ref[a].pc = "asking"
        /\ mem'.inUse = mem.inUse /\ mem'.fallback = mem.fallback
    BY <1>1, <1>9, <2>1 DEF AnswerToken, MemorySet
  <2>3. ref'[a].pc = "adopting" /\ ref'[a].token = issued + 1
    BY <1>1, <1>9 DEF AnswerToken, RefreshSet
  <2>4. issued \in Nat /\ row.token \in Nat /\ sched.token \in Nat
    BY <1>1 DEF Typed, TypeOK, RowSet, RenewalSet, Known
  <2>5. row.token # issued + 1 /\ sched.token # issued + 1
    BY <1>1, <2>4 DEF Issues
  <2>6. PastLook(ref[a])
    BY <2>2 DEF PastLook
  <2>7. Spent' /\ NoneUsed'
    BY <1>4, <2>2, <2>6 DEF Spent, Validity, NoneUsed
  <2> QED
    BY <1>2, <1>3, <2>2, <2>3, <2>5, <2>7, SparesMove
<1>10. CASE Adopt(a)
  <2>1. /\ UNCHANGED <<row, sched>> /\ seen' = seen \cup {ref[a].token}
        /\ ref[a].pc = "adopting" /\ mem'.inUse = mem.inUse /\ mem'.fallback = mem.fallback
    BY <1>1, <1>10 DEF Adopt, MemorySet
  <2>2. ref'[a].pc = "storing"
    BY <1>1, <1>10 DEF Adopt, RefreshSet
  <2>3. PastLook(ref[a])
    BY <2>1 DEF PastLook
  <2>4. Spent' /\ NoneUsed'
    BY <1>4, <2>1, <2>3 DEF Spent, Validity, NoneUsed
  <2> QED
    BY <1>2, <1>3, <2>1, <2>2, <2>4, SparesMove
<1>11. CASE Store(a)
  <2>1. ref[a].pc = "storing" /\ UNCHANGED <<sched, seen>>
    BY <1>11 DEF Store
  <2>2. ref[a].token # NoToken /\ ref[a].token \in seen
    BY <1>1, <2>1 DEF Typed, Bounds, SeenTokens
  <2>3. NoneUsed
    BY <1>4, <2>1 DEF PastLook
  <2>4. CASE row' = row /\ Done(a, mem, enabled, ws)
    <3>1. mem' = mem /\ ref'[a].pc = "idle"
      BY <1>1, <2>4, DoneDoes
    <3> QED
      BY <1>2, <1>3, <2>1, <2>3, <2>4, <3>1, SparesReturn DEF NoneUsed
  <2>5. CASE row'.token = ref[a].token /\ Done(a, [mem EXCEPT !.inUse = ref[a].token], enabled, ws)
    <3>1. mem' = [mem EXCEPT !.inUse = ref[a].token] /\ ref'[a].pc = "idle"
      BY <1>1, <2>5, DoneDoes
    <3>2. mem'.inUse = ref[a].token
      BY <1>1, <3>1 DEF MemorySet
    <3> QED
      BY <1>2, <1>3, <2>1, <2>2, <2>5, <3>1, <3>2, SparesReturn DEF NoneUsed
  <2> QED
    BY <1>11, <2>4, <2>5 DEF Store
<1>12. CASE Delete(a)
  <2>1. ref[a].pc = "deleting" /\ row' \in {row, Marked} /\ UNCHANGED <<sched, seen>>
    BY <1>12 DEF Delete, DeleteCached, apart
  <2>2. row'.token = row.token /\ Spent' /\ NoneUsed
    BY <1>1, <1>4, <2>1, MarkedExpired, SpentStays DEF PastLook
  <2>3. CASE Done(a, mem, enabled, ws)
    <3>1. mem' = mem /\ ref'[a].pc = "idle"
      BY <1>1, <2>3, DoneDoes
    <3> QED
      BY <1>2, <1>3, <2>1, <2>2, <3>1, SparesReturn DEF NoneUsed
  <2>4. CASE Again(a, ref[a].captcha + 1, 0)
    <3>1. mem'.inUse = mem.inUse
      BY <1>1, <2>4 DEF Again, MemorySet
    <3>2. ref'[a].pc = "setting"
      BY <1>1, <2>4 DEF Again, Idle
    <3> QED
      BY <1>2, <1>3, <2>1, <2>2, <3>1, <3>2, SparesMove DEF NoneUsed
  <2> QED
    BY <1>12, <2>3, <2>4 DEF Delete
<1>13. CASE Refetch(a)
  <2>1. UNCHANGED <<row, seen, sched>> /\ ref[a].pc = "solving"
        /\ mem'.inUse = mem.inUse /\ mem'.fallback = mem.fallback
    BY <1>1, <1>13, RefetchDoes DEF apart
  <2>2. ref'[a].pc = "solving"
    BY <1>1, <1>13, <2>1, RefetchDoes
  <2>3. PastLook(ref[a])
    BY <2>1 DEF PastLook
  <2>4. Spent' /\ NoneUsed'
    BY <1>4, <2>1, <2>3 DEF Spent, Validity, NoneUsed
  <2> QED
    BY <1>2, <1>3, <2>1, <2>2, <2>4, SparesMove
<1> QED
  BY <1>1, <1>5, <1>6, <1>7, <1>8, <1>9, <1>10, <1>11, <1>12, <1>13, RefreshSteps

\* The refreshes and the memory are left alone, the row may be marked.
LEMMA SparesRow ==
    ASSUME Typed, SparesHold, row' \in {row, Marked}, UNCHANGED <<sched, seen, ref>>,
           mem'.inUse = mem.inUse, mem'.fallback = mem.fallback
    PROVE  SparesHold'
<1>1. row'.token = row.token /\ (Spent => Spent')
  BY MarkedExpired, SpentStays
<1> QED
  BY <1>1 DEF SparesHold, Unborn, NoneUsed, Active

LEMMA SparesApart ==
    ASSUME Sound, SparesHold, Apart
    PROVE  SparesHold'
<1>1. /\ row \in RowSet /\ sched \in RenewalSet /\ Typed /\ Issues /\ issued \in Nat
  BY DEF Sound, Kept, Typed, TypeOK, Known
<1>2. UNCHANGED <<mem, ref, seen>>
  BY ApartDoes
<1>3. CASE Invalidate
  BY <1>1, <1>2, <1>3, SparesRow DEF Invalidate, apart
<1>4. CASE Age
  <2>1. row'.token = row.token /\ sched' = sched /\ Validity # "expired"
    BY <1>1, <1>4 DEF Age, RowSet, Validity, apart
  <2>2. Spent => Spent'
    BY <1>2, <2>1 DEF Spent
  <2> QED
    BY <1>2, <2>1, <2>2 DEF SparesHold, Unborn, NoneUsed, Active
<1>5. CASE RenewalPick
  <2>1. UNCHANGED row /\ sched'.pc = "asking"
    BY <1>5 DEF RenewalPick
  <2>2. Spent => Spent'
    BY <1>2, <2>1 DEF Spent, Validity
  <2> QED
    BY <1>2, <2>1, <2>2 DEF SparesHold, Unborn, NoneUsed, Active
<1>6. CASE RenewalAnswer
  <2>1. UNCHANGED row /\ (Spent => Spent')
    BY <1>2, <1>6 DEF RenewalAnswer, Spent, Validity
  <2>2. sched'.pc = "writing" => sched'.token = issued + 1
    BY <1>6 DEF RenewalAnswer, Resting
  <2>3. \A t \in Nat : t <= issued => t # issued + 1
    BY <1>1
  <2>4. /\ row.token \in Nat /\ row.token # issued + 1 /\ issued + 1 # NoToken
    BY <1>1, <2>3 DEF Issues, RowSet, Known, NoToken
  <2>5. seen \subseteq Nat /\ \A a \in Refreshers : ref[a].token \in Nat
    BY <1>1 DEF Typed, TypeOK, Tokens, RefreshSet, Known
  <2>6. issued + 1 \notin seen /\ \A a \in Refreshers : ref[a].token # issued + 1
    BY <1>1, <2>3, <2>5 DEF Issues
  <2> QED
    BY <1>2, <2>1, <2>2, <2>4, <2>6 DEF SparesHold, Unborn, NoneUsed, Active
<1>7. CASE RenewalWrite /\ row' = row
  <2>1. sched'.pc = "idle" /\ (Spent => Spent')
    BY <1>2, <1>7 DEF RenewalWrite, Resting, Spent, Validity
  <2> QED
    BY <1>2, <1>7, <2>1 DEF SparesHold, Unborn, NoneUsed, Active
<1>8. CASE RenewalWrite /\ Renewable
             /\ row' = [row EXCEPT !.token = sched.token, !.device = sched.device, !.renew = "fresh"]
  <2>1. row'.token = sched.token /\ sched.pc = "writing" /\ sched'.pc = "idle"
    BY <1>1, <1>8 DEF RenewalWrite, Resting, RowSet
  <2>2. sched.token \notin seen /\ \A a \in Refreshers : ref[a].pc = "adopting" => ref[a].token # sched.token
    BY <2>1 DEF SparesHold, Unborn
  <2>3. Spent' /\ (NoneUsed => mem.inUse # NoToken)
    BY <1>2, <1>8, <2>1, <2>2 DEF Spent, NoneUsed, Renewable
  <2> QED
    BY <1>2, <2>1, <2>2, <2>3 DEF SparesHold, Unborn, NoneUsed, Active
<1> QED
  BY <1>3, <1>4, <1>5, <1>6, <1>7, <1>8 DEF Apart, Renewal, RenewalWrite

LEMMA SparesStep ==
    ASSUME Sound, Spares, [Next]_vars
    PROVE  Spares'
<1> SUFFICES ASSUME lapses' \subseteq {"refetch"} PROVE SparesHold'
  BY DEF Spares
<1>1. Typed /\ Alone /\ Kept
  BY DEF Sound, Kept
<1>2. lapses \subseteq {"refetch"} /\ SparesHold
  BY <1>1, LapsesGrow DEF Spares
<1>3. CASE \E a \in Refreshers : Refresh(a)
  BY <1>2, <1>3, SparesRefresh
<1>4. ASSUME NEW a \in Refreshers, Enter(a, mem), UNCHANGED <<sched, seen>>, row' \in {row, Marked}
      PROVE  SparesHold'
  <2>1. /\ \A b \in Refreshers \ {a} : ref'[b].pc = "idle"
        /\ ref'[a].pc = "setting" /\ ref'[a].initial = mem.fallback
        /\ ref'[a].captcha = 0 /\ ref'[a].expiry = 0
        /\ mem'.fallback = mem.fallback /\ mem'.inUse = mem.inUse
    BY <1>1, <1>2, <1>4, EnterDoes DEF Alike
  <2>2. ~PastLook(ref'[a]) /\ row'.token = row.token
    BY <1>1, <1>4, <2>1, MarkedExpired DEF PastLook
  <2>3. ~mem.fallback => NoneUsed'
    BY <1>2, <2>1, <2>2 DEF SparesHold, NoneUsed
  <2>4. sched.pc = "writing" => sched.token \notin seen' /\ sched.token # row'.token
    BY <1>2, <1>4, <2>2 DEF SparesHold, Unborn
  <2> QED
    BY <1>2, <1>4, <2>1, <2>2, <2>3, <2>4, SparesMove
<1>5. CASE \E a \in Loops : LoopRefresh(a)
  BY <1>4, <1>5, MainRefreshes DEF LoopRefresh, apart
<1>6. CASE Rounds
  <2>1. /\ UNCHANGED <<sched, seen>> /\ row' \in {row, Marked}
        /\ mem'.inUse = mem.inUse /\ mem'.fallback = mem.fallback
    BY <1>6 DEF Rounds, apart
  <2>2. CASE ref' = AllIdle
    <3>1. \A b \in Refreshers : ref'[b].pc = "idle"
      BY <2>2, AllAreIdle
    <3>2. row'.token = row.token
      BY <1>1, <2>1, MarkedExpired
    <3> QED
      BY <1>2, <2>1, <3>1, <3>2, SparesReturn DEF SparesHold, Unborn, NoneUsed
  <2> QED
    BY <1>1, <1>2, <1>4, <1>6, <2>1, <2>2, SparesRow, MainRefreshes DEF Rounds
<1>7. CASE Start
  <2>1. UNCHANGED <<row, ref, sched, seen>> /\ main.pc = "ended" /\ mem'.fallback = TRUE
    BY <1>7 DEF Start, FreshMemory
  <2>2. \A b \in Refreshers : ref'[b].pc = "idle"
    BY <1>1, <2>1, ActiveInTask DEF Active
  <2> QED
    BY <1>2, <2>1, <2>2, SparesReturn DEF SparesHold, Unborn
<1>8. CASE Apart
  BY <1>2, <1>8, SparesApart
<1>9. CASE UNCHANGED vars
  BY <1>1, <1>2, <1>9, SparesRow DEF vars, apart
<1> QED
  BY <1>1, <1>3, <1>5, <1>6, <1>7, <1>8, <1>9, NextSteps

LEMMA SparesInit == Init => Spares
<1> SUFFICES ASSUME Init PROVE SparesHold
  BY DEF Spares
<1>1. \A a \in Refreshers : ref[a].pc = "idle"
  BY DEF Init, Idle
<1>2. row.token = NoToken /\ sched.pc = "idle"
  BY DEF Init, NoRow, Resting
<1> QED
  BY <1>1, <1>2, IdleNotPast DEF SparesHold, Unborn, NoneUsed, Active

\* The step of a refresh that leaves the row marked.
LEMMA MarkingRefresh ==
    ASSUME Sound, SparesHold, NEW a \in Refreshers, Refresh(a), row' = Marked, row' # row
    PROVE  Validity = "expired"
<1>1. /\ row \in RowSet /\ Typed /\ SeenTokens /\ mem \in MemorySet
  BY DEF Sound, Kept, Typed, TypeOK
<1>2. ~LookUp(a)
  <2> SUFFICES ASSUME LookUp(a) PROVE FALSE
    OBVIOUS
  <2>1. Validity = "renewed" /\ row' = [row EXCEPT !.expire = row.renew, !.renew = "past"]
    BY DEF LookUp
  <2>2. row'.expire = row.renew /\ row.renew # "past"
    BY <1>1, <2>1 DEF RowSet, Validity
  <2> QED
    BY <1>1, <2>2, MarkedExpired
<1>3. ~Store(a)
  <2>1. Store(a) => row' = row \/ row'.expire = "fresh"
    BY DEF Store
  <2> QED
    BY <1>1, <2>1, MarkedExpired
<1>4. Delete(a)
  BY <1>1, <1>2, <1>3, RefreshSteps DEF GivesUp, GoesOn, Refetch, Use, AnswerToken, Adopt
<1>5. /\ ref[a].pc = "deleting" /\ Hits([token |-> ref[a].token, device |-> ref[a].device])
  BY <1>4 DEF Delete, DeleteCached
<1>6. ref[a].token \in seen \cup {NoToken} /\ ref[a].token = mem.inUse /\ Spent /\ NoneUsed
  BY <1>1, <1>5 DEF SeenTokens, SparesHold, PastLook, Active
<1>7. row.token # NoToken /\ row.token \in seen
  BY <1>5, <1>6 DEF Hits, NoneUsed
<1> QED
  BY <1>6, <1>7 DEF Spent

LEMMA FailuresSpare ==
    ASSUME Sound, Spares, Next, lapses \subseteq {"refetch"}, main.pc \notin {"failing", "relogin"},
           ref' # ref, row' = Marked
    PROVE  Validity = "expired"
<1>1. Typed /\ SparesHold
  BY DEF Sound, Kept, Spares
<1>2. CASE row' = row
  BY <1>1, <1>2, MarkedExpired DEF Validity
<1>3. CASE row' # row
  <2>1. ~Start /\ ~Apart /\ \A a \in Loops : ~LoopRefresh(a)
    BY <1>3, ApartDoes DEF Start, LoopRefresh
  <2>2. ~Round /\ ~Stop
    BY <1>3 DEF Round, Stop, ReadState, Proceed, Connect, Register, Join, CloseNormally, Drop,
                Fail, Relogin
  <2>3. PICK a \in Refreshers : Refresh(a)
    BY <2>1, <2>2 DEF Next, Apart
  <2> QED
    BY <1>1, <1>3, <2>3, MarkingRefresh
<1> QED
  BY <1>2, <1>3

(* A refresh that fails costs no valid token: unless refreshes overlap or  *)
(* the row could not be read, what it marks had run out                    *)
(* (refresh_token, _delete_cached_token).                                  *)
THEOREM FailuresSpareTokens == Spec => FailuresSpareValid
<1>1. Sound /\ Spares /\ [Next]_vars => Spares'
  BY SparesStep
<1>2. ASSUME Sound, Spares, [Next]_vars
      PROVE  [(/\ lapses \subseteq {"refetch"} /\ main.pc \notin {"failing", "relogin"}
               /\ ref' # ref /\ row' = Marked)
                 => Validity = "expired"]_vars
  BY <1>2, FailuresSpare
<1> QED
  BY <1>1, <1>2, SparesInit, SoundHolds, PTL DEF Spec, FailuresSpareValid
=============================================================================
