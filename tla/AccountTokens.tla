----------------------------- MODULE AccountTokens -----------------------------
(***************************************************************************)
(* The token an account registers its connection with: the rounds of       *)
(* XianyuAsync.main, CookieTokenManager.refresh_token as main and the      *)
(* loops beside it call it, the cached row in the database, and the        *)
(* scheduler's task that fetches the next token ahead of time.             *)
(*                                                                         *)
(* Nothing keeps two refreshes of one instance apart.  They take turns at  *)
(* their awaits; each place of a refresh is an await in it.  A refresh     *)
(* that calls itself again is the same refresh at an earlier place.        *)
(*                                                                         *)
(* A token is the number of its issue, a time to live one of fresh, soon   *)
(* (due within the hour the scheduler looks ahead) and past.  The value of *)
(* the cookie, proxies, notifications and the length of waits are left     *)
(* out.                                                                    *)
(***************************************************************************)
EXTENDS Naturals, FiniteSets

CONSTANTS Main, Loops,          \* who refreshes: main and the loops beside it
          Devices,
          Worlds,               \* what may happen around the task, see World
          CaptchaLimit, TokenLimit, ConnectionLimit, ShortLimit,
          MaxTokens             \* bound: tokens ever issued

Refreshers == {Main} \cup Loops
NoToken == 0
Tokens == 1 .. MaxTokens

World == [beside : BOOLEAN,                 \* do the loops refresh?
          switch : SUBSET {"on", "off"},    \* values of captcha.local_slider_disabled
          answers : SUBSET {"refused", "timeout", "session", "captcha", "expired"},
                                            \* what the token API may say besides a token
          logins : SUBSET {"renewed", "missing", "cooling", "wrong", "failed"},
          faults : BOOLEAN,                 \* may the database fail?
          busy : BOOLEAN,                   \* may another process work on a captcha of the
                                            \* account, or a message have just come?
          renews : BOOLEAN,                 \* does the scheduler renew?
          devices : SUBSET Devices \ {{}},  \* device ids starts and answers come with
          refetches : SUBSET Devices,       \* and those a slider may be given
          starts : Nat]                     \* bound: starts of the account's task

ASSUME TokensAssumption ==
    /\ Main \notin Loops
    /\ Devices # {}
    /\ Worlds \subseteq World
    /\ {CaptchaLimit, TokenLimit, ConnectionLimit, ShortLimit} \subseteq Nat \ {0}
    /\ MaxTokens \in Nat

VARIABLES world,     \* what may happen in this behaviour; never changes
          enabled,   \* status of the account in the database
          row,       \* xy_token_cache
          mem,       \* what the instance keeps: token, device, ...
          ref,       \* the refresh of each refresher
          main,      \* the round main is in, and its counters
          ws,        \* the connection: what it registered with
          sched,     \* the scheduler's renewal
          issued,    \* tokens issued so far
          boundTo,   \* the device each token was issued for
          lapses,    \* history: refreshes that overlapped, a registration between
                     \* device and token, a lookup of the row that failed, a device
                     \* changed under a token
          seen,      \* history: tokens the account's task has taken over
          marks      \* history: this start has used an expired token, has failed to
                     \* write the row

platform == <<world, issued, boundTo>>
apart == <<sched, platform, seen, marks>>
caller == <<enabled, main, ws, lapses>>    \* changed only by a return
vars == <<row, mem, ref, caller, apart>>
-----------------------------------------------------------------------------
Ages == {"fresh", "soon", "past"}
Due == {"soon", "past"}

NoRow == [token |-> NoToken, device |-> CHOOSE d \in Devices : TRUE,
          expire |-> "past", renew |-> "past"]

(* XianyuAsync.__init__, CookieTokenManager.__init__                       *)
FreshMemory(d) == [token |-> NoToken, device |-> d, inUse |-> NoToken,
                   startup |-> FALSE, fallback |-> TRUE, status |-> "none"]
Idle == [pc |-> "idle", slider |-> "off", initial |-> FALSE, captcha |-> 0, expiry |-> 0,
         token |-> NoToken, device |-> CHOOSE d \in Devices : TRUE, kind |-> "none",
         again |-> FALSE]
Resting == [pc |-> "idle", token |-> NoToken, device |-> CHOOSE d \in Devices : TRUE]
Closed == [open |-> "no", token |-> NoToken, device |-> CHOOSE d \in Devices : TRUE]
FirstRound(n) == [pc |-> "checking", up |-> FALSE, tokenFails |-> 0, connFails |-> 0,
                  netFails |-> 0, shorts |-> 0, quick |-> FALSE, victim |-> NoToken,
                  device |-> CHOOSE d \in Devices : TRUE, starts |-> n]

Init ==
    /\ world \in Worlds
    /\ enabled = TRUE
    /\ \E d \in world.devices : mem = FreshMemory(d)
    /\ ws = Closed
    /\ row = NoRow
    /\ ref = [a \in Refreshers |-> Idle]
    /\ main = FirstRound(1)
    /\ sched = Resting
    /\ issued = 0
    /\ boundTo = [t \in Tokens |-> mem.device]
    /\ lapses = {} /\ seen = {} /\ marks = {}
-----------------------------------------------------------------------------
(* The row.  No renewal, one that is over and one that has been promoted   *)
(* come to the same; the renewal is always the later of the two.           *)

(* classify_token_cache_validity                                           *)
Validity == CASE row.expire # "past" -> "current"
              [] row.expire = "past" /\ row.renew # "past" -> "renewed"
              [] OTHER -> "expired"

\* Seeded fault: the expected token is not looked at.
HitsDevice(v) == row.token # NoToken /\ row.device = v.device

(* mark_token_cache_expired with an expected token, or without one         *)
Hits(v) == /\ row.token # NoToken
           /\ row.device = v.device
           /\ \/ v.token # NoToken /\ row.token = v.token
              \/ v.token = NoToken /\ row.expire = "past"
Marked == [row EXCEPT !.expire = "past", !.renew = "past"]
DeleteCached(v) == \/ row' = IF Hits(v) THEN Marked ELSE row
                   \/ world.faults /\ row' = row

Older(age) == IF age = "fresh" THEN "soon" ELSE "past"

Age ==
    /\ row.token # NoToken
    /\ \/ row.expire # "past" /\ row' = [row EXCEPT !.expire = Older(row.expire)]
       \/ /\ row.expire = "past" /\ row.renew # "past"
          /\ row' = [row EXCEPT !.renew = Older(row.renew)]
    /\ UNCHANGED <<mem, ref, caller, apart>>
-----------------------------------------------------------------------------
(* A refresh begins and ends.                                              *)

Other(a) == \E b \in Refreshers \ {a} : ref[b].pc # "idle"

(* refresh_token, up to its first await; m is the memory it finds          *)
Enter(a, m) ==
    /\ ref' = [ref EXCEPT ![a] = [Idle EXCEPT !.pc = "setting", !.initial = m.fallback]]
    /\ mem' = [m EXCEPT !.status = "started"]
    /\ lapses' = IF Other(a) THEN lapses \cup {"refreshes"} ELSE lapses

Again(a, captcha, expiry) ==
    /\ ref' = [ref EXCEPT ![a] = [Idle EXCEPT !.pc = "setting", !.captcha = captcha,
                                              !.expiry = expiry]]
    /\ mem' = [mem EXCEPT !.status = "started"]
    /\ UNCHANGED caller

(* What _cancel_background_tasks leaves                                    *)
Ended(r) == [r EXCEPT !.pc = "ended"]
AllIdle == [a \in Refreshers |-> Idle]

\* Seeded fault: the failure is not counted.
FailedUncounted(m) == \E quick \in BOOLEAN :
    main' = [main EXCEPT !.pc = "failing", !.quick = quick,
                         !.victim = m.inUse, !.device = m.device]

(* main's except branch for a connection that never came to be             *)
Failed(m) == \E quick \in BOOLEAN :
    main' = [main EXCEPT !.pc = "failing", !.connFails = @ + 1, !.quick = quick,
                         !.victim = m.inUse, !.device = m.device]

(* init: the registration is sent with token and device as they are now,   *)
(* or the connection is gone                                               *)
SendReg(m, w) ==
    \/ /\ w.open = "yes"
       /\ main' = [main EXCEPT !.pc = "joining"]
       /\ ws' = [w EXCEPT !.token = m.token, !.device = m.device]
       /\ lapses' = IF \E b \in Loops : ref[b].pc = "adopting"
                      THEN lapses \cup {"registration"} ELSE lapses
    \/ /\ Failed(m)
       /\ ws' = Closed
       /\ UNCHANGED lapses

(* main looks, without a token, at the status its refresh left             *)
Count(m, e) ==
    LET n == main.tokenFails + (IF m.status = "excused" THEN 0 ELSE 1) IN
    IF n < TokenLimit
      THEN /\ main' = [main EXCEPT !.pc = "checking", !.tokenFails = n]
           /\ ref' = [ref EXCEPT ![Main] = Idle]
           /\ enabled' = e
      ELSE main' = Ended(main) /\ ref' = AllIdle /\ enabled' = FALSE

(* The refresh of a returns to its caller, with memory m; the account is   *)
(* then as e says and the connection as w says.                            *)
Done(a, m, e, w) ==
    /\ mem' = m
    /\ \/ /\ a # Main
          /\ ref' = [ref EXCEPT ![a] = Idle] /\ enabled' = e /\ ws' = w
          /\ UNCHANGED <<main, lapses>>
       \/ /\ a = Main /\ main.pc = "fetching" /\ m.token = NoToken
          /\ Count(m, e) /\ ws' = w
          /\ UNCHANGED lapses
       \/ /\ a = Main /\ main.pc = "fetching" /\ m.token # NoToken
          /\ ref' = [ref EXCEPT ![a] = Idle] /\ enabled' = e /\ ws' = w
          /\ main' = [main EXCEPT !.pc = "connecting"]
          /\ UNCHANGED lapses
       \/ /\ a = Main /\ main.pc = "opening"
          /\ ref' = [ref EXCEPT ![a] = Idle] /\ enabled' = e
          /\ IF m.token # NoToken
               THEN SendReg(m, w)
               ELSE Failed(m) /\ ws' = Closed /\ UNCHANGED lapses
-----------------------------------------------------------------------------
(* The steps of a refresh.                                                 *)

\* Seeded fault: only the first refresh of a start looks at the row.
ReadSwitchAtStart(a) ==
    /\ ref[a].pc = "setting"
    /\ \E s \in world.switch \cup (IF world.faults THEN {"unknown"} ELSE {}) :
          ref' = [ref EXCEPT ![a].slider = s,
                    ![a].pc = IF s # "off" \/ ref[a].initial THEN "looking" ELSE "logs"]
    /\ UNCHANGED <<row, mem, caller, apart>>

(* _is_local_slider_disabled                                               *)
ReadSwitch(a) ==
    /\ ref[a].pc = "setting"
    /\ \E s \in world.switch \cup (IF world.faults THEN {"unknown"} ELSE {}) :
          ref' = [ref EXCEPT ![a].slider = s,
                    ![a].pc = IF s # "off" \/ (ref[a].captcha = 0 /\ ref[a].expiry = 0)
                                THEN "looking" ELSE "logs"]
    /\ UNCHANGED <<row, mem, caller, apart>>

AnyAge(f) == f.slider # "off" \/ f.initial

\* Seeded fault: the one fallback of a start is not used up.
LookedOnce(f, m) == m

(* A lookup that has been answered uses up the start's one fallback.       *)
Looked(f, m) == [m EXCEPT !.fallback = @ /\ ~(f.slider = "off" /\ f.initial)]

(* _get_cached_token: the row is locked, read and, if renewed, promoted    *)
LookUp(a) ==
    LET f == ref[a] IN
    /\ f.pc = "looking"
    /\ row.token # NoToken
    /\ Validity # "expired" \/ AnyAge(f)
    /\ row' = IF Validity = "renewed"
                 THEN [row EXCEPT !.expire = row.renew, !.renew = "past"] ELSE row
    /\ ref' = [ref EXCEPT ![a].pc = "using", ![a].token = row.token,
                          ![a].device = row.device, ![a].kind = Validity]
    /\ UNCHANGED <<mem, caller, apart>>

LookUpInVain(a) ==
    LET f == ref[a] IN
    /\ f.pc = "looking"
    /\ row.token = NoToken \/ (Validity = "expired" /\ ~AnyAge(f))
    /\ \/ /\ f.slider = "unknown"
          /\ Done(a, [mem EXCEPT !.token = NoToken, !.status = "excused"], enabled, ws)
       \/ /\ f.slider # "unknown"
          /\ ref' = [ref EXCEPT ![a].pc = "logs"]
          /\ mem' = Looked(f, mem)
          /\ UNCHANGED caller
    /\ UNCHANGED <<row, apart>>

LookUpFails(a) ==
    LET f == ref[a] IN
    /\ f.pc = "looking" /\ world.faults
    /\ \/ AnyAge(f) /\ Done(a, [mem EXCEPT !.status = "excused"], enabled, ws)
       \/ /\ ~AnyAge(f)
          /\ ref' = [ref EXCEPT ![a].pc = "logs"]
          /\ lapses' = lapses \cup {"lookup"}
          /\ UNCHANGED <<mem, enabled, main, ws>>
    /\ UNCHANGED <<row, apart>>

\* Seeded fault: the connection is left alone.
ReconnectNever(kind) == ws

(* _reconnect_websocket_for_renewed_token: main is to connect again        *)
Reconnect(kind) == IF kind = "renewed" /\ ws.open = "yes"
                     THEN [ws EXCEPT !.open = "closing"] ELSE ws

(* _use_cached_token                                                       *)
Use(a) ==
    LET f == ref[a]
        late == f.kind = "expired" /\ f.slider = "off"
        used == [mem EXCEPT !.token = f.token, !.device = f.device, !.inUse = f.token,
                   !.startup = late,
                   !.status = IF f.kind = "renewed" THEN "renewal" ELSE "success"] IN
    /\ f.pc = "using"
    /\ Done(a, Looked(f, used), enabled, Reconnect(f.kind))
    /\ seen' = seen \cup {f.token}
    /\ marks' = IF late THEN marks \cup {"fallback"} ELSE marks
    /\ UNCHANGED <<row, sched, platform>>

Solving == \E a \in Refreshers : ref[a].pc = "solving"

(* _get_processing_risk_control_skip_result, the limit of the captchas and *)
(* the pause after a message                                               *)
CheckLogs(a) ==
    LET f == ref[a] IN
    /\ f.pc = "logs"
    /\ \/ /\ Solving \/ world.busy \/ world.faults \/ f.captcha >= CaptchaLimit
          /\ Done(a, [mem EXCEPT !.status = "excused"], enabled, ws)
       \/ /\ ~Solving /\ f.captcha < CaptchaLimit
          /\ ref' = [ref EXCEPT ![a].pc = "asking"]
          /\ UNCHANGED <<mem, caller>>
    /\ UNCHANGED <<row, apart>>

(* The next token, for a device                                            *)
Issue(d) ==
    /\ issued < MaxTokens
    /\ issued' = issued + 1
    /\ boundTo' = [boundTo EXCEPT ![issued + 1] = d]
    /\ UNCHANGED world

\* Seeded fault: the device of the answer is not kept.
AnswerTokenOnly(a) ==
    /\ ref[a].pc = "asking"
    /\ \E d \in world.devices : Issue(d)
    /\ ref' = [ref EXCEPT ![a].pc = "adopting", ![a].token = issued + 1]
    /\ UNCHANGED <<row, mem, caller, sched, seen, marks>>

(* request_im_token_with_fallback answers with a token.  The device is     *)
(* taken over before the cookies that came along are stored, the token     *)
(* after.                                                                  *)
AnswerToken(a) ==
    /\ ref[a].pc = "asking"
    /\ \E d \in world.devices :
          /\ Issue(d)
          /\ mem' = [mem EXCEPT !.device = d]
    /\ ref' = [ref EXCEPT ![a].pc = "adopting", ![a].token = issued + 1]
    /\ UNCHANGED <<row, caller, sched, seen, marks>>

Adopt(a) ==
    /\ ref[a].pc = "adopting"
    /\ mem' = [mem EXCEPT !.token = ref[a].token, !.startup = FALSE, !.status = "success"]
    /\ ref' = [ref EXCEPT ![a].pc = "storing", ![a].device = mem.device]
    /\ seen' = seen \cup {ref[a].token}
    /\ UNCHANGED <<row, caller, sched, platform, marks>>

(* _set_cached_token                                                       *)
Store(a) ==
    LET f == ref[a] IN
    /\ f.pc = "storing"
    /\ \/ /\ row' = [token |-> f.token, device |-> f.device, expire |-> "fresh", renew |-> "past"]
          /\ Done(a, [mem EXCEPT !.inUse = f.token], enabled, ws)
          /\ UNCHANGED marks
       \/ /\ world.faults /\ row' = row
          /\ Done(a, mem, enabled, ws)
          /\ marks' = marks \cup {"unstored"}
    /\ UNCHANGED <<sched, platform, seen>>

(* The cached row is to be marked; the arguments are read at once.         *)
Deleting(a, m, again, e) ==
    /\ mem' = m /\ enabled' = e
    /\ ref' = [ref EXCEPT ![a].pc = "deleting", ![a].token = m.inUse, ![a].device = m.device,
                          ![a].again = again]
    /\ UNCHANGED <<main, ws, lapses>>

NoTokenAs(status) == [mem EXCEPT !.token = NoToken, !.status = status]

AnswerTimeout(a) ==
    /\ ref[a].pc = "asking" /\ "timeout" \in world.answers
    /\ Done(a, NoTokenAs("failed"), enabled, ws)
    /\ UNCHANGED <<row, apart>>

AnswerRefused(a) ==
    /\ ref[a].pc = "asking"
    /\ \/ "refused" \in world.answers
       \/ "expired" \in world.answers /\ ref[a].expiry = 1
    /\ Deleting(a, NoTokenAs("failed"), FALSE, enabled)
    /\ UNCHANGED <<row, apart>>

AnswerExpired(a) ==
    /\ ref[a].pc = "asking" /\ "expired" \in world.answers /\ ref[a].expiry = 0
    /\ Again(a, ref[a].captcha, 1)
    /\ UNCHANGED <<row, apart>>

AnswerSession(a) ==
    /\ ref[a].pc = "asking" /\ "session" \in world.answers
    /\ ref' = [ref EXCEPT ![a].pc = "login"]
    /\ UNCHANGED <<row, mem, caller, apart>>

(* handle_captcha_verification, up to the slider                           *)
AnswerCaptcha(a) ==
    /\ ref[a].pc = "asking" /\ "captcha" \in world.answers
    /\ \/ /\ ref[a].slider = "on"
          /\ Done(a, NoTokenAs("excused"), enabled, ws)
       \/ /\ ref[a].slider # "on" /\ Solving
          /\ Done(a, [mem EXCEPT !.status = "excused"], enabled, ws)
       \/ /\ ref[a].slider # "on" /\ world.faults
          /\ Done(a, [mem EXCEPT !.status = "failed"], enabled, ws)
       \/ /\ ref[a].slider # "on" /\ world.busy
          /\ Deleting(a, NoTokenAs("excused"), FALSE, enabled)
       \/ /\ ref[a].slider # "on" /\ ~Solving
          /\ ref' = [ref EXCEPT ![a].pc = "solving"]
          /\ UNCHANGED <<mem, caller>>
    /\ UNCHANGED <<row, apart>>

(* The slider asks for a fresh link, once per captcha, and is given a      *)
(* token by the remote service (_request_captcha_url_sync,                 *)
(* _try_remote_token_fallback): its device is kept, the token is not.      *)
Refetch(a) ==
    /\ ref[a].pc = "solving" /\ ~ref[a].again
    /\ ref' = [ref EXCEPT ![a].again = TRUE]
    /\ \E d \in world.refetches :
          /\ mem' = [mem EXCEPT !.device = d]
          /\ lapses' = IF mem.token # NoToken /\ d # mem.device
                         THEN lapses \cup {"refetch"} ELSE lapses
    /\ UNCHANGED <<row, enabled, main, ws, apart>>

(* handle_captcha_verification, after the slider                           *)
Solved(a) ==
    /\ ref[a].pc = "solving"
    /\ \/ Deleting(a, mem, TRUE, enabled)
       \/ Deleting(a, NoTokenAs("excused"), FALSE, enabled)
    /\ UNCHANGED <<row, apart>>

(* try_password_login_refresh, as refresh_token calls it                   *)
LogIn(a) ==
    /\ ref[a].pc = "login"
    /\ \/ "renewed" \in world.logins /\ Deleting(a, mem, TRUE, enabled)
       \/ "missing" \in world.logins /\ Done(a, mem, FALSE, ws)
       \/ "cooling" \in world.logins /\ Deleting(a, NoTokenAs("excused"), FALSE, enabled)
       \/ "failed" \in world.logins /\ Deleting(a, NoTokenAs("failed"), FALSE, enabled)
       \/ "wrong" \in world.logins /\ Deleting(a, NoTokenAs("failed"), FALSE, FALSE)
    /\ UNCHANGED <<row, apart>>

Delete(a) ==
    LET f == ref[a] IN
    /\ f.pc = "deleting"
    /\ DeleteCached([token |-> f.token, device |-> f.device])
    /\ IF f.again THEN Again(a, f.captcha + 1, 0) ELSE Done(a, mem, enabled, ws)
    /\ UNCHANGED apart
-----------------------------------------------------------------------------
(* The rounds of main.                                                     *)

End == main' = Ended(main) /\ ref' = AllIdle /\ ws' = Closed

(* The status is read; a status that cannot be read passes for active.     *)
ReadState ==
    /\ main.pc = "checking"
    /\ \/ (enabled \/ world.faults) /\ main' = [main EXCEPT !.pc = "ready"] /\ UNCHANGED <<ref, ws>>
       \/ ~enabled /\ End
    /\ UNCHANGED <<row, mem, enabled, lapses, apart>>

(* A token from an earlier round is used again, and clears the count.      *)
Proceed ==
    /\ main.pc = "ready"
    /\ \/ /\ mem.token = NoToken
          /\ Enter(Main, mem)
          /\ main' = [main EXCEPT !.pc = "fetching"]
       \/ /\ mem.token # NoToken
          /\ main' = [main EXCEPT !.pc = "connecting", !.tokenFails = 0]
          /\ UNCHANGED <<mem, ref, lapses>>
    /\ UNCHANGED <<row, enabled, ws, apart>>

Connect ==
    /\ main.pc = "connecting"
    /\ \/ /\ main' = [main EXCEPT !.pc = "opening"]
          /\ ws' = [Closed EXCEPT !.open = "yes"]
       \/ Failed(mem) /\ UNCHANGED ws
    /\ UNCHANGED <<row, mem, ref, enabled, lapses, apart>>

Register ==
    /\ main.pc = "opening" /\ ref[Main].pc = "idle"
    /\ \/ /\ mem.token = NoToken
          /\ Enter(Main, mem)
          /\ UNCHANGED <<main, ws>>
       \/ /\ mem.token # NoToken
          /\ SendReg(mem, ws)
          /\ UNCHANGED <<mem, ref>>
    /\ UNCHANGED <<row, enabled, apart>>

(* The rest of init, and the start of the loops that are not running yet   *)
Join ==
    /\ main.pc = "joining"
    /\ \/ /\ ws.open = "yes"
          /\ main' = [main EXCEPT !.pc = "connected", !.up = TRUE, !.connFails = 0,
                                  !.netFails = 0]
          /\ UNCHANGED ws
       \/ Failed(mem) /\ ws' = Closed
    /\ UNCHANGED <<row, mem, ref, enabled, lapses, apart>>

(* _reject_expired_startup_token_after_short_disconnect                    *)
Reject ==
    /\ mem.startup
    /\ mem' = [mem EXCEPT !.token = NoToken, !.startup = FALSE]

(* The connection ends with a code that raises nothing.                    *)
CloseNormally ==
    /\ main.pc = "connected"
    /\ Reject \/ UNCHANGED mem
    /\ main' = [main EXCEPT !.pc = "checking"]
    /\ ws' = Closed
    /\ UNCHANGED <<row, ref, enabled, lapses, apart>>

(* The connection breaks; record_short_disconnect forgets what is older    *)
(* than its window, and everything after a long connection.                *)
Drop ==
    /\ main.pc = "connected" /\ ws.open = "yes"
    /\ \/ /\ Reject
          /\ main' = [main EXCEPT !.pc = "checking"]
          /\ ws' = Closed
          /\ UNCHANGED <<ref, enabled>>
       \/ \E n \in 0 .. main.shorts + 1 :
             /\ UNCHANGED mem
             /\ IF n < ShortLimit
                  THEN /\ main' = [main EXCEPT !.pc = "checking", !.netFails = @ + 1, !.shorts = n]
                       /\ ws' = Closed
                       /\ UNCHANGED <<ref, enabled>>
                  ELSE End /\ enabled' = FALSE
    /\ UNCHANGED <<row, lapses, apart>>

\* main with what it kept of a failure forgotten
Forgotten == [main EXCEPT !.quick = FALSE, !.victim = NoToken, !.device = Idle.device]

(* A connection that failed at once speaks against the token.              *)
Fail ==
    /\ main.pc = "failing"
    /\ IF main.quick THEN DeleteCached([token |-> main.victim, device |-> main.device])
                     ELSE UNCHANGED row
    /\ IF main.connFails < ConnectionLimit
         THEN /\ main' = [Forgotten EXCEPT !.pc = "checking"]
              /\ mem' = [mem EXCEPT !.token = NoToken]
         ELSE main' = [Forgotten EXCEPT !.pc = "relogin"] /\ UNCHANGED mem
    /\ UNCHANGED <<ref, enabled, ws, lapses, apart>>

(* try_password_login_refresh, as main calls it                            *)
Relogin ==
    /\ main.pc = "relogin"
    /\ \/ /\ "renewed" \in world.logins
          /\ main' = [main EXCEPT !.pc = "checking", !.connFails = 0, !.netFails = 0]
          /\ row' \in {row, IF Hits([token |-> mem.inUse, device |-> mem.device])
                             THEN Marked ELSE row}
          /\ UNCHANGED <<ref, ws, enabled>>
       \/ /\ world.logins # {"renewed"}
          /\ End
          /\ enabled' \in {enabled, enabled /\ "wrong" \notin world.logins}
          /\ UNCHANGED row
    /\ UNCHANGED <<mem, lapses, apart>>

(* The manager cancels the task.                                           *)
Stop ==
    /\ main.pc # "ended"
    /\ End
    /\ UNCHANGED <<row, mem, enabled, lapses, apart>>

Start ==
    /\ main.pc = "ended" /\ main.starts < world.starts
    /\ enabled' \in {enabled, TRUE}
    /\ \E d \in world.devices : mem' = FreshMemory(d)
    /\ ws' = Closed
    /\ main' = FirstRound(main.starts + 1)
    /\ marks' = {}
    /\ UNCHANGED <<row, ref, sched, platform, lapses, seen>>

(* token_refresh_loop, cookie_refresh_loop                                 *)
LoopRefresh(a) ==
    /\ world.beside /\ main.up /\ main.pc # "ended" /\ ref[a].pc = "idle"
    /\ Enter(a, mem)
    /\ UNCHANGED <<row, enabled, main, ws, apart>>
-----------------------------------------------------------------------------
(* The scheduler's renewal, and calls that mark the row in other processes.*)

Renewable == /\ row.token # NoToken
             /\ row.expire \in Due
             /\ row.renew \in Due

(* _load_candidates                                                        *)
RenewalPick ==
    /\ world.renews /\ sched.pc = "idle"
    /\ enabled /\ Renewable /\ ~Solving
    /\ sched' = [pc |-> "asking", token |-> NoToken, device |-> row.device]
    /\ UNCHANGED <<row, mem, ref, caller, platform, seen, marks>>

(* _renew_candidate                                                        *)
RenewalAnswer ==
    /\ sched.pc = "asking"
    /\ \/ \E d \in world.devices :
             /\ Issue(d)
             /\ sched' = [pc |-> "writing", token |-> issued + 1, device |-> d]
       \/ sched' = Resting /\ UNCHANGED platform
    /\ UNCHANGED <<row, mem, ref, caller, seen, marks>>

(* write_renewed_token_cache                                               *)
RenewalWrite ==
    /\ sched.pc = "writing"
    /\ \/ /\ Renewable
          /\ row' = [row EXCEPT !.token = sched.token, !.device = sched.device, !.renew = "fresh"]
       \/ (world.faults \/ ~Renewable) /\ UNCHANGED row
    /\ sched' = Resting
    /\ UNCHANGED <<mem, ref, caller, platform, seen, marks>>

(* mark_token_cache_expired with invalidate_valid_cache, before a restart  *)
Invalidate ==
    /\ main.starts < world.starts
    /\ row.token # NoToken
    /\ row' = Marked
    /\ UNCHANGED <<mem, ref, caller, apart>>
-----------------------------------------------------------------------------
Refresh(a) ==
    \/ ReadSwitch(a) \/ LookUp(a) \/ LookUpInVain(a) \/ LookUpFails(a) \/ Use(a)
    \/ CheckLogs(a) \/ AnswerToken(a) \/ Adopt(a) \/ Store(a)
    \/ AnswerTimeout(a) \/ AnswerRefused(a) \/ AnswerExpired(a) \/ AnswerSession(a)
    \/ AnswerCaptcha(a) \/ Refetch(a) \/ Solved(a) \/ LogIn(a) \/ Delete(a)

Round == \/ ReadState \/ Proceed \/ Connect \/ Register \/ Join
         \/ CloseNormally \/ Drop \/ Fail \/ Relogin

Renewal == RenewalPick \/ RenewalAnswer \/ RenewalWrite

Next == \/ \E a \in Refreshers : Refresh(a)
        \/ \E a \in Loops : LoopRefresh(a)
        \/ Round \/ Stop \/ Start \/ Age \/ Renewal \/ Invalidate

Spec == Init /\ [][Next]_vars

(* The event loop runs what is ready and a call answers; a connection need *)
(* not end by itself.                                                      *)
Advance == Round /\ (main.pc = "connected" => ws.open = "closing")
Fairness == WF_vars(Advance) /\ \A a \in Refreshers : WF_vars(Refresh(a))
FairSpec == Spec /\ Fairness
-----------------------------------------------------------------------------
Known == 0 .. MaxTokens

RowSet == [token : Known, device : Devices, expire : Ages, renew : Ages]
MemorySet == [token : Known, device : Devices, inUse : Known,
              startup : BOOLEAN, fallback : BOOLEAN,
              status : {"none", "started", "success", "renewal", "excused", "failed"}]
RefreshSet == [pc : {"idle", "setting", "looking", "using", "logs", "asking", "adopting",
                     "storing", "login", "solving", "deleting"},
               slider : {"on", "off", "unknown"}, initial : BOOLEAN,
               captcha : 0 .. CaptchaLimit, expiry : 0 .. 1,
               token : Known, device : Devices,
               kind : {"none", "current", "renewed", "expired"}, again : BOOLEAN]
RoundSet == [pc : {"checking", "ready", "fetching", "connecting", "opening", "joining",
                   "connected", "failing", "relogin", "ended"},
             up : BOOLEAN, tokenFails : 0 .. TokenLimit - 1,
             connFails : 0 .. ConnectionLimit, netFails : 0 .. 1,
             shorts : 0 .. ShortLimit - 1, quick : BOOLEAN,
             victim : Known, device : Devices, starts : Nat]
SocketSet == [open : {"no", "yes", "closing"}, token : Known, device : Devices]
RenewalSet == [pc : {"idle", "asking", "writing"}, token : Known, device : Devices]

(* The state is well typed.  The counters stay below their limits, and     *)
(* the count of network failures, which main clears with every connection, *)
(* never exceeds one.                                                      *)
TypeOK ==
    /\ world \in World /\ enabled \in BOOLEAN
    /\ row \in RowSet /\ mem \in MemorySet
    /\ ref \in [Refreshers -> RefreshSet] /\ main \in RoundSet
    /\ ws \in SocketSet /\ sched \in RenewalSet
    /\ issued \in Known /\ boundTo \in [Tokens -> Devices]
    /\ lapses \subseteq {"refreshes", "registration", "lookup", "refetch"}
    /\ seen \subseteq Tokens
    /\ marks \subseteq {"fallback", "unstored"}

(* A token counts for the device it was issued for only.  Unless refreshes *)
(* overlap, the cached row and the registration of a connection pair each  *)
(* token with its device (_use_cached_token, refresh_token,                *)
(* write_renewed_token_cache), whichever process wrote it; the             *)
(* registration does not if a slider's refetch took over the device of a   *)
(* token it dropped (_request_captcha_url_sync), the row does even then.   *)
PairKept ==
    /\ (lapses \subseteq {"lookup", "refetch"} /\ row.token # NoToken)
          => row.device = boundTo[row.token]
    /\ (lapses \subseteq {"lookup"} /\ ws.token # NoToken)
          => ws.device = boundTo[ws.token]

(* What the account's task finds out speaks about tokens it has used: no   *)
(* failure of its refreshes, connections and logins makes it mark a token  *)
(* the scheduler has put into the row meanwhile (mark_token_cache_expired),*)
(* provided its own tokens got into the row.                               *)
UnseenTokenKept ==
    [][(row.token \notin seen /\ "unstored" \notin marks /\ <<ref, main>>' # <<ref, main>>)
          => (row' = Marked => row = Marked)]_vars

(* A refresh that fails costs no valid token: unless refreshes overlap or  *)
(* the row could not be read, what it marks had run out, and so had its    *)
(* renewal (refresh_token, _delete_cached_token).                          *)
FailuresSpareValid ==
    [][(/\ lapses \subseteq {"refetch"} /\ main.pc \notin {"failing", "relogin"}
        /\ ref' # ref /\ row' = Marked)
          => Validity = "expired"]_vars

(* The fallback a start has for an expired token serves once, whatever     *)
(* fails, is tried again or is switched meanwhile.  After it a refresh     *)
(* that is about to use an expired token has found the local slider        *)
(* disabled, or could not read the switch: there refresh_token takes what  *)
(* the row holds every time.  Unless refreshes overlap.                    *)
FallbackOnce ==
    ("fallback" \in marks /\ "refreshes" \notin lapses) =>
        \A a \in Refreshers :
            ref[a].pc = "using" /\ ref[a].kind = "expired" => ref[a].slider # "off"

\* Every failure that may happen is counted; excused ones, and logins that
\* succeed again and again, may by design go on for ever.
OnlyCounted == /\ ~world.faults /\ ~world.busy
               /\ world.answers \subseteq {"refused", "timeout", "expired"}
               /\ "renewed" \notin world.logins

(* The rounds of main come to a connection or to an end, whatever fails.   *)
ComesUp == (OnlyCounted /\ main.pc # "ended") ~> main.pc \in {"connected", "ended"}

(* A connection does not outlive the token it registered with: when a      *)
(* refresh takes over a renewed token, main connects again with it         *)
(* (_reconnect_websocket_for_renewed_token).                               *)
PromotionReconnects ==
    \A t \in Tokens :
        (main.pc = "connected" /\ mem.status = "renewal" /\ mem.token = t /\ ws.token # t)
            ~> (ws.token = t \/ mem.token # t \/ main.pc = "ended")
=============================================================================
