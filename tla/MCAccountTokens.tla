---------------------------- MODULE MCAccountTokens ----------------------------
(* The instance of AccountTokens for TLC.                                  *)
EXTENDS AccountTokens
CONSTANTS Loop, d1, d2

\* one start of main alone, with every answer and every login
Answered == [beside |-> FALSE, switch |-> {"on", "off"},
             answers |-> {"refused", "timeout", "session", "captcha", "expired"},
             logins |-> {"renewed", "missing", "cooling", "wrong", "failed"},
             faults |-> FALSE, busy |-> FALSE, renews |-> TRUE,
             devices |-> {d1}, refetches |-> {}, starts |-> 1]

\* an API that refuses: two starts, answers for two devices
Restarted == [Answered EXCEPT !.switch = {"off"}, !.answers = {"refused"},
                              !.logins = {"failed"}, !.devices = {d1, d2}, !.starts = 2]

\* a loop beside main
Beside == [Restarted EXCEPT !.beside = TRUE, !.devices = {d1}, !.starts = 1]

\* a loop beside main, captchas, and a remote service with a device of its own
Captchas == [Beside EXCEPT !.answers = {"captcha"}, !.renews = FALSE, !.refetches = {d2}]

\* a database that fails, other processes at work, and captchas
Disturbed == [Restarted EXCEPT !.answers = {"captcha"}, !.faults = TRUE, !.busy = TRUE,
                               !.devices = {d1}, !.starts = 1]

MCWorlds == {Answered, Disturbed, Restarted, Beside, Captchas}
=============================================================================
