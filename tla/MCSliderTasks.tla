---------------------------- MODULE MCSliderTasks ---------------------------
(* The instance of SliderTasks for TLC: the mouse tasks among themselves,  *)
(* the browser tasks of two accounts, and two mouse tasks among browser    *)
(* tasks that keep every thread busy.                                      *)
EXTENDS SliderTasks
CONSTANTS l1, l2, p1, c1, s1, s2, g1, u1
MCAccountOf == [b \in {s1, s2, g1, u1} |-> IF b \in {s1, g1} THEN "one" ELSE "two"]
MCLoads == {{l1, l2, p1, c1}, {s1, s2, g1, u1}, {l1, p1, s1, s2, g1}}
MCWeights == {[b \in Bucket |-> IF b = "local" THEN 1 ELSE 2]}
=============================================================================
