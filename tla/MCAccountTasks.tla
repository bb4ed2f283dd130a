----------------------------- MODULE MCAccountTasks ----------------------------
EXTENDS AccountTasks

CONSTANTS a1, a2, s1, r1, b1, u1, q1

MCAddOf == [c \in Restart |-> b1]
=============================================================================
