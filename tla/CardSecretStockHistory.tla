----------------------- MODULE CardSecretStockHistory ------------------------
(* CardSecretStock with the history of how its attempts were made, for the *)
(* property that speaks about attempts made one after the other.           *)
EXTENDS CardSecretStock

VARIABLE alone   \* history: no two attempts were open at once, all took over the
                 \* hook path, and no task was lost

Pushed == {d \in Delivery : att[d].pc \in {"queued", "empty"}}

StaysAlone ==
    /\ alone
    /\ \A x, y \in Open' : x = y
    /\ \A d \in Delivery : att'[d].pc # "idle" => att'[d].path = "hook"
    /\ Pushed' \subseteq Pushed \/ stockTasks' # stockTasks

historyVars == <<vars, alone>>
HistoryInit == Init /\ alone = TRUE
HistoryNext == Next /\ alone' = StaysAlone
HistorySpec == HistoryInit /\ [][HistoryNext]_historyVars
-----------------------------------------------------------------------------
\* No transaction is open.
Settled == /\ Open = {}
           /\ \A i \in Import : imp[i].pc # "read"

\* The task the worker will take last takes the item offline.
EndsOffline == stockTasks # <<>> /\ stockTasks[Len(stockTasks)] = "offline"

(* When nothing is in flight and the stock has been sold out by attempts   *)
(* that did not overlap, the last task queued for the worker takes the     *)
(* item offline, whatever was restocked, released or aborted on the way.   *)
LastSaleTakesItemOffline ==
    (alone /\ Settled /\ Available = {} /\ \E d \in Delivery : att[d].pc = "done")
        => EndsOffline
=============================================================================
