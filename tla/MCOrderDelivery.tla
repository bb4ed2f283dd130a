--------------------------- MODULE MCOrderDelivery --------------------------
EXTENDS OrderDelivery
\* confirmation first and required: "secret only after the confirmation"
Strict == {[auto |-> TRUE, confirmOnly |-> TRUE, sendFirst |-> FALSE]}
\* the two switches exclude each other
Usual == {s \in AllSettings : ~(s.confirmOnly /\ s.sendFirst)}
\* "secret first, confirmation after it was sent"
SendFirst == {[auto |-> TRUE, confirmOnly |-> FALSE, sendFirst |-> TRUE]}
=============================================================================
