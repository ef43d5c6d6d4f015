--------------------------- MODULE MCSenderModels ---------------------------
EXTENDS SenderModels

MCLadder == <<2, 3, 4>>

F(fitPeriod, pre, post) == [learned |-> TRUE, period |-> fitPeriod, pre |-> pre, post |-> post]

\* Narrow and asymmetric windows, windows with exactly a block between them.
MCFits == {F(7, 1, 1), F(5, 1, 2), F(6, 3, 1), F(9, 2, 0),
           [learned |-> FALSE, period |-> 0, pre |-> 0, post |-> 0]}

\* One sender learns its watchdog, the other has a configured one.
MCSeed == [s \in Pair |-> IF s = "learns" THEN [overdue |-> 0, window |-> 0, minimum |-> 0]
                          ELSE [overdue |-> 5, window |-> 3, minimum |-> 2]]
=============================================================================
