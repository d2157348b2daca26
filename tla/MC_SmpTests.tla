---------------------------- MODULE MC_SmpTests ----------------------------
(* The BSP and one or two APs, batches of one or two increments. *)
EXTENDS SmpTests

Healthy(rows) == {[commands |-> r, timeouts |-> FALSE] : r \in rows}
Troubled(rows) == {[commands |-> r, timeouts |-> TRUE] : r \in rows}

AllSessions ==
    Healthy({<<"atomictest", "atomictest", "synctest">>, <<"synctest", "synctest">>})
    \cup Troubled({<<"atomictest">>, <<"synctest">>})

ASSUME RowsOrdered == \A s \in AllSessions : Ordered(s)

(* The row that is not. *)
SyncThenAtomic == Healthy({<<"synctest", "atomictest">>})
=============================================================================
