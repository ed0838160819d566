---------------------------- MODULE MCKqueuePoll ----------------------------
(***************************************************************************)
(* A small instance of KqueuePoll: two wakeups, arrays of two entries over *)
(* the wakeups, descriptor 3 (reading, or reading and writing) and an      *)
(* ignored entry (-1), and both a finite and an infinite timeout.          *)
(***************************************************************************)
EXTENDS KqueuePoll

CONSTANTS w1, w2

MCWakeups == {w1, w2}
MCFdValues == {-1, 3}
MCEntryValues ==
  {[h |-> w, events |-> {"IN"}] : w \in MCWakeups}
    \cup {[h |-> 3, events |-> {"IN"}], [h |-> 3, events |-> {"IN", "OUT"}],
          [h |-> -1, events |-> {"IN"}]}
\* Every array of two entries, including two entries on descriptor 3.
MCAllArrays == [1..2 -> MCEntryValues]
\* The arrays whose plain entries are on distinct descriptors.
MCDistinctArrays ==
  {a \in MCAllArrays :
     ~(~IsWakeup(a[1]) /\ ~IsWakeup(a[2]) /\ a[1].h = a[2].h /\ a[1].h >= 0)}
MCTimeouts == {-1, 0}
=============================================================================
