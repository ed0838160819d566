--------------------------- MODULE MCSelectPoll ---------------------------
(***************************************************************************)
(* Model-checking instance of SelectPoll: a two-entry GPollFD array on     *)
(* descriptors 0 and 1 (and the ignored -1), every kind of timeout, and    *)
(* entries that request nothing, reading, reading and writing, or urgent   *)
(* data.                                                                   *)
(***************************************************************************)
EXTENDS SelectPoll

MCEntries == {1, 2}
MCFdValues == {-1, 0, 1}
MCEventSets == {{}, {"IN"}, {"IN", "OUT"}, {"PRI"}}
MCTimeouts == {-2, -1, 0, 1}
=============================================================================
