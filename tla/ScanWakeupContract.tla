------------------------- MODULE ScanWakeupContract -------------------------
(***************************************************************************)
(* What a g_poll backend that scans wakeup flags one at a time can promise *)
(* (the bare-metal backend, gpoll.c): the results are not one snapshot.    *)
(* A call that begins while a wakeup of its array is pending reports it;   *)
(* a call reports only wakeups that are pending when it returns; a signal  *)
(* that lands during the call may or may not be reported by this call,    *)
(* and then stays pending for the next one.  Only the owner, between       *)
(* calls, acknowledges.                                                    *)
(*                                                                         *)
(* 'sure' is the part of the call's array that was pending when it began.  *)
(***************************************************************************)
CONSTANT Wakeups

VARIABLES
  pending,   \* per wakeup: signalled since the last acknowledge
  apc,       \* the owner: "idle", "polling" or "returned"
  call,      \* the wakeups in the array of the call in progress
  sure,      \* the wakeups of call pending when the call began
  observed   \* the wakeups the call reported ready

svars == <<pending, apc, call, sure, observed>>

Init ==
  /\ pending = [w \in Wakeups |-> FALSE]
  /\ apc = "idle"
  /\ call = {}
  /\ sure = {}
  /\ observed = {}

Signal(w) ==
  /\ pending' = [pending EXCEPT ![w] = TRUE]
  /\ UNCHANGED <<apc, call, sure, observed>>

Acknowledge(w) ==
  /\ apc = "idle"
  /\ pending' = [pending EXCEPT ![w] = FALSE]
  /\ UNCHANGED <<apc, call, sure, observed>>

Begin(W) ==
  /\ apc = "idle"
  /\ apc' = "polling"
  /\ call' = W
  /\ sure' = {w \in W : pending[w]}
  /\ UNCHANGED <<pending, observed>>

Return ==
  /\ apc = "polling"
  /\ apc' = "returned"
  /\ observed' \in SUBSET {w \in call : pending[w]}
  /\ sure \subseteq observed'
  /\ UNCHANGED <<pending, call, sure>>

Finish ==
  /\ apc = "returned"
  /\ apc' = "idle"
  /\ call' = {}
  /\ sure' = {}
  /\ observed' = {}
  /\ UNCHANGED pending

Next ==
  \/ \E w \in Wakeups : Signal(w) \/ Acknowledge(w)
  \/ \E W \in SUBSET Wakeups : Begin(W)
  \/ Return \/ Finish

Spec == Init /\ [][Next]_svars

(***************************************************************************)
(* A call that has a pending wakeup in its array does not stay blocked: it *)
(* eventually returns.                                                     *)
(***************************************************************************)
PendingWakeupReturns ==
  \A w \in Wakeups :
    (apc = "polling" /\ w \in call /\ pending[w]) ~> (apc # "polling")
=============================================================================
