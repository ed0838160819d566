--------------------------- MODULE WakeupContract ---------------------------
(***************************************************************************)
(* What every backend of g_poll promises about the GWakeup entries of its  *)
(* array, independent of how the wakeup is built (spec section 4.2):       *)
(* after g_wakeup_signal, every g_poll call that includes the wakeup,      *)
(* whether already blocked or issued later, reports it ready until the     *)
(* next g_wakeup_acknowledge; several signals before one acknowledge       *)
(* coalesce into one readiness.                                            *)
(*                                                                         *)
(* One owner thread polls and acknowledges; any thread signals.  A call    *)
(* begins on a set of wakeups, then either returns reporting exactly the   *)
(* ones pending at that moment, or fails (-1) with results the contract    *)
(* does not fix, and finally hands control back to the owner.              *)
(***************************************************************************)
CONSTANT Wakeups

VARIABLES
  pending,   \* per wakeup: signalled since the last acknowledge
  apc,       \* the owner: "idle", "polling" or "returned"
  call,      \* the wakeups in the array of the call in progress
  observed,  \* the wakeups the call reported ready (G_IO_IN in revents)
  succeeded  \* the call has returned a count (not -1)

avars == <<pending, apc, call, observed, succeeded>>

Init ==
  /\ pending = [w \in Wakeups |-> FALSE]
  /\ apc = "idle"
  /\ call = {}
  /\ observed = {}
  /\ succeeded = FALSE

Signal(w) ==
  /\ pending' = [pending EXCEPT ![w] = TRUE]
  /\ UNCHANGED <<apc, call, observed, succeeded>>

Acknowledge(w) ==
  /\ apc = "idle"
  /\ pending' = [pending EXCEPT ![w] = FALSE]
  /\ UNCHANGED <<apc, call, observed, succeeded>>

Begin(W) ==
  /\ apc = "idle"
  /\ apc' = "polling"
  /\ call' = W
  /\ UNCHANGED <<pending, observed, succeeded>>

Return ==
  /\ apc = "polling"
  /\ apc' = "returned"
  /\ observed' = {w \in call : pending[w]}
  /\ succeeded' = TRUE
  /\ UNCHANGED <<pending, call>>

Fail ==
  /\ apc = "polling"
  /\ apc' = "returned"
  /\ observed' \in SUBSET call
  /\ UNCHANGED <<pending, call, succeeded>>

Finish ==
  /\ apc = "returned"
  /\ apc' = "idle"
  /\ call' = {}
  /\ observed' = {}
  /\ succeeded' = FALSE
  /\ UNCHANGED pending

Next ==
  \/ \E w \in Wakeups : Signal(w) \/ Acknowledge(w)
  \/ \E W \in SUBSET Wakeups : Begin(W)
  \/ Return \/ Fail \/ Finish

Spec == Init /\ [][Next]_avars

(***************************************************************************)
(* A call that has a pending wakeup in its array does not stay blocked: it *)
(* eventually returns (and then, by Return, reports it).                   *)
(***************************************************************************)
PendingWakeupReturns ==
  \A w \in Wakeups :
    (apc = "polling" /\ w \in call /\ pending[w]) ~> (apc # "polling")
=============================================================================
