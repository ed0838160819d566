--------------------------- MODULE BareMetalPoll ---------------------------
(***************************************************************************)
(* The bare-metal (G_OS_NONE) readiness backend of gpoll.c together with   *)
(* the atomic-flag-and-token GWakeup of gwakeup.c and the platform hooks   *)
(* g_wait_sleep / g_wait_wake / g_wait_is_set.                             *)
(*                                                                         *)
(* One owner thread runs the loop of a main context: it calls g_poll on a  *)
(* set of GWakeups, and between calls acknowledges wakeups.  Any number of *)
(* other threads (or interrupt handlers) call g_wakeup_signal.  Plain file *)
(* descriptors are left out: on this backend their revents are always 0.   *)
(*                                                                         *)
(* A call's token is the address of its stack-allocated GPollOperation;    *)
(* the same address is reused by later calls from the same frame, so the   *)
(* token is drawn from the small set Tokens at every call.                 *)
(***************************************************************************)
EXTENDS Integers, FiniteSets

CONSTANTS
  Wakeups,     \* the GWakeup objects
  Signallers,  \* threads or interrupt handlers that call g_wakeup_signal
  Tokens,      \* possible addresses of a call's GPollOperation
  NULL,        \* the NULL pointer
  Timeouts,    \* timeout arguments (milliseconds) the owner passes
  MaxCalls,    \* bound on the number of g_poll calls
  MaxSignals   \* bound on the number of g_wakeup_signal calls

ASSUME ConstantsAssumption ==
  /\ Wakeups # {}
  /\ IsFiniteSet(Wakeups)
  /\ Tokens # {}
  /\ NULL \notin Tokens
  /\ Timeouts \subseteq Int
  /\ MaxCalls \in Nat
  /\ MaxSignals \in Nat

VARIABLES
  signalled,  \* GWakeup.signalled, per wakeup
  token,      \* GWakeup.token, per wakeup: a Token or NULL
  pc,         \* owner thread: "idle" between calls, else its place in g_poll
  fds,        \* the wakeups in the current call's GPollFD array
  timeout,    \* the current call's timeout argument
  tok,        \* the current call's token (&op)
  slept,      \* g_poll's local 'slept'
  expired,    \* the monotonic clock has reached the call's deadline
  revents,    \* the wakeups whose GPollFD.revents is G_IO_IN
  ready,      \* g_poll's local 'ready', the value it returns
  toscan,     \* entries of the array the current pass has still to read
  atEntry,    \* history: the wakeups of the array signalled at entry
  spc,        \* signaller: "idle", "load" (flag set) or "wake" (token read)
  swk,        \* the wakeup a signaller is signalling
  stok,       \* the token a signaller read from its wakeup
  calls,      \* number of g_poll calls made
  signals     \* number of g_wakeup_signal calls made

vars == <<signalled, token, pc, fds, timeout, tok, slept, expired, revents,
          ready, toscan, atEntry, spc, swk, stok, calls, signals>>

ownerVars == <<pc, fds, timeout, tok, slept, expired, revents, ready, toscan,
               atEntry>>
signallerVars == <<spc, swk, stok>>

PCs == {"idle", "check", "scan", "sleep", "parked", "done"}

-----------------------------------------------------------------------------
(***************************************************************************)
(* g_wait_is_set(token): some wakeup of the call's GPollFD array is        *)
(* signalled.  The token is the call's own, so op->fds is the call's fds.  *)
(***************************************************************************)
WaitIsSet == \E w \in fds : signalled[w]

(***************************************************************************)
(* Plausible faults of the code, kept to show that the properties below    *)
(* detect them: registration of the tokens forgotten at entry, a scan      *)
(* that runs past the end of the array (i <= nfds), a pass that keeps the  *)
(* revents of the previous one, and the reset of the tokens at exit        *)
(* forgotten.                                                              *)
(***************************************************************************)
PollEnterNoRegister ==
  /\ pc = "idle"
  /\ calls < MaxCalls
  /\ \E S \in SUBSET Wakeups, t \in Tokens, ms \in Timeouts :
       /\ fds' = S
       /\ tok' = t
       /\ timeout' = ms
       /\ expired' = (ms < -1)
       /\ atEntry' = {w \in S : signalled[w]}
  /\ slept' = FALSE
  /\ pc' = "check"
  /\ calls' = calls + 1
  /\ UNCHANGED <<signalled, token, revents, ready, toscan, signallerVars,
                 signals>>

PollPassPastEnd ==
  /\ pc = "check"
  /\ pc' = "scan"
  /\ ready' = 0
  /\ revents' = {}
  /\ toscan' = Wakeups
  /\ UNCHANGED <<signalled, token, fds, timeout, tok, slept, expired, atEntry,
                 signallerVars, calls, signals>>

PollPassKeepRevents ==
  /\ pc = "check"
  /\ pc' = "scan"
  /\ ready' = 0
  /\ toscan' = fds
  /\ UNCHANGED <<signalled, token, fds, timeout, tok, slept, expired, revents,
                 atEntry, signallerVars, calls, signals>>

PollDoneKeepToken ==
  /\ pc = "done"
  /\ pc' = "idle"
  /\ UNCHANGED <<signalled, token, fds, timeout, tok, slept, expired, revents,
                 ready, toscan, atEntry, signallerVars, calls, signals>>

(***************************************************************************)
(* g_poll, entry: the deadline is computed and &op is stored into the      *)
(* token of every wakeup in the array.  A negative timeout other than -1   *)
(* gives a deadline already in the past.  atEntry records which wakeups of *)
(* the array are signalled at this moment; it is no state of the code.    *)
(***************************************************************************)
PollEnter ==
  /\ pc = "idle"
  /\ calls < MaxCalls
  /\ \E S \in SUBSET Wakeups, t \in Tokens, ms \in Timeouts :
       /\ fds' = S
       /\ tok' = t
       /\ timeout' = ms
       /\ expired' = (ms < -1)
       /\ token' = [w \in Wakeups |-> IF w \in S THEN t ELSE token[w]]
       /\ atEntry' = {w \in S : signalled[w]}
  /\ slept' = FALSE
  /\ pc' = "check"
  /\ calls' = calls + 1
  /\ UNCHANGED <<signalled, revents, ready, toscan, signallerVars, signals>>

(***************************************************************************)
(* A pass of the for(;;) loop begins: ready = 0, and every entry of the    *)
(* array is still to be read (its revents is zeroed as it is read; none    *)
(* is looked at before the call returns, so they are zeroed here at once). *)
(***************************************************************************)
PollPass ==
  /\ pc = "check"
  /\ pc' = "scan"
  /\ ready' = 0
  /\ revents' = {}
  /\ toscan' = fds
  /\ UNCHANGED <<signalled, token, fds, timeout, tok, slept, expired, atEntry,
                 signallerVars, calls, signals>>

(***************************************************************************)
(* One iteration of the scan: the flag of entry w is read with its own     *)
(* g_atomic_int_get, while signallers keep running.  Entries are read in   *)
(* array order; any order is allowed here, which covers every array.       *)
(***************************************************************************)
PollRead(w) ==
  /\ pc = "scan"
  /\ w \in toscan
  /\ toscan' = toscan \ {w}
  /\ revents' = IF signalled[w] THEN revents \cup {w} ELSE revents
  /\ ready' = IF signalled[w] THEN ready + 1 ELSE ready
  /\ UNCHANGED <<signalled, token, pc, fds, timeout, tok, slept, expired,
                 atEntry, signallerVars, calls, signals>>

(***************************************************************************)
(* The end of a pass: the call ends when something was ready, when the     *)
(* timeout is 0, after one sleep, or when the deadline has passed;         *)
(* otherwise it goes to sleep.                                             *)
(***************************************************************************)
PollCheck ==
  /\ pc = "scan"
  /\ toscan = {}
  /\ pc' = IF \/ ready # 0
              \/ timeout = 0
              \/ slept
              \/ timeout # -1 /\ expired
           THEN "done" ELSE "sleep"
  /\ UNCHANGED <<signalled, token, fds, timeout, tok, slept, expired, revents,
                 ready, toscan, atEntry, signallerVars, calls, signals>>

\* A plausible fault: a platform g_wait_sleep that parks without first
\* consulting g_wait_is_set.
WaitSleepNoRecheck ==
  /\ pc = "sleep"
  /\ pc' = "parked"
  /\ UNCHANGED <<signalled, token, fds, timeout, tok, slept, expired, revents,
                 ready, toscan, atEntry, signallerVars, calls, signals>>

(***************************************************************************)
(* g_wait_sleep(token, timeout_us), as its contract asks a platform to     *)
(* implement it: return at once if g_wait_is_set(token) already holds,     *)
(* otherwise park the thread on the token.                                 *)
(***************************************************************************)
WaitSleep ==
  /\ pc = "sleep"
  /\ IF WaitIsSet
       THEN pc' = "check" /\ slept' = TRUE
       ELSE pc' = "parked" /\ UNCHANGED slept
  /\ UNCHANGED <<signalled, token, fds, timeout, tok, expired, revents, ready,
                 toscan, atEntry, signallerVars, calls, signals>>

(***************************************************************************)
(* The platform's timer ends a finite sleep at the deadline.               *)
(***************************************************************************)
SleepTimeout ==
  /\ pc = "parked"
  /\ timeout # -1
  /\ expired
  /\ pc' = "check"
  /\ slept' = TRUE
  /\ UNCHANGED <<signalled, token, fds, timeout, tok, expired, revents, ready,
                 toscan, atEntry, signallerVars, calls, signals>>

(***************************************************************************)
(* Time passes: the monotonic clock reaches the call's deadline.           *)
(***************************************************************************)
ClockReachesDeadline ==
  /\ pc \in {"check", "scan", "sleep", "parked"}
  /\ timeout > 0
  /\ ~expired
  /\ expired' = TRUE
  /\ UNCHANGED <<signalled, token, pc, fds, timeout, tok, slept, revents,
                 ready, toscan, atEntry, signallerVars, calls, signals>>

(***************************************************************************)
(* g_poll, label done: the token of every wakeup in the array is reset to  *)
(* NULL and 'ready' is returned.                                           *)
(***************************************************************************)
PollDone ==
  /\ pc = "done"
  /\ token' = [w \in Wakeups |-> IF w \in fds THEN NULL ELSE token[w]]
  /\ pc' = "idle"
  /\ UNCHANGED <<signalled, fds, timeout, tok, slept, expired, revents, ready,
                 toscan, atEntry, signallerVars, calls, signals>>

\* A plausible fault: acknowledging while a g_poll call is in progress.
AcknowledgeAnyTime(w) ==
  /\ signalled' = [signalled EXCEPT ![w] = FALSE]
  /\ UNCHANGED <<token, ownerVars, signallerVars, calls, signals>>

(***************************************************************************)
(* g_wakeup_acknowledge, called by the owner thread between g_poll calls.  *)
(***************************************************************************)
Acknowledge(w) ==
  /\ pc = "idle"
  /\ signalled' = [signalled EXCEPT ![w] = FALSE]
  /\ UNCHANGED <<token, ownerVars, signallerVars, calls, signals>>

-----------------------------------------------------------------------------
(***************************************************************************)
(* g_wakeup_signal, first statement: set the flag.                         *)
(***************************************************************************)
SignalSet(s, w) ==
  /\ spc[s] = "idle"
  /\ signals < MaxSignals
  /\ signalled' = [signalled EXCEPT ![w] = TRUE]
  /\ spc' = [spc EXCEPT ![s] = "load"]
  /\ swk' = [swk EXCEPT ![s] = w]
  /\ signals' = signals + 1
  /\ UNCHANGED <<token, ownerVars, stok, calls>>

(***************************************************************************)
(* g_wakeup_signal: read the token; if it is NULL the call is over.        *)
(***************************************************************************)
SignalLoad(s) ==
  /\ spc[s] = "load"
  /\ stok' = [stok EXCEPT ![s] = token[swk[s]]]
  /\ spc' = [spc EXCEPT ![s] = IF token[swk[s]] = NULL THEN "idle" ELSE "wake"]
  /\ UNCHANGED <<signalled, token, ownerVars, swk, calls, signals>>

(***************************************************************************)
(* g_wait_wake(t): unpark every thread sleeping on token t.                *)
(***************************************************************************)
WaitWake(s) ==
  /\ spc[s] = "wake"
  /\ IF pc = "parked" /\ tok = stok[s]
       THEN pc' = "check" /\ slept' = TRUE
       ELSE UNCHANGED <<pc, slept>>
  /\ spc' = [spc EXCEPT ![s] = "idle"]
  /\ UNCHANGED <<signalled, token, fds, timeout, tok, expired, revents, ready,
                 toscan, atEntry, swk, stok, calls, signals>>

-----------------------------------------------------------------------------
(***************************************************************************)
(* The run may rest once the bounds are used up and no signaller is       *)
(* mid-call, with the owner between calls or parked in an infinite wait.   *)
(* Whether such a wait is legitimate (nothing of its array signalled) is   *)
(* what NoLostWakeup and BareMetalPendingReturns decide.                   *)
(***************************************************************************)
Quiescent ==
  /\ signals = MaxSignals
  /\ \A s \in Signallers : spc[s] = "idle"
  /\ \/ pc = "idle" /\ calls = MaxCalls
     \/ pc = "parked" /\ timeout = -1

Init ==
  /\ signalled = [w \in Wakeups |-> FALSE]
  /\ token = [w \in Wakeups |-> NULL]
  /\ pc = "idle"
  /\ fds = {}
  /\ timeout = 0
  /\ tok = NULL
  /\ slept = FALSE
  /\ expired = FALSE
  /\ revents = {}
  /\ ready = 0
  /\ toscan = {}
  /\ atEntry = {}
  /\ spc = [s \in Signallers |-> "idle"]
  /\ swk = [s \in Signallers |-> CHOOSE w \in Wakeups : TRUE]
  /\ stok = [s \in Signallers |-> NULL]
  /\ calls = 0
  /\ signals = 0

Owner ==
  \/ PollEnter
  \/ PollPass
  \/ \E w \in Wakeups : PollRead(w)
  \/ PollCheck
  \/ WaitSleep
  \/ SleepTimeout
  \/ PollDone
  \/ \E w \in Wakeups : Acknowledge(w)

Signaller(s) ==
  \/ \E w \in Wakeups : SignalSet(s, w)
  \/ SignalLoad(s)
  \/ WaitWake(s)

Next ==
  \/ Owner
  \/ ClockReachesDeadline
  \/ \E s \in Signallers : Signaller(s)
  \/ Quiescent /\ UNCHANGED vars

Spec == Init /\ [][Next]_vars

(***************************************************************************)
(* The owner and the signalling threads are scheduled, the platform's      *)
(* sleep ends at its deadline and the clock advances: weak fairness of     *)
(* every step that finishes something started.  Entering a call, starting *)
(* a signal and acknowledging are the callers' choice and are not fair.    *)
(***************************************************************************)
FairSpec ==
  /\ Spec
  /\ WF_vars(PollPass) /\ WF_vars(\E w \in Wakeups : PollRead(w))
  /\ WF_vars(PollCheck) /\ WF_vars(WaitSleep) /\ WF_vars(SleepTimeout)
  /\ WF_vars(ClockReachesDeadline) /\ WF_vars(PollDone)
  /\ \A s \in Signallers : WF_vars(SignalLoad(s)) /\ WF_vars(WaitWake(s))

-----------------------------------------------------------------------------
TypeOK ==
  /\ signalled \in [Wakeups -> BOOLEAN]
  /\ token \in [Wakeups -> Tokens \cup {NULL}]
  /\ pc \in PCs
  /\ fds \in SUBSET Wakeups
  /\ timeout \in Timeouts \cup {0}
  /\ tok \in Tokens \cup {NULL}
  /\ slept \in BOOLEAN
  /\ expired \in BOOLEAN
  /\ revents \in SUBSET Wakeups
  /\ ready \in Nat
  /\ toscan \in SUBSET fds
  /\ atEntry \in SUBSET Wakeups
  /\ spc \in [Signallers -> {"idle", "load", "wake"}]
  /\ swk \in [Signallers -> Wakeups]
  /\ stok \in [Signallers -> Tokens \cup {NULL}]
  /\ calls \in 0..MaxCalls
  /\ signals \in 0..MaxSignals

(***************************************************************************)
(* No lost wakeup.  Whenever the owner is parked in g_wait_sleep while a   *)
(* wakeup of its array is signalled, some g_wakeup_signal is still under   *)
(* way that will call g_wait_wake with the owner's token: it has set the   *)
(* flag and not yet read the token of that wakeup, or it has read the      *)
(* owner's token and not yet called g_wait_wake.  This is what the order   *)
(* "register token, check flags, sleep unless g_wait_is_set" in g_poll and *)
(* "set flag, read token, wake" in g_wakeup_signal is for.                 *)
(***************************************************************************)
WakeInFlight ==
  \E s \in Signallers :
    \/ spc[s] = "load" /\ swk[s] \in fds
    \/ spc[s] = "wake" /\ stok[s] = tok

NoLostWakeup ==
  (pc = "parked" /\ WaitIsSet) => WakeInFlight

(***************************************************************************)
(* The token field is a borrowed pointer to a live g_poll frame: while a   *)
(* wakeup's token is not NULL, the owner is inside a g_poll call whose     *)
(* array holds that wakeup and whose token it is.  Between calls no wakeup *)
(* keeps a pointer into a dead stack frame.                                *)
(***************************************************************************)
TokenOwnedByLiveCall ==
  \A w \in Wakeups :
    token[w] # NULL => /\ pc # "idle"
                       /\ w \in fds
                       /\ token[w] = tok

(***************************************************************************)
(* Deadline lower bound (spec section 8): a call that returns 0 with a     *)
(* positive timeout has reached its deadline, and a call with timeout -1   *)
(* never returns 0.                                                        *)
(***************************************************************************)
DeadlineRespected ==
  (pc = "done" /\ ready = 0) =>
    \/ timeout = 0
    \/ timeout < -1
    \/ timeout > 0 /\ expired

(***************************************************************************)
(* The contract of a flag-scanning backend (ScanWakeupContract) seen       *)
(* through the bare-metal code: a wakeup is pending while its flag is set; *)
(* the owner polls from entry to the exit of the loop and has returned at  *)
(* done; the call observed the wakeups in revents; the wakeups it must     *)
(* report are those signalled at entry.                                    *)
(***************************************************************************)
Contract == INSTANCE ScanWakeupContract WITH
  pending   <- signalled,
  apc       <- CASE pc = "idle" -> "idle"
                 [] pc = "done" -> "returned"
                 [] OTHER       -> "polling",
  call      <- IF pc = "idle" THEN {} ELSE fds,
  sure      <- IF pc = "idle" THEN {} ELSE atEntry,
  observed  <- IF pc = "done" THEN revents ELSE {}

(***************************************************************************)
(* The bare-metal g_poll and GWakeup implement the flag-scan contract: a   *)
(* call reports every wakeup of its array signalled when it began, and     *)
(* only wakeups still signalled when it leaves its loop, although each     *)
(* flag is read separately while signallers run; only the owner, between   *)
(* calls, clears a flag.                                                   *)
(***************************************************************************)
BareMetalContract == Contract!Spec

(***************************************************************************)
(* Under FairSpec, a g_poll call with a signalled wakeup in its array      *)
(* returns, even with timeout -1: the signal's g_wait_wake, or the         *)
(* g_wait_is_set check of g_wait_sleep, ends any sleep.                    *)
(***************************************************************************)
BareMetalPendingReturns == Contract!PendingWakeupReturns
=============================================================================
