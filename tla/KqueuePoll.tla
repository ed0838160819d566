----------------------------- MODULE KqueuePoll -----------------------------
(***************************************************************************)
(* The kqueue backend of g_poll (gpoll.c, HAVE_KQUEUE) together with the   *)
(* kqueue variant of GWakeup (gwakeup.c).  One owner thread calls g_poll   *)
(* and g_wakeup_acknowledge; any number of other threads call              *)
(* g_wakeup_signal.  A wakeup's fields kq and pending are only touched     *)
(* under its mutex, so each wakeup operation is one atomic step; g_poll    *)
(* itself is a sequence of steps (open and register, realize each wakeup,  *)
(* collect, unrealize each wakeup, close) between which signals interleave.*)
(*                                                                         *)
(* The kernel queue of the call is abstracted to the registrations it      *)
(* holds ('knotes': descriptor, filter, udata entry) and the user events   *)
(* triggered on it ('trig').  Which descriptors are ready when kevent      *)
(* collects is the environment's choice ('osReady').  A wakeup whose kq is *)
(* not -1 is 'realized'; since the owner's kqueue is the only one a        *)
(* wakeup is ever realized on, that is all of kq the code distinguishes.   *)
(***************************************************************************)
EXTENDS Integers, FiniteSets

CONSTANTS
  Wakeups,         \* the GWakeup objects
  FdValues,        \* the values a plain entry's fd may hold (negative: ignored)
  NEntries,        \* the length of the GPollFD array
  Arrays,          \* the GPollFD arrays the owner passes
  Timeouts,        \* timeout arguments (milliseconds)
  MaxCalls,        \* bound on the number of g_poll calls
  MaxSignals,      \* bound on the number of g_wakeup_signal calls
  PendingModulus   \* 2^32: the range of the guint field pending

\* G_IO_IN and G_IO_OUT, registered as EVFILT_READ and EVFILT_WRITE.
Ops == {"IN", "OUT"}
Entries == 1..NEntries
\* A GPollFD: its fd (a wakeup for G_KQUEUE_WAKEUP_HANDLE entries, whose
\* handle is the GWakeup) and its requested events.
EntryValues ==
  [h : Wakeups, events : {{"IN"}}] \cup [h : FdValues, events : SUBSET Ops]

ASSUME KqueueAssumption ==
  /\ Wakeups \cap FdValues = {}
  /\ FdValues \subseteq Int
  /\ NEntries \in Nat \ {0}
  /\ Arrays \subseteq [Entries -> EntryValues]
  /\ Timeouts \subseteq Int
  /\ MaxCalls \in Nat
  /\ MaxSignals \in Nat
  /\ PendingModulus \in Nat \ {0}

VARIABLES
  pc,        \* the owner: "idle", "register", "realize", "wait", "unrealize", "close"
  fds,       \* the array of the current (or last) call
  timeout,   \* its timeout argument
  idx,       \* loop index i of the realize and unrealize loops
  revents,   \* GPollFD.revents per entry
  result,    \* the value the last call returned
  knotes,    \* registrations in the call's kqueue
  trig,      \* wakeups whose EVFILT_USER event is triggered in the call's kqueue
  osReady,   \* per descriptor, the operations ready when kevent collected
  pending,   \* GWakeup.pending per wakeup
  realized,  \* per wakeup: GWakeup.kq # -1
  calls,     \* number of g_poll calls made
  signals    \* number of g_wakeup_signal calls made

vars == <<pc, fds, timeout, idx, revents, result, knotes, trig, osReady,
          pending, realized, calls, signals>>

Descriptors == {d \in FdValues : d >= 0}

IsWakeup(x) == x.h \in Wakeups

\* The wakeups an array contains (num_wakeup_fds > 0 iff not empty).
WakeupsOf(arr) == {arr[e].h : e \in {x \in Entries : IsWakeup(arr[x])}}

\* The plain entries of an array that are registered (fd >= 0).
PlainEntries(arr) == {e \in Entries : ~IsWakeup(arr[e]) /\ arr[e].h >= 0}

-----------------------------------------------------------------------------
\* A plausible fault: a changelist without the EVFILT_WRITE registrations.
KnotesReadOnly(arr) ==
  LET Req(d) == {e \in PlainEntries(arr) : arr[e].h = d /\ "IN" \in arr[e].events}
  IN  {[d |-> d, f |-> "IN", e |-> CHOOSE e \in Req(d) : \A x \in Req(d) : x <= e] :
          d \in {arr[e].h : e \in {x \in PlainEntries(arr) : "IN" \in arr[x].events}}}

(***************************************************************************)
(* The changelist: one EV_ADD per requested operation of every plain       *)
(* entry, in array order.  kqueue keeps one registration per descriptor    *)
(* and filter, and a later EV_ADD of the same pair replaces its udata, so  *)
(* the registration points at the last entry that requested it.           *)
(***************************************************************************)
Knotes(arr) ==
  LET Req(d, op) == {e \in PlainEntries(arr) : arr[e].h = d /\ op \in arr[e].events}
      Pairs == UNION {{<<arr[e].h, op>> : op \in arr[e].events} : e \in PlainEntries(arr)}
  IN  {[d |-> p[1], f |-> p[2],
        e |-> CHOOSE e \in Req(p[1], p[2]) : \A x \in Req(p[1], p[2]) : x <= e] :
          p \in Pairs}

\* The readiness snapshots kevent can collect: only the operations the
\* array requests on a descriptor matter.
Snapshots ==
  {r \in [Descriptors -> SUBSET Ops] :
       \A d \in Descriptors : \A op \in r[d] :
         \E e \in PlainEntries(fds) : fds[e].h = d /\ op \in fds[e].events}

-----------------------------------------------------------------------------
(***************************************************************************)
(* g_poll entry: kqueue() may fail (return -1 before touching anything);   *)
(* otherwise the changelist is built.  Without a wakeup in the array the   *)
(* registration and the wait are one kevent call.                          *)
(***************************************************************************)
Enter ==
  /\ pc = "idle"
  /\ calls < MaxCalls
  /\ \E arr \in Arrays, ms \in Timeouts, kqFails \in BOOLEAN :
       /\ fds' = arr
       /\ timeout' = ms
       /\ IF kqFails
            THEN /\ pc' = "idle"
                 /\ result' = -1
                 /\ UNCHANGED knotes
            ELSE /\ pc' = IF WakeupsOf(arr) # {} THEN "register" ELSE "wait"
                 /\ knotes' = Knotes(arr)
                 /\ UNCHANGED result
  /\ calls' = calls + 1
  /\ UNCHANGED <<idx, revents, trig, osReady, pending, realized, signals>>

(***************************************************************************)
(* With wakeups: register the changelist with no event list; on failure    *)
(* jump to beach, skipping the reset of revents.                           *)
(***************************************************************************)
Register ==
  /\ pc = "register"
  /\ idx' = 1
  /\ \E fails \in BOOLEAN :
       IF fails THEN pc' = "unrealize" /\ result' = -1
                ELSE pc' = "realize" /\ UNCHANGED result
  /\ UNCHANGED <<fds, timeout, revents, knotes, trig, osReady, pending,
                 realized, calls, signals>>

\* g_wakeup_signal_unlocked, with kq # -1 given as hasKq: trigger the user
\* event on the kqueue, then count the signal.
SignalUnlocked(w, hasKq) ==
  /\ trig' = IF hasKq THEN trig \cup {w} ELSE trig
  /\ pending' = [pending EXCEPT ![w] = (@ + 1) % PendingModulus]

\* A plausible fault: _g_wakeup_kqueue_realize not re-triggering.
RealizeNoRetrigger(w) ==
  /\ realized' = [realized EXCEPT ![w] = TRUE]
  /\ UNCHANGED <<trig, pending>>

(***************************************************************************)
(* _g_wakeup_kqueue_realize, under the wakeup's mutex: store kq and, if a  *)
(* signal is pending, signal again (unlocked) so the new kqueue sees it.   *)
(***************************************************************************)
Realize(w) ==
  /\ realized' = [realized EXCEPT ![w] = TRUE]
  /\ IF pending[w] # 0 THEN SignalUnlocked(w, TRUE)
                       ELSE UNCHANGED <<trig, pending>>

\* _g_wakeup_kqueue_unrealize, under the wakeup's mutex: kq = -1.
Unrealize(w) ==
  realized' = [realized EXCEPT ![w] = FALSE]

(***************************************************************************)
(* One iteration of the realize loop after the registering kevent: every  *)
(* wakeup entry of the array is realized on the call's kqueue.            *)
(***************************************************************************)
RealizeStep ==
  /\ pc = "realize"
  /\ IF IsWakeup(fds[idx]) THEN Realize(fds[idx].h)
                           ELSE UNCHANGED <<realized, trig, pending>>
  /\ idx' = idx + 1
  /\ pc' = IF idx = NEntries THEN "wait" ELSE "realize"
  /\ UNCHANGED <<fds, timeout, revents, result, knotes, osReady, calls, signals>>

\* A plausible fault: the EVFILT_USER loop not comparing the handle, so one
\* triggered wakeup marks every wakeup entry.
ReventsFromAnyHandle(readyKnotes, user) ==
  [e \in Entries |->
     IF IsWakeup(fds[e])
       THEN IF user # {} THEN fds[e].events \cap {"IN"} ELSE {}
       ELSE {k.f : k \in {k \in readyKnotes : k.e = e}} \cap fds[e].events]

(***************************************************************************)
(* The revents g_poll derives from what kevent returned: a triggered       *)
(* EVFILT_READ/EVFILT_WRITE registration sets G_IO_IN/G_IO_OUT in its      *)
(* udata entry if requested, and a triggered EVFILT_USER event sets G_IO_IN*)
(* in every wakeup entry with that handle.                                 *)
(***************************************************************************)
ReventsFrom(readyKnotes, user) ==
  [e \in Entries |->
     IF IsWakeup(fds[e])
       THEN IF fds[e].h \in user THEN fds[e].events \cap {"IN"} ELSE {}
       ELSE {k.f : k \in {k \in readyKnotes : k.e = e}} \cap fds[e].events]

\* After the collecting kevent: unrealize at beach if there are wakeups.
AfterCollect ==
  /\ idx' = 1
  /\ pc' = IF WakeupsOf(fds) # {} THEN "unrealize" ELSE "close"

\* A plausible fault: collecting only descriptor events, not EVFILT_USER ones.
CollectIgnoresUser ==
  /\ pc = "wait"
  /\ \E rdy \in Snapshots :
       LET rk == {k \in knotes : k.f \in rdy[k.d]}
           nev == Cardinality(rk)
       IN  /\ nev > 0 \/ timeout >= 0
           /\ osReady' = rdy
           /\ revents' = ReventsFrom(rk, {})
           /\ result' = IF nev > 0
                          THEN Cardinality({e \in Entries : revents'[e] # {}}) ELSE 0
  /\ AfterCollect
  /\ UNCHANGED <<fds, timeout, knotes, trig, pending, realized, calls, signals>>

(***************************************************************************)
(* The collecting kevent returns the triggered events (every ready         *)
(* registration and every triggered user event); while there are none it  *)
(* blocks unless the timeout is >= 0 (a negative timeout passes ts =       *)
(* NULL).  g_poll then zeroes every revents, ORs in the events, and turns  *)
(* a positive count into the number of entries with revents.               *)
(***************************************************************************)
Collect ==
  /\ pc = "wait"
  /\ \E rdy \in Snapshots :
       LET rk == {k \in knotes : k.f \in rdy[k.d]}
           nev == Cardinality(rk) + Cardinality(trig)
       IN  /\ nev > 0 \/ timeout >= 0
           /\ osReady' = rdy
           /\ revents' = ReventsFrom(rk, trig)
           /\ result' = IF nev > 0
                          THEN Cardinality({e \in Entries : revents'[e] # {}}) ELSE 0
  /\ AfterCollect
  /\ UNCHANGED <<fds, timeout, knotes, trig, pending, realized, calls, signals>>

(***************************************************************************)
(* The collecting kevent fails (EINTR, or an error): revents are zeroed    *)
(* and -1 is returned, after the same clean-up.                            *)
(***************************************************************************)
CollectFails ==
  /\ pc = "wait"
  /\ revents' = [e \in Entries |-> {}]
  /\ result' = -1
  /\ AfterCollect
  /\ UNCHANGED <<fds, timeout, knotes, trig, osReady, pending, realized, calls,
                 signals>>

(***************************************************************************)
(* One iteration of the loop at beach: every wakeup entry is unrealized.  *)
(***************************************************************************)
UnrealizeStep ==
  /\ pc = "unrealize"
  /\ IF IsWakeup(fds[idx]) THEN Unrealize(fds[idx].h) ELSE UNCHANGED realized
  /\ idx' = idx + 1
  /\ pc' = IF idx = NEntries THEN "close" ELSE "unrealize"
  /\ UNCHANGED <<fds, timeout, revents, result, knotes, trig, osReady, pending,
                 calls, signals>>

\* close (kq) and return: the registrations and triggered events go with it.
Close ==
  /\ pc = "close"
  /\ pc' = "idle"
  /\ knotes' = {}
  /\ trig' = {}
  /\ UNCHANGED <<fds, timeout, idx, revents, result, osReady, pending, realized,
                 calls, signals>>

\* g_wakeup_signal, from any thread: takes the mutex, signals unlocked.
Signal(w) ==
  /\ signals < MaxSignals
  /\ SignalUnlocked(w, realized[w])
  /\ signals' = signals + 1
  /\ UNCHANGED <<pc, fds, timeout, idx, revents, result, knotes, osReady,
                 realized, calls>>

(***************************************************************************)
(* g_wakeup_acknowledge, by the owner between calls: under the mutex,      *)
(* EV_DELETE and EV_ADD the user event on kq (which fails harmlessly when  *)
(* kq is -1), then reset pending.                                          *)
(***************************************************************************)
Acknowledge(w) ==
  /\ pc = "idle"
  /\ trig' = IF realized[w] THEN trig \ {w} ELSE trig
  /\ pending' = [pending EXCEPT ![w] = 0]
  /\ UNCHANGED <<pc, fds, timeout, idx, revents, result, knotes, osReady,
                 realized, calls, signals>>

(***************************************************************************)
(* The system may stop when every signal is sent and the owner has made    *)
(* its calls, or is blocked for good in a call with an infinite timeout    *)
(* and nothing registered that could fire.                                 *)
(***************************************************************************)
Quiescent ==
  /\ signals = MaxSignals
  /\ \/ pc = "idle" /\ calls = MaxCalls
     \/ pc = "wait" /\ timeout < 0 /\ knotes = {} /\ trig = {}

Init ==
  /\ pc = "idle"
  /\ fds \in Arrays
  /\ timeout = 0
  /\ idx = 1
  /\ revents = [e \in Entries |-> {}]
  /\ result = 0
  /\ knotes = {}
  /\ trig = {}
  /\ osReady = [d \in Descriptors |-> {}]
  /\ pending = [w \in Wakeups |-> 0]
  /\ realized = [w \in Wakeups |-> FALSE]
  /\ calls = 0
  /\ signals = 0

\* The steps of the owner's g_poll call after it has entered.
InCall ==
  Register \/ RealizeStep \/ Collect \/ CollectFails \/ UnrealizeStep \/ Close

Next ==
  \/ Enter \/ InCall
  \/ \E w \in Wakeups : Signal(w) \/ Acknowledge(w)
  \/ Quiescent /\ UNCHANGED vars

Spec == Init /\ [][Next]_vars

(***************************************************************************)
(* The owner thread is scheduled and kevent returns once an event is       *)
(* triggered (or its timeout passes): weak fairness of the call's steps.   *)
(* Entering a call, signalling and acknowledging are the callers' choice,  *)
(* and a failing kevent (EINTR) is the environment's, so not fair.         *)
(***************************************************************************)
FairSpec ==
  /\ Spec
  /\ WF_vars(Register) /\ WF_vars(RealizeStep) /\ WF_vars(Collect)
  /\ WF_vars(UnrealizeStep) /\ WF_vars(Close)
-----------------------------------------------------------------------------
TypeOK ==
  /\ pc \in {"idle", "register", "realize", "wait", "unrealize", "close"}
  /\ fds \in Arrays
  /\ timeout \in Timeouts \cup {0}
  /\ idx \in 1..NEntries + 1
  /\ revents \in [Entries -> SUBSET Ops]
  /\ result \in Int
  /\ knotes \subseteq [d : Descriptors, f : Ops, e : Entries]
  /\ trig \subseteq Wakeups
  /\ osReady \in [Descriptors -> SUBSET Ops]
  /\ pending \in [Wakeups -> 0..PendingModulus - 1]
  /\ realized \in [Wakeups -> BOOLEAN]
  /\ calls \in 0..MaxCalls
  /\ signals \in 0..MaxSignals

(***************************************************************************)
(* Signals reach the collecting kevent: while the owner waits, the user    *)
(* events triggered on its kqueue are exactly the wakeups of its array     *)
(* with pending # 0.  A signal before realize is re-raised by realize; one *)
(* after it triggers directly; one from an earlier call survives in        *)
(* pending, since that call's kqueue was closed.                           *)
(***************************************************************************)
TriggeredIffPending ==
  pc = "wait" => trig = {w \in WakeupsOf(fds) : pending[w] # 0}

\* A step is the collecting kevent returning.
Collecting == pc = "wait" /\ pc' # "wait"

(***************************************************************************)
(* Readiness is reported to the entry that asked: when kevent returns      *)
(* events, every plain entry gets exactly the requested operations its     *)
(* descriptor was ready for.                                               *)
(***************************************************************************)
KqueueReadyReported ==
  [][Collecting /\ result' > 0 =>
       \A e \in PlainEntries(fds) :
         revents'[e] = fds[e].events \cap osReady'[fds[e].h]]_vars

(***************************************************************************)
(* The wakeup contract (WakeupContract, spec section 4.2) seen through the *)
(* kqueue code: a wakeup is pending while GWakeup.pending # 0; the owner   *)
(* is polling until the collecting kevent returns and has returned while   *)
(* it unrealizes and closes; what the call observed is the wakeups whose   *)
(* entries got G_IO_IN.                                                    *)
(***************************************************************************)
ContractPc ==
  CASE pc \in {"register", "realize", "wait"} -> "polling"
    [] pc \in {"unrealize", "close"}          -> "returned"
    [] OTHER                                  -> "idle"

Contract == INSTANCE WakeupContract WITH
  pending  <- [w \in Wakeups |-> pending[w] # 0],
  apc      <- ContractPc,
  call     <- IF pc = "idle" THEN {} ELSE WakeupsOf(fds),
  observed <- IF ContractPc = "returned"
                THEN {fds[e].h : e \in {x \in Entries : IsWakeup(fds[x]) /\ "IN" \in revents[x]}}
                ELSE {},
  succeeded <- ContractPc = "returned" /\ result >= 0

(***************************************************************************)
(* The kqueue g_poll and GWakeup implement the wakeup contract: a signal   *)
(* is reported by every call that includes the wakeup until it is          *)
(* acknowledged, and a call reports nothing else.                          *)
(***************************************************************************)
KqueueContract == Contract!Spec

(***************************************************************************)
(* Under the fairness of FairSpec, a g_poll call blocked with a pending    *)
(* wakeup in its array returns.                                            *)
(***************************************************************************)
KqueuePendingReturns == Contract!PendingWakeupReturns
=============================================================================
