-------------------------- MODULE KqueuePollProofs --------------------------
(***************************************************************************)
(* Proofs about KqueuePoll for every value of the constants: while the     *)
(* owner waits in the collecting kevent, the user events triggered on its  *)
(* kqueue are exactly the pending wakeups of its array, provided the guint *)
(* pending counter cannot wrap within the bounds of the run; and, for      *)
(* arrays whose plain entries are on distinct descriptors, a collecting    *)
(* kevent that returns events reports to every plain entry exactly its     *)
(* requested operations that are ready.                                    *)
(***************************************************************************)
EXTENDS KqueuePoll, TLAPS

(***************************************************************************)
(* pending cannot wrap: it grows by one per signal and by at most one per  *)
(* wakeup entry per call (the re-trigger in realize), and the modulus      *)
(* exceeds the most that can add up.  The real modulus is 2^32.            *)
(***************************************************************************)
NoWrap == PendingModulus > MaxSignals + MaxCalls * NEntries

\* The part of the type invariant the argument needs.
KTypeOK ==
  /\ pc \in {"idle", "register", "realize", "wait", "unrealize", "close"}
  /\ fds \in [Entries -> EntryValues]
  /\ idx \in 1..NEntries + 1
  /\ trig \subseteq Wakeups
  /\ pending \in [Wakeups -> 0..PendingModulus - 1]
  /\ realized \in [Wakeups -> BOOLEAN]
  /\ calls \in 0..MaxCalls
  /\ signals \in 0..MaxSignals

\* The realize steps done so far: NEntries per call, fewer in the current
\* call until its realize loop has finished.
RealizeSteps ==
  CASE pc = "register" -> (calls - 1) * NEntries
    [] pc = "realize"  -> (calls - 1) * NEntries + idx - 1
    [] OTHER           -> calls * NEntries

\* Every increment of pending is a signal or a realize step.
PendingBound == \A w \in Wakeups : pending[w] <= signals + RealizeSteps

\* The wakeups of entries below and from index i of the array.
WakeupsBelow(i) == {fds[e].h : e \in {x \in 1..i - 1 : IsWakeup(fds[x])}}
WakeupsFrom(i) == {fds[e].h : e \in {x \in i..NEntries : IsWakeup(fds[x])}}

\* Which wakeups have kq # -1 at each point of the owner's g_poll.
RealizedState ==
  /\ pc \in {"idle", "register", "close"} => \A w \in Wakeups : ~realized[w]
  /\ pc = "realize" => /\ idx \in 1..NEntries
                       /\ \A w \in Wakeups : realized[w] <=> w \in WakeupsBelow(idx)
  /\ pc = "wait" => \A w \in Wakeups : realized[w] <=> w \in WakeupsOf(fds)
  /\ pc = "unrealize" => /\ idx \in 1..NEntries
                         /\ \A w \in Wakeups : realized[w] => w \in WakeupsFrom(idx)

\* What is triggered on the call's kqueue before it collects.
TrigState ==
  /\ pc \in {"idle", "register"} => trig = {}
  /\ pc \in {"realize", "wait"} =>
       trig = {w \in Wakeups : realized[w] /\ pending[w] # 0}

(***************************************************************************)
(* The inductive invariant.  TriggeredIffPending alone is not inductive: a *)
(* signal must trigger the user event exactly when the wakeup is realized  *)
(* (RealizedState), realize must find the pending count of earlier        *)
(* signals (TrigState), and no increment may wrap to 0 (PendingBound).     *)
(***************************************************************************)
KInv == KTypeOK /\ PendingBound /\ RealizedState /\ TrigState

-----------------------------------------------------------------------------
\* The realize loop adds the wakeup of entry i to those below it.
LEMMA WakeupsBelowStep ==
  ASSUME KTypeOK, NEW i \in Entries
  PROVE  WakeupsBelow(i + 1) =
           WakeupsBelow(i) \cup (IF IsWakeup(fds[i]) THEN {fds[i].h} ELSE {})
BY KqueueAssumption DEF KTypeOK, WakeupsBelow, Entries

\* After the last entry the realize loop has realized every wakeup of the array.
LEMMA WakeupsBelowAll ==
  ASSUME KTypeOK
  PROVE  WakeupsBelow(NEntries + 1) = WakeupsOf(fds)
BY KqueueAssumption DEF KTypeOK, WakeupsBelow, WakeupsOf, Entries

\* The unrealize loop starts with every wakeup of the array still to do.
LEMMA WakeupsFromAll ==
  ASSUME KTypeOK
  PROVE  WakeupsFrom(1) = WakeupsOf(fds)
BY KqueueAssumption DEF KTypeOK, WakeupsFrom, WakeupsOf, Entries

\* A wakeup still to unrealize, other than the one of entry i, is further on.
LEMMA WakeupsFromStep ==
  ASSUME KTypeOK, NEW i \in Entries, NEW w \in WakeupsFrom(i),
         ~IsWakeup(fds[i]) \/ fds[i].h # w
  PROVE  w \in WakeupsFrom(i + 1)
BY KqueueAssumption DEF KTypeOK, WakeupsFrom, Entries

\* Nothing is left to unrealize after the last entry.
LEMMA WakeupsFromNone ==
  WakeupsFrom(NEntries + 1) = {}
BY KqueueAssumption DEF WakeupsFrom

\* The realize steps of all calls never exceed NEntries per call.
LEMMA RealizeStepsBound ==
  ASSUME KTypeOK, RealizedState
  PROVE  RealizeSteps <= MaxCalls * NEntries
<1>1. calls * NEntries <= MaxCalls * NEntries
  BY KqueueAssumption DEF KTypeOK
<1>2. pc = "realize" => idx - 1 <= NEntries
  BY KqueueAssumption DEF RealizedState
<1>3. QED
  BY <1>1, <1>2, KqueueAssumption DEF RealizeSteps, KTypeOK

\* Under NoWrap, one more increment of a pending count bounded by a signal
\* not yet sent does not wrap.
LEMMA IncrementNoWrap ==
  ASSUME NoWrap, KTypeOK, PendingBound, RealizedState, NEW w \in Wakeups,
         NEW extra \in Int, signals + RealizeSteps + extra <= MaxSignals + MaxCalls * NEntries
  PROVE  /\ pending[w] + extra < PendingModulus
<1>1. pending[w] <= signals + RealizeSteps
  BY DEF PendingBound
<1>2. RealizeSteps \in Int
  BY KqueueAssumption DEF RealizeSteps, KTypeOK
<1>3. QED
  BY <1>1, <1>2, KqueueAssumption DEF NoWrap, KTypeOK

-----------------------------------------------------------------------------
\* The initial state: no call, nothing realized, triggered or pending.
LEMMA InitKInv == Init => KInv
BY KqueueAssumption
   DEF Init, KInv, KTypeOK, PendingBound, RealizeSteps, RealizedState, TrigState

\* g_poll entry: a failed kqueue() returns at once, a call without wakeups
\* goes straight to the wait, with nothing realized or triggered.
LEMMA EnterKInv ==
  ASSUME KInv, Enter
  PROVE  KInv'
<1> USE KqueueAssumption
<1>1. /\ pc = "idle"
      /\ \A w \in Wakeups : ~realized[w]
      /\ trig = {}
      /\ RealizeSteps = calls * NEntries
  BY DEF Enter, KInv, RealizedState, TrigState, RealizeSteps
<1>2. PICK arr \in Arrays, ms \in Timeouts, kqFails \in BOOLEAN :
        /\ fds' = arr
        /\ IF kqFails THEN pc' = "idle"
                      ELSE pc' = IF WakeupsOf(arr) # {} THEN "register" ELSE "wait"
  BY DEF Enter
<1>3. KTypeOK'
  BY <1>2 DEF Enter, KInv, KTypeOK
<1>4. RealizeSteps' >= RealizeSteps
  BY <1>1, <1>2 DEF Enter, KInv, KTypeOK, RealizeSteps
<1>5. PendingBound'
  BY <1>1, <1>4 DEF Enter, KInv, KTypeOK, PendingBound, RealizeSteps
<1>6. pc' = "wait" => WakeupsOf(fds') = {}
  BY <1>2
<1>7. RealizedState'
  BY <1>1, <1>2, <1>6 DEF Enter, RealizedState
<1>8. TrigState'
  BY <1>1, <1>2 DEF Enter, TrigState
<1>9. QED
  BY <1>3, <1>5, <1>7, <1>8 DEF KInv

\* The registering kevent: on to realize from entry 1, or to beach.
LEMMA RegisterKInv ==
  ASSUME KInv, Register
  PROVE  KInv'
<1> USE KqueueAssumption
<1>1. /\ \A w \in Wakeups : ~realized[w]
      /\ trig = {}
      /\ RealizeSteps = (calls - 1) * NEntries
  BY DEF Register, KInv, RealizedState, TrigState, RealizeSteps
<1>2. pc' \in {"realize", "unrealize"}
  BY DEF Register
<1>3. KTypeOK'
  BY <1>2 DEF Register, KInv, KTypeOK
<1>4. RealizeSteps' >= RealizeSteps
  BY <1>1, <1>2 DEF Register, KInv, KTypeOK, RealizeSteps
<1>5. PendingBound'
  BY <1>1, <1>4 DEF Register, KInv, KTypeOK, PendingBound, RealizeSteps
<1>6. WakeupsBelow(1)' = {}
  BY DEF WakeupsBelow
<1>7. RealizedState'
  BY <1>1, <1>2, <1>6 DEF Register, RealizedState
<1>8. TrigState'
  BY <1>1, <1>2 DEF Register, TrigState
<1>9. QED
  BY <1>3, <1>5, <1>7, <1>8 DEF KInv

(***************************************************************************)
(* One iteration of the realize loop.  Realizing a wakeup with a pending   *)
(* signal triggers it on the new kqueue and increments pending, which      *)
(* NoWrap keeps from reaching 0; the realized set grows by the entry's     *)
(* wakeup, and after the last entry it is the array's.                     *)
(***************************************************************************)
LEMMA RealizeStepKInv ==
  ASSUME NoWrap, KInv, RealizeStep
  PROVE  KInv'
<1> USE KqueueAssumption
<1> DEFINE v == fds[idx].h
           Hit == IsWakeup(fds[idx]) /\ pending[v] # 0
<1>1. /\ KTypeOK /\ PendingBound /\ RealizedState
      /\ pc = "realize"
      /\ idx \in Entries
      /\ \A w \in Wakeups : realized[w] <=> w \in WakeupsBelow(idx)
      /\ trig = {w \in Wakeups : realized[w] /\ pending[w] # 0}
      /\ RealizeSteps = (calls - 1) * NEntries + idx - 1
  BY DEF RealizeStep, KInv, RealizedState, TrigState, RealizeSteps, Entries
<1>2. IsWakeup(fds[idx]) => v \in Wakeups
  BY <1>1 DEF IsWakeup
<1>3. Hit => pending[v] + 1 < PendingModulus
  <2>1. (calls - 1) * NEntries + idx <= MaxCalls * NEntries
    BY <1>1 DEF KTypeOK, Entries
  <2>2. signals + RealizeSteps + 1 <= MaxSignals + MaxCalls * NEntries
    BY <1>1, <2>1 DEF KTypeOK
  <2>3. QED
    BY <1>1, <1>2, <2>2, IncrementNoWrap
<1>4. /\ realized' = IF IsWakeup(fds[idx]) THEN [realized EXCEPT ![v] = TRUE]
                                          ELSE realized
      /\ pending' = IF Hit THEN [pending EXCEPT ![v] = pending[v] + 1] ELSE pending
      /\ trig' = IF Hit THEN trig \cup {v} ELSE trig
  <2>1. CASE Hit
    BY <2>1, <1>1, <1>2, <1>3 DEF RealizeStep, Realize, SignalUnlocked, KTypeOK
  <2>2. CASE ~Hit
    BY <2>2 DEF RealizeStep, Realize
  <2>3. QED
    BY <2>1, <2>2
<1>5. /\ pc' \in {"realize", "wait"}
      /\ pc' = "realize" => idx + 1 \in Entries
      /\ pc' = "wait" => idx = NEntries
      /\ UNCHANGED <<fds, calls, signals>>
      /\ idx' = idx + 1
  BY <1>1 DEF RealizeStep, Entries
<1>6. KTypeOK'
  BY <1>1, <1>2, <1>3, <1>4, <1>5 DEF KTypeOK, Entries
<1>7. RealizeSteps' = RealizeSteps + 1
  <2>1. CASE pc' = "realize"
    BY <1>1, <1>5, <2>1 DEF RealizeSteps, KTypeOK, Entries
  <2>2. CASE pc' = "wait"
    BY <1>1, <1>5, <2>2 DEF RealizeSteps, KTypeOK, Entries
  <2>3. QED
    BY <1>5, <2>1, <2>2
<1>8. PendingBound'
  BY <1>1, <1>2, <1>4, <1>5, <1>7 DEF PendingBound, KTypeOK
<1>9. WakeupsBelow(idx)' = WakeupsBelow(idx + 1)
  BY <1>5 DEF WakeupsBelow
<1>10. \A w \in Wakeups : realized'[w] <=> w \in WakeupsBelow(idx)'
  BY <1>1, <1>2, <1>4, <1>9, WakeupsBelowStep DEF KTypeOK
<1>11. RealizedState'
  <2>1. pc' = "wait" => \A w \in Wakeups : realized'[w] <=> w \in WakeupsOf(fds')
    <3>1. pc' = "wait" => WakeupsBelow(idx)' = WakeupsOf(fds')
      BY <1>1, <1>5, <1>9, WakeupsBelowAll DEF WakeupsOf
    <3>2. QED
      BY <1>10, <3>1
  <2>2. QED
    BY <1>5, <1>10, <2>1 DEF RealizedState, Entries
<1>12. TrigState'
  BY <1>1, <1>2, <1>3, <1>4, <1>5 DEF TrigState, KTypeOK
<1>13. QED
  BY <1>6, <1>8, <1>11, <1>12 DEF KInv

\* The collecting kevent returns or fails; the unrealize loop starts with
\* exactly the array's wakeups realized.
LEMMA CollectKInv ==
  ASSUME KInv, Collect \/ CollectFails
  PROVE  KInv'
<1> USE KqueueAssumption
<1>1. /\ pc = "wait"
      /\ AfterCollect
      /\ UNCHANGED <<fds, trig, pending, realized, calls, signals>>
  BY Zenon DEF Collect, CollectFails
<1>2. /\ KTypeOK /\ PendingBound
      /\ \A w \in Wakeups : realized[w] <=> w \in WakeupsOf(fds)
  BY <1>1 DEF KInv, RealizedState
<1>3. /\ pc' \in {"unrealize", "close"}
      /\ pc' = "close" => WakeupsOf(fds) = {}
      /\ idx' = 1
  BY <1>1 DEF AfterCollect
<1>4. KTypeOK'
  BY <1>1, <1>2, <1>3 DEF KTypeOK
<1>5. PendingBound'
  BY <1>1, <1>2, <1>3 DEF PendingBound, RealizeSteps
<1>6. WakeupsFrom(idx)' = WakeupsOf(fds)
  BY <1>1, <1>2, <1>3, WakeupsFromAll DEF WakeupsFrom
<1>7. RealizedState'
  BY <1>1, <1>2, <1>3, <1>6 DEF RealizedState, KTypeOK
<1>8. TrigState'
  BY <1>3 DEF TrigState
<1>9. QED
  BY <1>4, <1>5, <1>7, <1>8 DEF KInv

\* One iteration of the unrealize loop at beach: the wakeup of the entry is
\* no longer realized, and after the last entry none is.
LEMMA UnrealizeStepKInv ==
  ASSUME KInv, UnrealizeStep
  PROVE  KInv'
<1> USE KqueueAssumption
<1> DEFINE v == fds[idx].h
<1>1. /\ KTypeOK /\ PendingBound
      /\ pc = "unrealize"
      /\ idx \in Entries
      /\ \A w \in Wakeups : realized[w] => w \in WakeupsFrom(idx)
  BY DEF UnrealizeStep, KInv, RealizedState, Entries
<1>2. /\ realized' = IF IsWakeup(fds[idx]) THEN [realized EXCEPT ![v] = FALSE]
                                          ELSE realized
      /\ pc' \in {"unrealize", "close"}
      /\ pc' = "unrealize" => idx + 1 \in Entries
      /\ pc' = "close" => idx = NEntries
      /\ idx' = idx + 1
      /\ UNCHANGED <<fds, trig, pending, calls, signals>>
  BY <1>1 DEF UnrealizeStep, Unrealize, Entries
<1>3. KTypeOK'
  <2>1. realized' \in [Wakeups -> BOOLEAN]
    <3>1. CASE IsWakeup(fds[idx])
      BY <1>1, <1>2, <3>1 DEF KTypeOK
    <3>2. CASE ~IsWakeup(fds[idx])
      BY <1>1, <1>2, <3>2 DEF KTypeOK
    <3>3. QED
      BY <3>1, <3>2
  <2>2. QED
    BY <1>1, <1>2, <2>1 DEF KTypeOK, Entries
<1>4. PendingBound'
  BY <1>1, <1>2 DEF PendingBound, RealizeSteps
<1>5. \A w \in Wakeups : realized'[w] => w \in WakeupsFrom(idx + 1)
  BY <1>1, <1>2, WakeupsFromStep DEF KTypeOK
<1>6. WakeupsFrom(idx)' = WakeupsFrom(idx + 1)
  BY <1>2 DEF WakeupsFrom
<1>7. RealizedState'
  BY <1>2, <1>5, <1>6, WakeupsFromNone DEF RealizedState, Entries
<1>8. TrigState'
  BY <1>2 DEF TrigState
<1>9. QED
  BY <1>3, <1>4, <1>7, <1>8 DEF KInv

\* close(kq): the owner is idle again with nothing realized or triggered.
LEMMA CloseKInv ==
  ASSUME KInv, Close
  PROVE  KInv'
BY KqueueAssumption
   DEF Close, KInv, KTypeOK, PendingBound, RealizeSteps, RealizedState, TrigState

(***************************************************************************)
(* g_wakeup_signal from another thread, at any point of the owner's call.  *)
(* Under NoWrap the increment leaves pending # 0, and the user event is    *)
(* triggered exactly when the wakeup is realized on the call's kqueue.     *)
(***************************************************************************)
LEMMA SignalKInv ==
  ASSUME NoWrap, KInv, NEW w0 \in Wakeups, Signal(w0)
  PROVE  KInv'
<1> USE KqueueAssumption
<1>1. /\ KTypeOK /\ PendingBound /\ RealizedState /\ TrigState
      /\ signals < MaxSignals
  BY DEF KInv, Signal
<1>2. pending[w0] + 1 < PendingModulus
  <2>1. RealizeSteps <= MaxCalls * NEntries
    BY <1>1, RealizeStepsBound
  <2>2. RealizeSteps \in Int
    BY <1>1 DEF RealizeSteps, KTypeOK
  <2>3. QED
    BY <1>1, <2>1, <2>2, IncrementNoWrap DEF KTypeOK
<1>3. /\ pending' = [pending EXCEPT ![w0] = pending[w0] + 1]
      /\ trig' = IF realized[w0] THEN trig \cup {w0} ELSE trig
      /\ signals' = signals + 1
      /\ UNCHANGED <<pc, fds, idx, realized, calls>>
  <2>1. (pending[w0] + 1) % PendingModulus = pending[w0] + 1
    BY <1>1, <1>2 DEF KTypeOK
  <2>2. QED
    BY <2>1 DEF Signal, SignalUnlocked
<1>4. KTypeOK'
  BY <1>1, <1>2, <1>3 DEF KTypeOK
<1>5. PendingBound'
  BY <1>1, <1>3 DEF PendingBound, RealizeSteps, KTypeOK
<1>6. RealizedState'
  BY <1>1, <1>3 DEF RealizedState, WakeupsBelow, WakeupsFrom, WakeupsOf
<1>7. TrigState'
  BY <1>1, <1>3 DEF TrigState, RealizedState, KTypeOK
<1>8. QED
  BY <1>4, <1>5, <1>6, <1>7 DEF KInv

\* g_wakeup_acknowledge by the idle owner: pending is reset, and there is
\* no kqueue it could be triggered on.
LEMMA AcknowledgeKInv ==
  ASSUME KInv, NEW w0 \in Wakeups, Acknowledge(w0)
  PROVE  KInv'
BY KqueueAssumption
   DEF Acknowledge, KInv, KTypeOK, PendingBound, RealizeSteps, RealizedState, TrigState

\* KInv is inductive when pending cannot wrap.
LEMMA KInvStep ==
  ASSUME NoWrap, KInv, [Next]_vars
  PROVE  KInv'
<1>1. CASE Enter
  BY <1>1, EnterKInv
<1>2. CASE Register
  BY <1>2, RegisterKInv
<1>3. CASE RealizeStep
  BY <1>3, RealizeStepKInv
<1>4. CASE Collect \/ CollectFails
  BY <1>4, CollectKInv
<1>5. CASE UnrealizeStep
  BY <1>5, UnrealizeStepKInv
<1>6. CASE Close
  BY <1>6, CloseKInv
<1>7. CASE \E w \in Wakeups : Signal(w)
  BY <1>7, SignalKInv
<1>8. CASE \E w \in Wakeups : Acknowledge(w)
  BY <1>8, AcknowledgeKInv
<1>9. CASE UNCHANGED vars
  BY <1>9 DEF vars, KInv, KTypeOK, PendingBound, RealizeSteps, RealizedState,
             TrigState, WakeupsBelow, WakeupsFrom, WakeupsOf, IsWakeup
<1>10. QED
  BY <1>1, <1>2, <1>3, <1>4, <1>5, <1>6, <1>7, <1>8, <1>9 DEF Next, InCall

\* While the owner waits, realized is the array's wakeups, so the
\* triggered events are the array's pending wakeups.
LEMMA KInvTriggered == KInv => TriggeredIffPending
BY DEF KInv, KTypeOK, RealizedState, TrigState, TriggeredIffPending, WakeupsOf,
       IsWakeup, EntryValues, Entries

(***************************************************************************)
(* For every number of wakeups, entries, calls and signals, as long as the *)
(* guint pending cannot wrap (NoWrap): whenever the owner waits in the     *)
(* collecting kevent, the user events triggered on its kqueue are exactly  *)
(* the wakeups of its array with a pending signal, so the signal/realize   *)
(* race of _g_wakeup_kqueue_realize loses no signal.                       *)
(***************************************************************************)
THEOREM KqueueTriggeredIffPending ==
  ASSUME NoWrap
  PROVE  Spec => []TriggeredIffPending
<1>1. Init => KInv
  BY InitKInv
<1>2. KInv /\ [Next]_vars => KInv'
  BY KInvStep
<1>3. KInv => TriggeredIffPending
  BY KInvTriggered
<1>4. QED
  BY <1>1, <1>2, <1>3, PTL DEF Spec
-----------------------------------------------------------------------------
(***************************************************************************)
(* Readiness reported to the entry that asked.  kqueue keeps one           *)
(* registration per descriptor and filter, so the property needs the      *)
(* arrays' plain entries to be on distinct descriptors (with two entries   *)
(* on one descriptor the later one takes the registration: the dupfd run). *)
(***************************************************************************)
DistinctDescriptors ==
  \A arr \in Arrays : \A e1, e2 \in PlainEntries(arr) :
    arr[e1].h = arr[e2].h => e1 = e2

\* From g_poll's entry until it collects, the call's kqueue holds the
\* changelist of its array.
KnotesState == pc \in {"register", "realize", "wait"} => knotes = Knotes(fds)

\* The inductive invariant of readiness reporting.
RInv == fds \in Arrays /\ KnotesState

(***************************************************************************)
(* With distinct descriptors, the registrations whose udata is a plain     *)
(* entry are one per operation it requests, on its descriptor.             *)
(***************************************************************************)
LEMMA KnotesOfEntry ==
  ASSUME DistinctDescriptors, NEW arr \in Arrays, NEW e \in PlainEntries(arr)
  PROVE  {k \in Knotes(arr) : k.e = e} =
           {[d |-> arr[e].h, f |-> op, e |-> e] : op \in arr[e].events}
  <1> DEFINE Req(d, op) == {x \in PlainEntries(arr) : arr[x].h = d /\ op \in arr[x].events}
             Pairs == UNION {{<<arr[x].h, op>> : op \in arr[x].events} : x \in PlainEntries(arr)}
             Pick(d, op) == CHOOSE x \in Req(d, op) : \A y \in Req(d, op) : y <= x
             Rec(p) == [d |-> p[1], f |-> p[2], e |-> Pick(p[1], p[2])]
  <1>1. Knotes(arr) = {Rec(p) : p \in Pairs}
    BY DEF Knotes
  <1>2. PlainEntries(arr) \subseteq Int
    BY DEF PlainEntries, Entries
  <1>3. ASSUME NEW x \in PlainEntries(arr), NEW op \in arr[x].events
        PROVE  Pick(arr[x].h, op) = x
    <2>1. Req(arr[x].h, op) = {x}
      BY DEF DistinctDescriptors
    <2>2. \A y \in {x} : y <= x
      BY <1>2
    <2>3. QED
      BY <2>1, <2>2
  <1>4. ASSUME NEW k \in Knotes(arr), k.e = e
        PROVE  k \in {[d |-> arr[e].h, f |-> op, e |-> e] : op \in arr[e].events}
    <2>1. PICK x \in PlainEntries(arr) : \E op \in arr[x].events :
            k = Rec(<<arr[x].h, op>>)
      BY <1>1
    <2>2. PICK op \in arr[x].events : k = Rec(<<arr[x].h, op>>)
      BY <2>1
    <2>3. k = [d |-> arr[x].h, f |-> op, e |-> Pick(arr[x].h, op)]
      BY <2>2 DEF Rec
    <2>4. Pick(arr[x].h, op) = x
      BY <1>3
    <2>5. x = e
      BY <1>4, <2>3, <2>4
    <2>6. QED
      BY <2>3, <2>4, <2>5
  <1>5. ASSUME NEW op \in arr[e].events
        PROVE  [d |-> arr[e].h, f |-> op, e |-> e] \in {k \in Knotes(arr) : k.e = e}
    <2>1. <<arr[e].h, op>> \in Pairs
      OBVIOUS
    <2>2. Rec(<<arr[e].h, op>>) = [d |-> arr[e].h, f |-> op, e |-> Pick(arr[e].h, op)]
      BY DEF Rec
    <2>3. Pick(arr[e].h, op) = e
      BY <1>3
    <2>4. QED
      BY <1>1, <2>1, <2>2, <2>3
  <1>6. QED
    BY <1>4, <1>5

\* Initially the array is one of Arrays and no call is in progress.
LEMMA InitRInv == Init => RInv
  BY DEF Init, RInv, KnotesState

\* Every step keeps the array in Arrays and the changelist registered.
LEMMA RInvStep ==
  ASSUME RInv, [Next]_vars
  PROVE  RInv'
  <1>1. CASE Enter
    BY <1>1 DEF Enter, RInv, KnotesState
  <1>2. CASE InCall
    BY <1>2 DEF InCall, Register, RealizeStep, Collect, CollectFails, AfterCollect,
       UnrealizeStep, Close, RInv, KnotesState
  <1>3. CASE \E w \in Wakeups : Signal(w) \/ Acknowledge(w)
    BY <1>3 DEF Signal, Acknowledge, RInv, KnotesState
  <1>4. CASE UNCHANGED vars
    BY <1>4 DEF vars, RInv, KnotesState
  <1>5. QED
    BY <1>1, <1>2, <1>3, <1>4 DEF Next

(***************************************************************************)
(* A step that collects with a positive count is Collect, on the           *)
(* registered changelist, and gives each plain entry its requested         *)
(* operations that the snapshot has ready.                                 *)
(***************************************************************************)
LEMMA ReadyStep ==
  ASSUME DistinctDescriptors, RInv, [Next]_vars, Collecting, result' > 0
  PROVE  \A e \in PlainEntries(fds) :
           revents'[e] = fds[e].events \cap osReady'[fds[e].h]
  <1>1. Collect
    <2>1. pc = "wait" /\ pc' # "wait"
      BY DEF Collecting
    <2>2. ~CollectFails
      BY DEF CollectFails
    <2>3. QED
      BY <2>1, <2>2 DEF Next, InCall, Enter, Register, RealizeStep, UnrealizeStep,
         Close, Signal, Acknowledge, vars
  <1>2. PICK rdy \in Snapshots :
          /\ osReady' = rdy
          /\ revents' = ReventsFrom({k \in knotes : k.f \in rdy[k.d]}, trig)
    BY <1>1 DEF Collect
  <1>3. knotes = Knotes(fds) /\ fds \in Arrays
    BY <1>1 DEF Collect, RInv, KnotesState
  <1>4. ASSUME NEW e \in PlainEntries(fds)
        PROVE  revents'[e] = fds[e].events \cap osReady'[fds[e].h]
    <2>1. e \in Entries /\ ~IsWakeup(fds[e])
      BY DEF PlainEntries
    <2>2. revents'[e] =
            {k.f : k \in {k \in {k \in knotes : k.f \in rdy[k.d]} : k.e = e}}
              \cap fds[e].events
      BY <1>2, <2>1 DEF ReventsFrom
    <2>3. {k \in knotes : k.e = e} =
            {[d |-> fds[e].h, f |-> op, e |-> e] : op \in fds[e].events}
      BY <1>3, KnotesOfEntry
    <2>4. {k.f : k \in {k \in {k \in knotes : k.f \in rdy[k.d]} : k.e = e}} =
            {op \in fds[e].events : op \in rdy[fds[e].h]}
      <3>1. ASSUME NEW k \in knotes, k.f \in rdy[k.d], k.e = e
            PROVE  k.f \in fds[e].events /\ k.f \in rdy[fds[e].h]
        <4>1. PICK op \in fds[e].events : k = [d |-> fds[e].h, f |-> op, e |-> e]
          BY <2>3, <3>1
        <4>2. QED
          BY <3>1, <4>1
      <3>2. ASSUME NEW op \in fds[e].events, op \in rdy[fds[e].h]
            PROVE  \E k \in knotes : k.f \in rdy[k.d] /\ k.e = e /\ k.f = op
        <4>1. [d |-> fds[e].h, f |-> op, e |-> e] \in knotes
          BY <2>3
        <4>2. QED
          BY <3>2, <4>1
      <3>3. QED
        BY <3>1, <3>2
    <2>5. QED
      BY <1>2, <2>2, <2>4
  <1>5. QED
    BY <1>4

(***************************************************************************)
(* KqueueReadyReported, for arrays whose plain entries are on distinct     *)
(* descriptors, for every number of entries and wakeups: when the          *)
(* collecting kevent returns events, every plain entry gets exactly the    *)
(* operations it requested that its descriptor was ready for, however      *)
(* signals and failed registrations interleave with the call.              *)
(***************************************************************************)
THEOREM KqueueReadyReportedThm ==
  ASSUME DistinctDescriptors
  PROVE  Spec => KqueueReadyReported
  <1>1. Init => RInv
    BY InitRInv
  <1>2. RInv /\ [Next]_vars => RInv'
    BY RInvStep
  <1>3. RInv /\ [Next]_vars =>
          [Collecting /\ result' > 0 =>
             \A e \in PlainEntries(fds) :
               revents'[e] = fds[e].events \cap osReady'[fds[e].h]]_vars
    BY ReadyStep
  <1>4. QED
    BY <1>1, <1>2, <1>3, PTL DEF Spec, KqueueReadyReported
=============================================================================
