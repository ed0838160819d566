------------------------ MODULE KqueueContractProofs ------------------------
(***************************************************************************)
(* The kqueue g_poll and GWakeup implement the wakeup contract, for every  *)
(* number of wakeups, entries, calls and signals such that the guint       *)
(* pending cannot wrap (NoWrap).  The refinement rests on the inductive    *)
(* invariant KInv of KqueuePollProofs: the collecting kevent returns the   *)
(* user events of exactly the pending wakeups of the array, and no         *)
(* increment of pending (a signal, or the re-trigger in realize) reaches 0.*)
(***************************************************************************)
EXTENDS KqueuePollProofs, FiniteSetTheorems, TLAPS

(***************************************************************************)
(* The mapped state of WakeupContract, abbreviated.                        *)
(***************************************************************************)
MPending == [w \in Wakeups |-> pending[w] # 0]
MApc == ContractPc
MCall == IF pc = "idle" THEN {} ELSE WakeupsOf(fds)
\* The wakeups whose entries hold G_IO_IN.
Reported == {fds[e].h : e \in {x \in Entries : IsWakeup(fds[x]) /\ "IN" \in revents[x]}}
MObserved == IF MApc = "returned" THEN Reported ELSE {}
MSucceeded == MApc = "returned" /\ result >= 0

\* The contract's variables are these expressions of the kqueue state.
LEMMA MappingDefs ==
  /\ Contract!avars = <<MPending, MApc, MCall, MObserved, MSucceeded>>
  /\ Contract!avars' = <<MPending', MApc', MCall', MObserved', MSucceeded'>>
  BY DEF Contract!avars, MPending, MApc, MCall, MObserved, MSucceeded, Reported

\* The wakeup entries of an array are wakeups, and all they ask for is G_IO_IN.
LEMMA WakeupEntries ==
  ASSUME NEW arr \in [Entries -> EntryValues], NEW e \in Entries, IsWakeup(arr[e])
  PROVE  arr[e].h \in Wakeups /\ arr[e].events = {"IN"}
  BY KqueueAssumption DEF IsWakeup, EntryValues

\* The wakeups an array contains, and those it reports, are wakeups of it.
LEMMA ReportedInCall ==
  ASSUME KTypeOK
  PROVE  /\ WakeupsOf(fds) \subseteq Wakeups
         /\ Reported \subseteq WakeupsOf(fds)
  BY DEF KTypeOK, WakeupsOf, Reported, IsWakeup

(***************************************************************************)
(* The contract's pc, before and after a step, from the owner's pc.        *)
(***************************************************************************)
LEMMA MappedPc ==
  /\ pc \in {"register", "realize", "wait"} => MApc = "polling"
  /\ pc \in {"unrealize", "close"} => MApc = "returned"
  /\ pc = "idle" => MApc = "idle"
  /\ pc' \in {"register", "realize", "wait"} => MApc' = "polling"
  /\ pc' \in {"unrealize", "close"} => MApc' = "returned"
  /\ pc' = "idle" => MApc' = "idle"
  BY DEF MApc, ContractPc

(***************************************************************************)
(* The contract's actions, read on the mapped state.                       *)
(***************************************************************************)
LEMMA ContractActions ==
  /\ \A W : Contract!Begin(W) <=>
       /\ MApc = "idle" /\ MApc' = "polling" /\ MCall' = W
       /\ UNCHANGED <<MPending, MObserved, MSucceeded>>
  /\ Contract!Return <=>
       /\ MApc = "polling" /\ MApc' = "returned"
       /\ MObserved' = {w \in MCall : MPending[w]} /\ MSucceeded' = TRUE
       /\ UNCHANGED <<MPending, MCall>>
  /\ Contract!Fail <=>
       /\ MApc = "polling" /\ MApc' = "returned" /\ MObserved' \in SUBSET MCall
       /\ UNCHANGED <<MPending, MCall, MSucceeded>>
  /\ Contract!Finish <=>
       /\ MApc = "returned" /\ MApc' = "idle"
       /\ MCall' = {} /\ MObserved' = {} /\ MSucceeded' = FALSE
       /\ UNCHANGED MPending
  /\ \A w : Contract!Signal(w) <=>
       /\ MPending' = [MPending EXCEPT ![w] = TRUE]
       /\ UNCHANGED <<MApc, MCall, MObserved, MSucceeded>>
  /\ \A w : Contract!Acknowledge(w) <=>
       /\ MApc = "idle"
       /\ MPending' = [MPending EXCEPT ![w] = FALSE]
       /\ UNCHANGED <<MApc, MCall, MObserved, MSucceeded>>
  BY Zenon DEF Contract!Begin, Contract!Return, Contract!Fail, Contract!Finish,
     Contract!Signal, Contract!Acknowledge, MPending, MApc, MCall, MObserved,
     MSucceeded, Reported

(***************************************************************************)
(* Setting the pending count of one wakeup sets its flag to whether the    *)
(* new count is not 0 and leaves the other flags alone.                    *)
(***************************************************************************)
LEMMA PendingUpdate ==
  ASSUME KTypeOK, NEW w \in Wakeups, NEW n \in Int, NEW b \in BOOLEAN,
         pending' = [pending EXCEPT ![w] = n], b = (n # 0)
  PROVE  MPending' = [MPending EXCEPT ![w] = b]
  <1>1. \A x \in Wakeups : MPending'[x] = IF x = w THEN b ELSE MPending[x]
    BY DEF MPending, KTypeOK
  <1>2. QED
    BY <1>1, Zenon DEF MPending

(***************************************************************************)
(* The initial state maps to the contract's initial state.                 *)
(***************************************************************************)
LEMMA RefineInit == Init => Contract!Init
  <1> SUFFICES ASSUME Init PROVE Contract!Init
    OBVIOUS
  <1>1. \A w \in Wakeups : (pending[w] # 0) = FALSE
    BY DEF Init
  <1>2. [w \in Wakeups |-> pending[w] # 0] = [w \in Wakeups |-> FALSE]
    BY <1>1, Zenon
  <1>3. QED
    BY <1>2 DEF Init, Contract!Init, ContractPc
-----------------------------------------------------------------------------
(***************************************************************************)
(* One iteration of the realize loop changes no pending flag: it           *)
(* increments only a count that is not 0, and NoWrap keeps it from        *)
(* wrapping to 0.                                                          *)
(***************************************************************************)
LEMMA RealizeKeepsPending ==
  ASSUME NoWrap, KInv, RealizeStep
  PROVE  UNCHANGED MPending
  <1> USE KqueueAssumption
  <1> DEFINE v == fds[idx].h
             Hit == IsWakeup(fds[idx]) /\ pending[v] # 0
  <1>1. /\ KTypeOK /\ PendingBound /\ RealizedState
        /\ idx \in Entries
        /\ RealizeSteps = (calls - 1) * NEntries + idx - 1
    BY DEF RealizeStep, KInv, RealizedState, RealizeSteps, Entries
  <1>2. CASE Hit
    <2>1. v \in Wakeups
      BY <1>1, <1>2 DEF IsWakeup
    <2>2. pending[v] + 1 < PendingModulus
      <3>1. (calls - 1) * NEntries + idx <= MaxCalls * NEntries
        BY <1>1 DEF KTypeOK, Entries
      <3>2. signals + RealizeSteps + 1 <= MaxSignals + MaxCalls * NEntries
        BY <1>1, <3>1 DEF KTypeOK
      <3>3. QED
        BY <1>1, <2>1, <3>2, IncrementNoWrap
    <2>3. pending' = [pending EXCEPT ![v] = pending[v] + 1]
      BY <1>1, <1>2, <2>1, <2>2 DEF RealizeStep, Realize, SignalUnlocked, KTypeOK
    <2>4. pending[v] + 1 \in Int /\ TRUE = (pending[v] + 1 # 0)
      BY <1>1, <1>2, <2>1 DEF KTypeOK
    <2>5. MPending' = [MPending EXCEPT ![v] = TRUE]
      BY <1>1, <2>1, <2>3, <2>4, PendingUpdate
    <2>6. MPending[v] = TRUE
      BY <1>2, <2>1 DEF MPending
    <2>7. QED
      BY <2>5, <2>6 DEF MPending
  <1>3. CASE ~Hit
    <2>1. UNCHANGED pending
      BY <1>3 DEF RealizeStep, Realize
    <2>2. QED
      BY <2>1 DEF MPending
  <1>4. QED
    BY <1>2, <1>3

(***************************************************************************)
(* When the collecting kevent returns, the wakeups it reports are exactly  *)
(* the triggered ones of the array, which KInv makes the pending ones.     *)
(***************************************************************************)
LEMMA CollectReportsPending ==
  ASSUME KInv, Collect
  PROVE  Reported' = {w \in WakeupsOf(fds) : pending[w] # 0}
  <1>1. /\ KTypeOK /\ pc = "wait" /\ UNCHANGED fds
        /\ \E rk \in SUBSET knotes : revents' = ReventsFrom(rk, trig)
    BY DEF KInv, Collect
  <1>2. trig = {w \in WakeupsOf(fds) : pending[w] # 0}
    BY <1>1, KInvTriggered DEF TriggeredIffPending
  <1>3. \A e \in Entries : IsWakeup(fds[e]) => ("IN" \in revents'[e] <=> fds[e].h \in trig)
    BY <1>1, WakeupEntries DEF ReventsFrom, KTypeOK
  <1>4. Reported' = {fds[e].h : e \in {x \in Entries : IsWakeup(fds[x]) /\ fds[x].h \in trig}}
    BY <1>1, <1>3 DEF Reported
  <1>5. QED
    BY <1>2, <1>4 DEF WakeupsOf
-----------------------------------------------------------------------------
(***************************************************************************)
(* g_poll entry: a kqueue() that fails returns -1 with the owner still     *)
(* idle, a stutter of the contract; otherwise the call begins on the       *)
(* wakeups of its array.                                                   *)
(***************************************************************************)
LEMMA EnterRefines ==
  ASSUME KInv, Enter
  PROVE  [Contract!Next]_Contract!avars
  <1> USE MappingDefs
  <1>1. PICK arr \in Arrays, kqFails \in BOOLEAN :
          /\ fds' = arr
          /\ IF kqFails THEN pc' = "idle"
                        ELSE pc' \in {"register", "wait"}
    BY DEF Enter
  <1>2. /\ pc = "idle" /\ UNCHANGED pending
        /\ MApc = "idle" /\ MCall = {} /\ MObserved = {} /\ MSucceeded = FALSE
    BY MappedPc DEF Enter, MCall, MObserved, MSucceeded
  <1>3. CASE kqFails
    <2>1. MApc' = "idle" /\ MCall' = {} /\ MObserved' = {} /\ MSucceeded' = FALSE
      BY <1>1, <1>3, MappedPc DEF MCall, MObserved, MSucceeded
    <2>2. UNCHANGED MPending
      BY <1>2 DEF MPending
    <2>3. QED
      BY <1>2, <2>1, <2>2, Zenon
  <1>4. CASE ~kqFails
    <2>1. WakeupsOf(arr) \in SUBSET Wakeups
      BY KqueueAssumption DEF WakeupsOf, IsWakeup
    <2>2. /\ MApc' = "polling" /\ MCall' = WakeupsOf(arr)
          /\ MObserved' = {} /\ MSucceeded' = FALSE /\ UNCHANGED MPending
      BY <1>1, <1>2, <1>4, MappedPc DEF MCall, MObserved, MSucceeded, MPending
    <2>3. Contract!Begin(WakeupsOf(arr))
      BY <1>2, <2>2, ContractActions, Zenon
    <2>4. QED
      BY <2>1, <2>3 DEF Contract!Next
  <1>5. QED
    BY <1>3, <1>4

(***************************************************************************)
(* The registering kevent: a failure jumps to beach with -1 and the old    *)
(* revents, which is the contract's Fail; success is a stutter.            *)
(***************************************************************************)
LEMMA RegisterRefines ==
  ASSUME KInv, Register
  PROVE  [Contract!Next]_Contract!avars
  <1> USE MappingDefs
  <1>1. /\ pc = "register"
        /\ UNCHANGED <<fds, revents, pending>>
        /\ \/ pc' = "unrealize" /\ result' = -1
           \/ pc' = "realize" /\ UNCHANGED result
    BY DEF Register
  <1>2. /\ MApc = "polling" /\ MCall = WakeupsOf(fds) /\ MSucceeded = FALSE
        /\ UNCHANGED MPending
    BY <1>1, MappedPc DEF MCall, MSucceeded, MPending
  <1>3. CASE pc' = "unrealize"
    <2>1. MObserved' \in SUBSET MCall
      <3>1. MObserved' = Reported'
        BY <1>3, MappedPc DEF MObserved, MApc
      <3>2. QED
        BY <1>1, <1>2, <3>1, ReportedInCall DEF KInv, Reported
    <2>2. MApc' = "returned" /\ UNCHANGED MCall /\ MSucceeded' = FALSE
      BY <1>1, <1>3, MappedPc DEF MCall, MSucceeded, MApc
    <2>3. /\ MApc = "polling" /\ MApc' = "returned" /\ MObserved' \in SUBSET MCall
          /\ UNCHANGED <<MPending, MCall, MSucceeded>>
      BY <1>2, <2>1, <2>2, Zenon
    <2>4. Contract!Fail
      BY <2>3, ContractActions
    <2>5. QED
      BY <2>4 DEF Contract!Next
  <1>4. CASE pc' = "realize"
    <2>1. UNCHANGED <<MApc, MCall, MObserved, MSucceeded>>
      BY <1>1, <1>4, MappedPc DEF MCall, MObserved, MSucceeded, MApc
    <2>2. QED
      BY <1>2, <2>1
  <1>5. QED
    BY <1>1, <1>3, <1>4

(***************************************************************************)
(* The collecting kevent returns: a count (>= 0) and, by                   *)
(* CollectReportsPending, G_IO_IN on exactly the pending wakeups of the    *)
(* array, which is the contract's Return.                                  *)
(***************************************************************************)
LEMMA CollectRefines ==
  ASSUME KInv, Collect
  PROVE  [Contract!Next]_Contract!avars
  <1> USE MappingDefs
  <1>1. /\ pc = "wait" /\ pc' \in {"unrealize", "close"}
        /\ UNCHANGED <<fds, pending>>
    BY DEF Collect, AfterCollect
  <1>2. result' >= 0
    <2>1. PICK rdy \in Snapshots :
            LET rk == {k \in knotes : k.f \in rdy[k.d]}
                nev == Cardinality(rk) + Cardinality(trig)
            IN  result' = IF nev > 0
                            THEN Cardinality({e \in Entries : revents'[e] # {}}) ELSE 0
      BY DEF Collect
    <2>2. IsFiniteSet(Entries)
      BY KqueueAssumption, FS_Interval DEF Entries
    <2>3. IsFiniteSet({e \in Entries : revents'[e] # {}})
      BY <2>2, FS_Subset
    <2>4. Cardinality({e \in Entries : revents'[e] # {}}) \in Nat
      BY <2>3, FS_CardinalityType
    <2>5. QED
      BY <2>1, <2>4
  <1>3. /\ MApc = "polling" /\ MApc' = "returned"
        /\ UNCHANGED <<MPending, MCall>> /\ MCall = WakeupsOf(fds)
        /\ MSucceeded' = TRUE
        /\ MObserved' = Reported'
    BY <1>1, <1>2, MappedPc DEF MCall, MSucceeded, MPending, MObserved, MApc
  <1>4. MObserved' = {w \in MCall : MPending[w]}
    BY <1>3, CollectReportsPending DEF MPending, KInv, KTypeOK, WakeupsOf,
       IsWakeup
  <1>5. Contract!Return
    BY <1>3, <1>4, ContractActions
  <1>6. QED
    BY <1>5 DEF Contract!Next

(***************************************************************************)
(* The collecting kevent fails: no revents and -1, the contract's Fail.    *)
(***************************************************************************)
LEMMA CollectFailsRefines ==
  ASSUME KInv, CollectFails
  PROVE  [Contract!Next]_Contract!avars
  <1> USE MappingDefs
  <1>1. /\ pc = "wait" /\ pc' \in {"unrealize", "close"}
        /\ UNCHANGED <<fds, pending>>
        /\ revents' = [e \in Entries |-> {}] /\ result' = -1
    BY DEF CollectFails, AfterCollect
  <1>2. Reported' = {}
    BY <1>1 DEF Reported
  <1>3. /\ MApc = "polling" /\ MApc' = "returned"
        /\ UNCHANGED <<MPending, MCall, MSucceeded>>
        /\ MObserved' = {}
    BY <1>1, <1>2, MappedPc DEF MCall, MSucceeded, MPending, MObserved, MApc
  <1>4. Contract!Fail
    BY <1>3, ContractActions
  <1>5. QED
    BY <1>4 DEF Contract!Next

(***************************************************************************)
(* g_wakeup_signal: under NoWrap the count goes up without wrapping, so    *)
(* the wakeup becomes pending, the contract's Signal.                      *)
(***************************************************************************)
LEMMA SignalRefines ==
  ASSUME NoWrap, KInv, NEW w \in Wakeups, Signal(w)
  PROVE  [Contract!Next]_Contract!avars
  <1> USE MappingDefs
  <1>1. /\ KTypeOK /\ PendingBound /\ RealizedState
        /\ signals < MaxSignals
        /\ UNCHANGED <<pc, fds, revents, result>>
    BY DEF KInv, Signal
  <1>2. pending[w] + 1 < PendingModulus
    <2>1. RealizeSteps <= MaxCalls * NEntries
      BY <1>1, RealizeStepsBound
    <2>2. RealizeSteps \in Int
      BY <1>1, KqueueAssumption DEF RealizeSteps, KTypeOK
    <2>3. QED
      BY <1>1, <2>1, <2>2, KqueueAssumption, IncrementNoWrap DEF KTypeOK
  <1>3. (pending[w] + 1) % PendingModulus = pending[w] + 1
    BY <1>1, <1>2, KqueueAssumption DEF KTypeOK
  <1>4. pending' = [pending EXCEPT ![w] = pending[w] + 1]
    BY <1>3 DEF Signal, SignalUnlocked
  <1>5. pending[w] + 1 \in Int /\ TRUE = (pending[w] + 1 # 0)
    BY <1>1 DEF KTypeOK
  <1>6. MPending' = [MPending EXCEPT ![w] = TRUE]
    BY <1>1, <1>4, <1>5, PendingUpdate
  <1>7. UNCHANGED MApc
    BY <1>1, Zenon DEF MApc, ContractPc
  <1>8. UNCHANGED <<MApc, MCall, MObserved, MSucceeded>>
    BY <1>1, <1>7 DEF MCall, MObserved, MSucceeded, Reported
  <1>9. Contract!Signal(w)
    BY <1>6, <1>8, ContractActions
  <1>10. QED
    BY <1>9 DEF Contract!Next

(***************************************************************************)
(* g_wakeup_acknowledge by the idle owner: pending is 0, the contract's    *)
(* Acknowledge.                                                            *)
(***************************************************************************)
LEMMA AcknowledgeRefines ==
  ASSUME KInv, NEW w \in Wakeups, Acknowledge(w)
  PROVE  [Contract!Next]_Contract!avars
  <1> USE MappingDefs
  <1>1. /\ KTypeOK /\ pc = "idle"
        /\ pending' = [pending EXCEPT ![w] = 0]
        /\ UNCHANGED <<pc, fds, revents, result>>
    BY DEF KInv, Acknowledge
  <1>2. MPending' = [MPending EXCEPT ![w] = FALSE]
    BY <1>1, PendingUpdate, 0 \in Int, FALSE = (0 # 0)
  <1>3. MApc = "idle" /\ MApc' = "idle"
    BY <1>1, MappedPc
  <1>4. UNCHANGED <<MApc, MCall, MObserved, MSucceeded>>
    BY <1>1, <1>3 DEF MCall, MObserved, MSucceeded, Reported
  <1>5. Contract!Acknowledge(w)
    BY <1>2, <1>3, <1>4, ContractActions
  <1>6. QED
    BY <1>5 DEF Contract!Next

(***************************************************************************)
(* One iteration of the realize loop is a stutter of the contract: the     *)
(* call is still polling on the same wakeups and no pending flag changes.  *)
(***************************************************************************)
LEMMA RealizeRefines ==
  ASSUME NoWrap, KInv, RealizeStep
  PROVE  [Contract!Next]_Contract!avars
  <1> USE MappingDefs
  <1>1. /\ pc = "realize" /\ pc' \in {"realize", "wait"}
        /\ UNCHANGED <<fds, result>>
    BY DEF RealizeStep
  <1>2. MApc = "polling" /\ MApc' = "polling"
    BY <1>1, MappedPc
  <1>3. UNCHANGED <<MApc, MCall, MObserved, MSucceeded>>
    BY <1>1, <1>2 DEF MCall, MObserved, MSucceeded
  <1>4. QED
    BY <1>3, RealizeKeepsPending

(***************************************************************************)
(* One iteration of the unrealize loop at beach is a stutter: the call has *)
(* returned and its revents and result stay as they are.                   *)
(***************************************************************************)
LEMMA UnrealizeRefines ==
  ASSUME KInv, UnrealizeStep
  PROVE  [Contract!Next]_Contract!avars
  <1> USE MappingDefs
  <1>1. /\ pc = "unrealize" /\ pc' \in {"unrealize", "close"}
        /\ UNCHANGED <<fds, revents, result, pending>>
    BY DEF UnrealizeStep
  <1>2. MApc = "returned" /\ MApc' = "returned"
    BY <1>1, MappedPc
  <1>3. QED
    BY <1>1, <1>2 DEF MPending, MCall, MObserved, MSucceeded, Reported

(***************************************************************************)
(* close (kq): the owner is idle again, the contract's Finish.             *)
(***************************************************************************)
LEMMA CloseRefines ==
  ASSUME KInv, Close
  PROVE  [Contract!Next]_Contract!avars
  <1> USE MappingDefs
  <1>1. /\ pc = "close" /\ pc' = "idle"
        /\ UNCHANGED pending
    BY DEF Close
  <1>2. /\ MApc = "returned" /\ MApc' = "idle"
        /\ MCall' = {} /\ MObserved' = {} /\ MSucceeded' = FALSE
        /\ UNCHANGED MPending
    BY <1>1, MappedPc DEF MCall, MObserved, MSucceeded, MPending
  <1>3. Contract!Finish
    BY <1>2, ContractActions
  <1>4. QED
    BY <1>3 DEF Contract!Next

(***************************************************************************)
(* Every step of the kqueue system, in a state of KInv, is a step of the   *)
(* contract or leaves its variables unchanged.                             *)
(***************************************************************************)
LEMMA RefineStep ==
  ASSUME NoWrap, KInv, [Next]_vars
  PROVE  [Contract!Next]_Contract!avars
  <1>1. CASE Enter
    BY <1>1, EnterRefines
  <1>2. CASE Register
    BY <1>2, RegisterRefines
  <1>3. CASE RealizeStep
    BY <1>3, RealizeRefines
  <1>4. CASE Collect
    BY <1>4, CollectRefines
  <1>5. CASE CollectFails
    BY <1>5, CollectFailsRefines
  <1>6. CASE UnrealizeStep
    BY <1>6, UnrealizeRefines
  <1>7. CASE Close
    BY <1>7, CloseRefines
  <1>8. CASE \E w \in Wakeups : Signal(w)
    BY <1>8, SignalRefines
  <1>9. CASE \E w \in Wakeups : Acknowledge(w)
    BY <1>9, AcknowledgeRefines
  <1>10. CASE UNCHANGED vars
    <2>1. UNCHANGED MApc
      BY <1>10, Zenon DEF vars, MApc, ContractPc
    <2>2. QED
      BY <1>10, <2>1, MappingDefs DEF vars, MPending, MCall, MObserved,
         MSucceeded, Reported
  <1>11. QED
    BY <1>1, <1>2, <1>3, <1>4, <1>5, <1>6, <1>7, <1>8, <1>9, <1>10 DEF Next, InCall

(***************************************************************************)
(* KqueueContract, for every number of wakeups, entries, calls and signals *)
(* such that the guint pending cannot wrap: the kqueue g_poll and GWakeup  *)
(* implement the wakeup contract of spec section 4.2.  A signal, whether   *)
(* it lands before, during or after the realize loop, is reported by every *)
(* call that includes the wakeup until g_wakeup_acknowledge, a successful  *)
(* call reports no wakeup that is not pending, and only the owner's        *)
(* acknowledge, between calls, clears one.                                 *)
(***************************************************************************)
THEOREM KqueueRefinesContract ==
  ASSUME NoWrap
  PROVE  Spec => KqueueContract
  <1>1. Init => KInv /\ Contract!Init
    BY InitKInv, RefineInit
  <1>2. KInv /\ [Next]_vars => KInv' /\ [Contract!Next]_Contract!avars
    BY KInvStep, RefineStep
  <1>3. QED
    BY <1>1, <1>2, PTL DEF Spec, KqueueContract, Contract!Spec
=============================================================================
