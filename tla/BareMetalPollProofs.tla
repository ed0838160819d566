----------------------- MODULE BareMetalPollProofs -----------------------
(***************************************************************************)
(* Proofs about BareMetalPoll for every value of the constants: type       *)
(* correctness, that no wakeup is lost and no token dangles, and that the  *)
(* bare-metal code implements the flag-scan contract of                    *)
(* ScanWakeupContract.                                                     *)
(***************************************************************************)
EXTENDS BareMetalPoll, TLAPS

(***************************************************************************)
(* While the owner is inside g_poll, every wakeup of its array holds the   *)
(* call's token: the registration loop at entry ran to completion and      *)
(* only the loop at 'done' undoes it.                                      *)
(***************************************************************************)
Registered ==
  pc # "idle" => /\ tok \in Tokens
                 /\ \A w \in fds : token[w] = tok

(***************************************************************************)
(* What the scan loop keeps true.  Outside a pass no entry is left to      *)
(* read.  During a call no flag of its array is cleared (only the owner    *)
(* acknowledges, between calls), so the wakeups signalled at entry stay    *)
(* signalled; a pass adds to revents only wakeups it saw signalled, and    *)
(* every wakeup signalled at entry that it has read is in revents.         *)
(***************************************************************************)
ScanInv ==
  /\ pc # "scan" => toscan = {}
  /\ pc # "idle" => atEntry \subseteq {w \in fds : signalled[w]}
  /\ pc \in {"scan", "done"} => revents \subseteq {w \in fds : signalled[w]}
  /\ pc = "scan" => atEntry \ toscan \subseteq revents
  /\ pc = "done" => atEntry \subseteq revents

(***************************************************************************)
(* NoLostWakeup alone is not inductive, because a signaller that reads the *)
(* token of a wakeup of the array must find the owner's token there        *)
(* (Registered).                                                           *)
(***************************************************************************)
WakeInv ==
  /\ Registered
  /\ TokenOwnedByLiveCall
  /\ NoLostWakeup

\* The inductive invariant.
IInv ==
  /\ TypeOK
  /\ ScanInv
  /\ WakeInv
-----------------------------------------------------------------------------

(***************************************************************************)
(* Every step of the system keeps every variable in its type.              *)
(***************************************************************************)
LEMMA TypeStep ==
  TypeOK /\ (pc # "scan" => toscan = {}) /\ [Next]_vars => TypeOK'
  <1> SUFFICES ASSUME TypeOK, pc # "scan" => toscan = {}, [Next]_vars
               PROVE  TypeOK'
    OBVIOUS
  <1>1. CASE PollEnter
    <2>1. PICK S \in SUBSET Wakeups, t \in Tokens, ms \in Timeouts :
                 /\ fds' = S
                 /\ tok' = t
                 /\ timeout' = ms
                 /\ expired' = (ms < -1)
                 /\ token' = [w \in Wakeups |-> IF w \in S THEN t ELSE token[w]]
                 /\ atEntry' = {w \in S : signalled[w]}
      BY <1>1 DEF PollEnter
    <2>2. token' \in [Wakeups -> Tokens \cup {NULL}]
      BY <2>1 DEF TypeOK
    <2>3. calls' \in 0..MaxCalls
      BY <1>1, ConstantsAssumption DEF PollEnter, TypeOK
    <2>4. /\ pc = "idle" /\ pc' = "check"
          /\ slept' = FALSE
          /\ UNCHANGED <<signalled, revents, ready, toscan, spc, swk, stok,
                         signals>>
      BY <1>1 DEF PollEnter, signallerVars
    <2>5. /\ fds' \in SUBSET Wakeups
          /\ tok' \in Tokens \cup {NULL}
          /\ timeout' \in Timeouts \cup {0}
          /\ expired' \in BOOLEAN
          /\ atEntry' \in SUBSET Wakeups
      BY <2>1
    <2>6. toscan' \in SUBSET fds'
      BY <2>4
    <2>7. QED
      BY <2>2, <2>3, <2>4, <2>5, <2>6 DEF TypeOK, PCs
  <1>2. CASE PollPass
    BY <1>2 DEF PollPass, TypeOK, signallerVars, PCs
  <1>13. ASSUME NEW w \in Wakeups, PollRead(w)
         PROVE  TypeOK'
    BY <1>13 DEF PollRead, TypeOK, signallerVars
  <1>14. CASE PollCheck
    BY <1>14 DEF PollCheck, TypeOK, signallerVars, PCs
  <1>3. CASE WaitSleep
    BY <1>3 DEF WaitSleep, TypeOK, ownerVars, signallerVars, PCs
  <1>4. CASE SleepTimeout
    BY <1>4 DEF SleepTimeout, TypeOK, ownerVars, signallerVars, PCs
  <1>5. CASE PollDone
    BY <1>5 DEF PollDone, TypeOK, ownerVars, signallerVars, PCs
  <1>6. CASE \E w \in Wakeups : Acknowledge(w)
    BY <1>6 DEF Acknowledge, TypeOK, ownerVars, signallerVars
  <1>7. CASE ClockReachesDeadline
    BY <1>7 DEF ClockReachesDeadline, TypeOK, ownerVars, signallerVars
  <1>8. ASSUME NEW s \in Signallers, NEW w \in Wakeups, SignalSet(s, w)
        PROVE  TypeOK'
    <2>1. signalled' \in [Wakeups -> BOOLEAN]
      BY <1>8, ConstantsAssumption DEF SignalSet, TypeOK
    <2>2. spc' \in [Signallers -> {"idle", "load", "wake"}]
      BY <1>8, ConstantsAssumption DEF SignalSet, TypeOK
    <2>3. swk' \in [Signallers -> Wakeups]
      BY <1>8, ConstantsAssumption DEF SignalSet, TypeOK
    <2>4. signals' \in 0..MaxSignals
      BY <1>8, ConstantsAssumption DEF SignalSet, TypeOK
    <2>5. QED
      BY <1>8, <2>1, <2>2, <2>3, <2>4 DEF SignalSet, TypeOK, ownerVars
  <1>9. ASSUME NEW s \in Signallers, SignalLoad(s)
        PROVE  TypeOK'
    BY <1>9 DEF SignalLoad, TypeOK, ownerVars, signallerVars
  <1>10. ASSUME NEW s \in Signallers, WaitWake(s)
         PROVE  TypeOK'
    BY <1>10 DEF WaitWake, TypeOK, ownerVars, signallerVars, PCs
  <1>11. CASE UNCHANGED vars
    BY <1>11 DEF vars, TypeOK
  <1>12. QED
    BY <1>1, <1>2, <1>3, <1>4, <1>5, <1>6, <1>7, <1>8, <1>9, <1>10, <1>11,
       <1>13, <1>14
       DEF Next, Owner, Signaller

(***************************************************************************)
(* The initial state is well typed.                                        *)
(***************************************************************************)
LEMMA TypeInit == Init => TypeOK
  <1> SUFFICES ASSUME Init PROVE TypeOK
    OBVIOUS
  <1>1. swk \in [Signallers -> Wakeups]
    BY ConstantsAssumption DEF Init
  <1>2. calls \in 0..MaxCalls /\ signals \in 0..MaxSignals
    BY ConstantsAssumption DEF Init
  <1>3. timeout \in Timeouts \cup {0}
    BY DEF Init
  <1>4. QED
    BY <1>1, <1>2, <1>3 DEF Init, TypeOK, PCs

-----------------------------------------------------------------------------
(***************************************************************************)
(* Initially the owner is idle, nothing is being scanned and no wakeup     *)
(* holds a token.                                                          *)
(***************************************************************************)
LEMMA InitIInv == Init => IInv
  <1> SUFFICES ASSUME Init PROVE IInv
    OBVIOUS
  <1>1. TypeOK
    BY TypeInit
  <1>2. QED
    BY <1>1, ConstantsAssumption DEF Init, IInv, ScanInv, WakeInv, Registered,
       TokenOwnedByLiveCall, NoLostWakeup

(***************************************************************************)
(* Every step preserves ScanInv.  The flags of the array only rise during  *)
(* a call, and a read adds its entry to revents exactly when its flag is   *)
(* set.                                                                    *)
(***************************************************************************)
LEMMA ScanStep == TypeOK /\ ScanInv /\ [Next]_vars => ScanInv'
  <1> SUFFICES ASSUME TypeOK, ScanInv, [Next]_vars PROVE ScanInv'
    OBVIOUS
  <1>1. CASE PollEnter
    <2>1. PICK S \in SUBSET Wakeups, t \in Tokens, ms \in Timeouts :
                 /\ fds' = S
                 /\ atEntry' = {w \in S : signalled[w]}
      BY <1>1 DEF PollEnter
    <2>2. pc = "idle" /\ pc' = "check" /\ UNCHANGED <<signalled, toscan>>
      BY <1>1 DEF PollEnter
    <2>3. QED
      BY <2>1, <2>2 DEF ScanInv
  <1>2. CASE PollPass
    BY <1>2 DEF PollPass, ScanInv
  <1>3. ASSUME NEW w \in Wakeups, PollRead(w)
        PROVE  ScanInv'
    <2>1. pc = "scan" /\ pc' = "scan" /\ w \in toscan
      BY <1>3 DEF PollRead
    <2>2. UNCHANGED <<signalled, fds, atEntry>> /\ toscan' = toscan \ {w}
      BY <1>3 DEF PollRead
    <2>3. revents' = IF signalled[w] THEN revents \cup {w} ELSE revents
      BY <1>3 DEF PollRead
    <2>4. w \in fds
      BY <2>1 DEF TypeOK
    <2>5. w \in atEntry => signalled[w]
      BY <2>1 DEF ScanInv
    <2>6. QED
      BY <2>1, <2>2, <2>3, <2>4, <2>5 DEF ScanInv
  <1>4. CASE PollCheck
    BY <1>4 DEF PollCheck, ScanInv
  <1>5. CASE WaitSleep
    BY <1>5 DEF WaitSleep, ScanInv
  <1>6. CASE SleepTimeout
    BY <1>6 DEF SleepTimeout, ScanInv
  <1>7. CASE PollDone
    BY <1>7 DEF PollDone, ScanInv
  <1>8. CASE \E w \in Wakeups : Acknowledge(w)
    BY <1>8 DEF Acknowledge, ownerVars, ScanInv
  <1>9. CASE ClockReachesDeadline
    BY <1>9 DEF ClockReachesDeadline, ScanInv
  <1>10. ASSUME NEW s \in Signallers, NEW w \in Wakeups, SignalSet(s, w)
         PROVE  ScanInv'
    <2>1. UNCHANGED <<pc, fds, revents, toscan, atEntry>>
      BY <1>10 DEF SignalSet, ownerVars
    <2>2. signalled' = [signalled EXCEPT ![w] = TRUE]
      BY <1>10 DEF SignalSet
    <2>3. \A v \in Wakeups : signalled[v] => signalled'[v]
      BY <2>2 DEF TypeOK
    <2>4. fds \subseteq Wakeups
      BY DEF TypeOK
    <2>5. QED
      BY <2>1, <2>3, <2>4 DEF ScanInv
  <1>11. ASSUME NEW s \in Signallers, SignalLoad(s)
         PROVE  ScanInv'
    BY <1>11 DEF SignalLoad, ownerVars, ScanInv
  <1>12. ASSUME NEW s \in Signallers, WaitWake(s)
         PROVE  ScanInv'
    BY <1>12 DEF WaitWake, ScanInv
  <1>13. CASE UNCHANGED vars
    BY <1>13 DEF vars, ScanInv
  <1>14. QED
    BY <1>1, <1>2, <1>3, <1>4, <1>5, <1>6, <1>7, <1>8, <1>9, <1>10, <1>11,
       <1>12, <1>13
       DEF Next, Owner, Signaller

(***************************************************************************)
(* Every step preserves WakeInv.                                           *)
(***************************************************************************)
LEMMA WakeStep == TypeOK /\ TypeOK' /\ WakeInv /\ [Next]_vars => WakeInv'
  <1> SUFFICES ASSUME TypeOK, TypeOK', WakeInv, [Next]_vars PROVE WakeInv'
    OBVIOUS
  <1> USE DEF WakeInv
  <1>0. TypeOK'
    OBVIOUS
  <1>1. CASE PollEnter
    <2>1. PICK S \in SUBSET Wakeups, t \in Tokens, ms \in Timeouts :
                 /\ fds' = S
                 /\ tok' = t
                 /\ token' = [w \in Wakeups |-> IF w \in S THEN t ELSE token[w]]
      BY <1>1 DEF PollEnter
    <2>2. pc = "idle" /\ pc' = "check"
      BY <1>1 DEF PollEnter
    <2>3. \A w \in Wakeups : token[w] = NULL
      BY <2>2 DEF TokenOwnedByLiveCall
    <2>4. Registered'
      BY <2>1, <2>2 DEF Registered
    <2>5. TokenOwnedByLiveCall'
      BY <2>1, <2>2, <2>3 DEF TokenOwnedByLiveCall
    <2>6. NoLostWakeup'
      BY <2>2 DEF NoLostWakeup
    <2>7. QED
      BY <1>0, <2>4, <2>5, <2>6
  <1>2. CASE PollCheck
    BY <1>2 DEF PollCheck, Registered, TokenOwnedByLiveCall, NoLostWakeup
  <1>13. CASE PollPass
    BY <1>13 DEF PollPass, Registered, TokenOwnedByLiveCall, NoLostWakeup
  <1>14. ASSUME NEW w \in Wakeups, PollRead(w)
         PROVE  WakeInv'
    BY <1>14 DEF PollRead, Registered, TokenOwnedByLiveCall, NoLostWakeup
  <1>3. CASE WaitSleep
    <2>1. UNCHANGED <<signalled, token, fds, tok>> /\ pc = "sleep"
      BY <1>3 DEF WaitSleep
    <2>2. pc' = "parked" => ~WaitIsSet
      BY <1>3 DEF WaitSleep
    <2>3. pc' \in {"check", "parked"}
      BY <1>3 DEF WaitSleep
    <2>4. NoLostWakeup'
      BY <2>1, <2>2 DEF NoLostWakeup, WaitIsSet
    <2>5. QED
      BY <1>0, <2>1, <2>3, <2>4 DEF Registered, TokenOwnedByLiveCall
  <1>4. CASE SleepTimeout
    BY <1>0, <1>4 DEF SleepTimeout, Registered, TokenOwnedByLiveCall,
       NoLostWakeup
  <1>5. CASE PollDone
    <2>1. pc' = "idle" /\ UNCHANGED fds
      BY <1>5 DEF PollDone
    <2>2. token' = [w \in Wakeups |-> IF w \in fds THEN NULL ELSE token[w]]
      BY <1>5 DEF PollDone
    <2>3. TokenOwnedByLiveCall'
      BY <2>1, <2>2 DEF TokenOwnedByLiveCall
    <2>4. QED
      BY <1>0, <2>1, <2>3 DEF Registered, NoLostWakeup
  <1>6. CASE \E w \in Wakeups : Acknowledge(w)
    BY <1>0, <1>6 DEF Acknowledge, ownerVars, Registered, TokenOwnedByLiveCall,
       NoLostWakeup
  <1>7. CASE ClockReachesDeadline
    <2>1. UNCHANGED <<signalled, token, pc, fds, tok, spc, swk, stok>>
      BY <1>7 DEF ClockReachesDeadline, signallerVars
    <2>2. QED
      BY <1>0, <2>1 DEF Registered, TokenOwnedByLiveCall, NoLostWakeup,
         WakeInFlight, WaitIsSet
  <1>8. ASSUME NEW s \in Signallers, NEW w \in Wakeups, SignalSet(s, w)
        PROVE  WakeInv'
    <2>1. UNCHANGED <<token, pc, fds, tok, stok>>
      BY <1>8 DEF SignalSet, ownerVars
    <2>2. NoLostWakeup'
      <3> SUFFICES ASSUME pc' = "parked", WaitIsSet' PROVE WakeInFlight'
        BY DEF NoLostWakeup
      <3>1. CASE w \in fds
        BY <1>8, <2>1, <3>1 DEF SignalSet, WakeInFlight, TypeOK
      <3>2. CASE w \notin fds
        <4>1. WaitIsSet
          BY <1>8, <2>1, <3>2 DEF SignalSet, WaitIsSet, TypeOK
        <4>2. PICK s2 \in Signallers :
                \/ spc[s2] = "load" /\ swk[s2] \in fds
                \/ spc[s2] = "wake" /\ stok[s2] = tok
          BY <2>1, <4>1 DEF NoLostWakeup, WakeInFlight
        <4>3. s2 # s
          BY <1>8, <4>2 DEF SignalSet
        <4>4. QED
          BY <1>8, <2>1, <4>2, <4>3 DEF SignalSet, WakeInFlight, TypeOK
      <3>3. QED
        BY <3>1, <3>2
    <2>3. QED
      BY <1>0, <2>1, <2>2 DEF Registered, TokenOwnedByLiveCall
  <1>9. ASSUME NEW s \in Signallers, SignalLoad(s)
        PROVE  WakeInv'
    <2>1. UNCHANGED <<signalled, token, pc, fds, tok, swk>>
      BY <1>9 DEF SignalLoad, ownerVars
    <2>2. NoLostWakeup'
      <3> SUFFICES ASSUME pc' = "parked", WaitIsSet' PROVE WakeInFlight'
        BY DEF NoLostWakeup
      <3>1. PICK s2 \in Signallers :
              \/ spc[s2] = "load" /\ swk[s2] \in fds
              \/ spc[s2] = "wake" /\ stok[s2] = tok
        BY <2>1 DEF NoLostWakeup, WakeInFlight, WaitIsSet
      <3>2. CASE s2 = s
        <4>1. spc[s] = "load" /\ swk[s] \in fds
          BY <1>9, <3>1, <3>2 DEF SignalLoad
        <4>2. token[swk[s]] = tok /\ tok # NULL
          BY <2>1, <4>1, ConstantsAssumption DEF Registered
        <4>3. spc'[s] = "wake" /\ stok'[s] = tok
          BY <1>9, <4>2 DEF SignalLoad, TypeOK
        <4>4. QED
          BY <2>1, <4>3 DEF WakeInFlight
      <3>3. CASE s2 # s
        BY <1>9, <2>1, <3>1, <3>3 DEF SignalLoad, WakeInFlight, TypeOK
      <3>4. QED
        BY <3>2, <3>3
    <2>3. QED
      BY <1>0, <2>1, <2>2 DEF Registered, TokenOwnedByLiveCall
  <1>10. ASSUME NEW s \in Signallers, WaitWake(s)
         PROVE  WakeInv'
    <2>1. UNCHANGED <<signalled, token, fds, tok, swk, stok>>
      BY <1>10 DEF WaitWake
    <2>2. pc' = pc \/ (pc = "parked" /\ pc' = "check")
      BY <1>10 DEF WaitWake
    <2>3. NoLostWakeup'
      <3> SUFFICES ASSUME pc' = "parked", WaitIsSet' PROVE WakeInFlight'
        BY DEF NoLostWakeup
      <3>1. pc = "parked" /\ ~(tok = stok[s])
        BY <1>10, <2>2 DEF WaitWake
      <3>2. PICK s2 \in Signallers :
              \/ spc[s2] = "load" /\ swk[s2] \in fds
              \/ spc[s2] = "wake" /\ stok[s2] = tok
        BY <2>1, <3>1 DEF NoLostWakeup, WakeInFlight, WaitIsSet
      <3>3. s2 # s
        BY <1>10, <3>1, <3>2 DEF WaitWake
      <3>4. QED
        BY <1>10, <2>1, <3>2, <3>3 DEF WaitWake, WakeInFlight, TypeOK
    <2>4. QED
      BY <1>0, <2>1, <2>2, <2>3 DEF Registered, TokenOwnedByLiveCall
  <1>11. CASE UNCHANGED vars
    BY <1>11 DEF vars, Registered, TokenOwnedByLiveCall, NoLostWakeup,
       WakeInFlight, WaitIsSet, TypeOK
  <1>12. QED
    BY <1>1, <1>2, <1>3, <1>4, <1>5, <1>6, <1>7, <1>8, <1>9, <1>10, <1>11,
       <1>13, <1>14
       DEF Next, Owner, Signaller

(***************************************************************************)
(* Every step preserves IInv.                                              *)
(***************************************************************************)
LEMMA IInvStep == IInv /\ [Next]_vars => IInv'
  <1> SUFFICES ASSUME IInv, [Next]_vars PROVE IInv'
    OBVIOUS
  <1>1. TypeOK'
    BY TypeStep DEF IInv, ScanInv
  <1>2. ScanInv'
    BY ScanStep DEF IInv
  <1>3. WakeInv'
    BY <1>1, WakeStep DEF IInv
  <1>4. QED
    BY <1>1, <1>2, <1>3 DEF IInv

(***************************************************************************)
(* Type correctness: in every reachable state each variable of the bare-   *)
(* metal g_poll, its GWakeups and their signallers has its type.           *)
(***************************************************************************)
THEOREM TypeCorrect == Spec => []TypeOK
  BY InitIInv, IInvStep, PTL DEF Spec, IInv


(***************************************************************************)
(* No lost wakeup: whenever the owner thread is parked in g_wait_sleep     *)
(* while a GWakeup of its g_poll array is signalled, a g_wakeup_signal is  *)
(* still under way that will wake it with its own token.  Proved for any   *)
(* number of wakeups, signallers and token addresses.                      *)
(***************************************************************************)
THEOREM WakeupNeverLost == Spec => []NoLostWakeup
  BY InitIInv, IInvStep, PTL DEF Spec, IInv, WakeInv

(***************************************************************************)
(* GWakeup.token never outlives its g_poll call: a non-NULL token always   *)
(* belongs to the call in progress, whose array holds that wakeup.         *)
(***************************************************************************)
THEOREM TokenNeverDangles == Spec => []TokenOwnedByLiveCall
  BY InitIInv, IInvStep, PTL DEF Spec, IInv, WakeInv
-----------------------------------------------------------------------------
(***************************************************************************)
(* Refinement.  The mapped state of ScanWakeupContract, abbreviated.       *)
(***************************************************************************)
MApc == CASE pc = "idle" -> "idle" [] pc = "done" -> "returned" [] OTHER -> "polling"
MCall == IF pc = "idle" THEN {} ELSE fds
MSure == IF pc = "idle" THEN {} ELSE atEntry
MObserved == IF pc = "done" THEN revents ELSE {}

\* The contract's variables are these expressions of the bare-metal state.
LEMMA MappingDefs ==
  /\ Contract!svars = <<signalled, MApc, MCall, MSure, MObserved>>
  /\ Contract!svars' = <<signalled', MApc', MCall', MSure', MObserved'>>
  BY DEF Contract!svars, MApc, MCall, MSure, MObserved

(***************************************************************************)
(* The initial state maps to the contract's initial state.                 *)
(***************************************************************************)
LEMMA RefineInit == Init => Contract!Init
  BY DEF Init, Contract!Init

(***************************************************************************)
(* A step inside a call that leaves the flags, the array and the entry     *)
(* record alone, and neither reaches nor leaves done, is a stutter of the  *)
(* contract.                                                               *)
(***************************************************************************)
LEMMA OwnerStutter ==
  ASSUME pc # "done", pc' # "done", pc # "idle", pc' # "idle",
         UNCHANGED <<signalled, fds, atEntry>>
  PROVE  UNCHANGED Contract!svars
  BY MappingDefs DEF MApc, MCall, MSure, MObserved

(***************************************************************************)
(* A call that leaves its loop returns the wakeups its passes saw, which   *)
(* include those signalled at entry and are all still signalled: this is   *)
(* the contract's Return.                                                  *)
(***************************************************************************)
LEMMA ReturnStep ==
  ASSUME ScanInv, PollCheck, pc' = "done"
  PROVE  Contract!Return
  <1>1. pc = "scan" /\ toscan = {}
    BY DEF PollCheck
  <1>2. UNCHANGED <<signalled, fds, revents, atEntry>>
    BY DEF PollCheck
  <1>3. /\ revents \subseteq {w \in fds : signalled[w]}
        /\ atEntry \subseteq revents
    BY <1>1 DEF ScanInv
  <1>4. QED
    BY <1>1, <1>2, <1>3 DEF Contract!Return, MApc, MCall, MSure, MObserved

(***************************************************************************)
(* Every step of the bare-metal system is a step of the contract or        *)
(* leaves its variables unchanged.                                         *)
(***************************************************************************)
LEMMA RefineStep ==
  ScanInv /\ [Next]_vars => [Contract!Next]_Contract!svars
  <1> SUFFICES ASSUME ScanInv, [Next]_vars
               PROVE  [Contract!Next]_Contract!svars
    OBVIOUS
  <1> USE MappingDefs
  <1>1. CASE PollEnter
    <2>1. fds' \in SUBSET Wakeups
      BY <1>1 DEF PollEnter
    <2>2. Contract!Begin(fds')
      BY <1>1 DEF PollEnter, Contract!Begin, MApc, MCall, MSure, MObserved
    <2>3. QED
      BY <2>1, <2>2 DEF Contract!Next
  <1>2. CASE PollPass
    BY <1>2, OwnerStutter DEF PollPass
  <1>3. CASE \E w \in Wakeups : PollRead(w)
    BY <1>3, OwnerStutter DEF PollRead
  <1>4. CASE PollCheck
    <2>1. CASE pc' = "done"
      BY <1>4, <2>1, ReturnStep DEF Contract!Next
    <2>2. CASE pc' # "done"
      BY <1>4, <2>2, OwnerStutter DEF PollCheck
    <2>3. QED
      BY <2>1, <2>2
  <1>5. CASE WaitSleep
    BY <1>5, OwnerStutter DEF WaitSleep
  <1>6. CASE SleepTimeout
    BY <1>6, OwnerStutter DEF SleepTimeout
  <1>7. CASE ClockReachesDeadline
    BY <1>7, OwnerStutter DEF ClockReachesDeadline
  <1>8. CASE PollDone
    <2>1. Contract!Finish
      BY <1>8 DEF PollDone, Contract!Finish, MApc, MCall, MSure, MObserved,
                  signallerVars
    <2>2. QED
      BY <2>1 DEF Contract!Next
  <1>9. CASE \E w \in Wakeups : Acknowledge(w)
    <2>1. PICK w \in Wakeups : Acknowledge(w)
      BY <1>9
    <2>2. Contract!Acknowledge(w)
      BY <2>1 DEF Acknowledge, Contract!Acknowledge, MApc, MCall, MSure,
                  MObserved, ownerVars
    <2>3. QED
      BY <2>2 DEF Contract!Next
  <1>10. CASE \E s \in Signallers, w \in Wakeups : SignalSet(s, w)
    <2>1. PICK s \in Signallers, w \in Wakeups : SignalSet(s, w)
      BY <1>10
    <2>2. Contract!Signal(w)
      BY <2>1 DEF SignalSet, Contract!Signal, MApc, MCall, MSure, MObserved,
                  ownerVars
    <2>3. QED
      BY <2>2 DEF Contract!Next
  <1>11. CASE \E s \in Signallers : SignalLoad(s)
    BY <1>11 DEF SignalLoad, MApc, MCall, MSure, MObserved, ownerVars
  <1>12. CASE \E s \in Signallers : WaitWake(s)
    <2>1. PICK s \in Signallers : WaitWake(s)
      BY <1>12
    <2>2. CASE pc = "parked" /\ tok = stok[s]
      BY <2>1, <2>2, OwnerStutter DEF WaitWake
    <2>3. CASE ~(pc = "parked" /\ tok = stok[s])
      BY <2>1, <2>3 DEF WaitWake, MApc, MCall, MSure, MObserved
    <2>4. QED
      BY <2>2, <2>3
  <1>13. CASE UNCHANGED vars
    BY <1>13 DEF vars, MApc, MCall, MSure, MObserved
  <1>14. QED
    BY <1>1, <1>2, <1>3, <1>4, <1>5, <1>6, <1>7, <1>8, <1>9, <1>10, <1>11,
       <1>12, <1>13
       DEF Next, Owner, Signaller

(***************************************************************************)
(* The bare-metal g_poll and GWakeup implement the flag-scan contract,     *)
(* although g_poll reads each flag with its own atomic load while          *)
(* signallers run: every call reports each wakeup of its array that was    *)
(* signalled when it began, reports only wakeups still signalled when it   *)
(* leaves its loop, and flags are only cleared by the owner between calls. *)
(* Proved for all values of the constants, from ScanInv.                   *)
(***************************************************************************)
THEOREM BareMetalRefinesContract == Spec => BareMetalContract
  <1>1. Init => Contract!Init
    BY RefineInit
  <1>2. IInv /\ [Next]_vars => [Contract!Next]_Contract!svars
    BY RefineStep DEF IInv
  <1>3. QED
    BY <1>1, <1>2, InitIInv, IInvStep, PTL
       DEF Spec, BareMetalContract, Contract!Spec
=============================================================================
