------------------------- MODULE SelectPollProofs -------------------------
(***************************************************************************)
(* Proofs about SelectPoll for every value of the constants: type          *)
(* correctness, and that a g_poll call that returns a positive count       *)
(* reports every requested operation select found ready, and only ready    *)
(* ones.  The                                                              *)
(* latter rests on maxfd being the largest requesting descriptor, which    *)
(* needs a maximum of a finite set of integers (MaxExists).                *)
(***************************************************************************)
EXTENDS SelectPoll, FiniteSetTheorems, WellFoundedInduction, TLAPS

(***************************************************************************)
(* A non-empty finite set of integers has a largest element.  Among the    *)
(* sets {y \in S : x <= y}, one for each x of S, the strict-subset         *)
(* ordering (well founded on finite sets) has a minimal one, and its x is  *)
(* the largest: a larger d would give a strictly smaller set.              *)
(***************************************************************************)
LEMMA MaxExists ==
  ASSUME NEW S \in SUBSET Int, IsFiniteSet(S), S # {}
  PROVE  \E m \in S : \A d \in S : d <= m
  <1> DEFINE Up(x) == {y \in S : x <= y}
             F == {Up(x) : x \in S}
  <1>1. F \subseteq FiniteSubsetsOf(S)
    BY FS_Subset, FS_FiniteSubsetsOfFinite DEF FiniteSubsetsOf
  <1>2. F # {}
    OBVIOUS
  <1>3. PICK U \in F : \A V \in F : ~(<<V, U>> \in StrictSubsetOrdering(S))
    BY <1>1, <1>2, WFMin, FS_StrictSubsetOrderingWellFounded
  <1>4. PICK x \in S : U = Up(x)
    OBVIOUS
  <1>5. ASSUME NEW d \in S, ~(d <= x) PROVE FALSE
    <2>1. x \in Int /\ d \in Int /\ x < d
      BY <1>5
    <2>2. \A y \in S : d <= y => x <= y
      BY <2>1
    <2>3. Up(d) \subseteq Up(x)
      BY <2>2
    <2>4. x \in Up(x)
      BY <2>1
    <2>5. x \notin Up(d)
      BY <2>1
    <2>6. Up(d) \in SUBSET S /\ Up(x) \in SUBSET S
      OBVIOUS
    <2>7. Up(d) # Up(x)
      BY <2>4, <2>5, Zenon
    <2>8. <<Up(d), Up(x)>> \in StrictSubsetOrdering(S)
      BY <2>3, <2>6, <2>7 DEF StrictSubsetOrdering
    <2>9. QED
      BY <1>3, <1>4, <2>8
  <1>6. QED
    BY <1>5
-----------------------------------------------------------------------------
(***************************************************************************)
(* Every set of descriptors built from the entries is a finite set of      *)
(* integers.                                                               *)
(***************************************************************************)
LEMMA FdImageFinite ==
  ASSUME TypeOK, NEW X \in SUBSET Entries
  PROVE  /\ {fd[e] : e \in X} \subseteq FdValues
         /\ IsFiniteSet({fd[e] : e \in X})
  <1>1. {fd[e] : e \in X} \subseteq FdValues
    BY DEF TypeOK
  <1>2. QED
    BY <1>1, SelectAssumption, FS_Subset

(***************************************************************************)
(* maxfd is at least the fd of every non-ignored entry that requests an    *)
(* event: the loop of g_poll that computes it misses none.                 *)
(***************************************************************************)
LEMMA MaxFdBound ==
  ASSUME TypeOK, NEW e \in Entries, fd[e] >= 0, events[e] # {}
  PROVE  MaxFd \in Int /\ fd[e] <= MaxFd
  <1> DEFINE S == {fd[x] : x \in {y \in Entries : fd[y] >= 0 /\ events[y] # {}}}
  <1>1. S \subseteq Int /\ IsFiniteSet(S) /\ fd[e] \in S
    BY FdImageFinite, SelectAssumption
  <1>2. \E m \in S : \A d \in S : d <= m
    BY <1>1, MaxExists
  <1>3. MaxFd = CHOOSE m \in S : \A d \in S : d <= m
    BY <1>1 DEF MaxFd
  <1>4. MaxFd \in S /\ \A d \in S : d <= MaxFd
    BY <1>2, <1>3
  <1>5. QED
    BY <1>1, <1>4

(***************************************************************************)
(* What select leaves in a set is a finite set of descriptors, so the      *)
(* count g_poll returns is an integer.                                     *)
(***************************************************************************)
LEMMA SelectedCount ==
  ASSUME TypeOK, NEW op, NEW n, NEW rdy
  PROVE  Cardinality(Selected(op, n, rdy)) \in Nat
  <1>1. IsFiniteSet(RequestSet(op))
    BY FdImageFinite DEF RequestSet
  <1>2. QED
    BY <1>1, FS_Subset, FS_CardinalityType DEF Selected
-----------------------------------------------------------------------------
(***************************************************************************)
(* Every step keeps every variable in its type.                            *)
(***************************************************************************)
LEMMA TypeStep ==
  TypeOK /\ [Next]_vars => TypeOK'
  <1> SUFFICES ASSUME TypeOK, [Next]_vars PROVE TypeOK'
    OBVIOUS
  <1>1. CASE GPoll
    <2>1. PICK ms \in Timeouts, rdy \in Snapshots, fail \in BOOLEAN :
            LET nfds  == SelectNfds
                count == Cardinality(Selected("IN", nfds, rdy))
                           + Cardinality(Selected("OUT", nfds, rdy))
                           + Cardinality(Selected("PRI", nfds, rdy))
                ret   == IF fail \/ ms < -1 THEN -1 ELSE count
            IN  /\ osReady' = rdy
                /\ result' = ret
                /\ revents' = IF ret > 0
                                THEN [e \in Entries |-> FromSets(e, nfds, rdy)]
                                ELSE revents
      BY <1>1 DEF GPoll
    <2>2. result' \in Int
      BY <2>1, SelectedCount
    <2>3. osReady' \in [Descriptors -> SUBSET Ops]
      BY <2>1 DEF Snapshots
    <2>4. revents' \in [Entries -> SUBSET Ops]
      BY <2>1 DEF FromSets, TypeOK
    <2>5. QED
      BY <1>1, <2>2, <2>3, <2>4, SelectAssumption DEF GPoll, TypeOK
  <1>2. ASSUME NEW e \in Entries, SetEntry(e) PROVE TypeOK'
    <2>1. PICK d \in FdValues, ev \in EventSets :
            /\ fd' = [fd EXCEPT ![e] = d]
            /\ events' = [events EXCEPT ![e] = ev]
      BY <1>2 DEF SetEntry
    <2>2. ev \in SUBSET Ops
      BY SelectAssumption DEF Ops
    <2>3. QED
      BY <1>2, <2>1, <2>2 DEF SetEntry, TypeOK
  <1>3. CASE UNCHANGED vars
    BY <1>3 DEF vars, TypeOK
  <1>4. QED
    BY <1>1, <1>2, <1>3 DEF Next

(***************************************************************************)
(* The initial state is well typed.                                        *)
(***************************************************************************)
LEMMA TypeInit == Init => TypeOK
  <1> SUFFICES ASSUME Init PROVE TypeOK
    OBVIOUS
  <1>1. events \in [Entries -> SUBSET Ops]
    BY SelectAssumption DEF Init, Ops
  <1>2. osReady \in [Descriptors -> SUBSET Ops]
    BY DEF Init
  <1>3. revents \in [Entries -> SUBSET Ops] /\ calls \in 0..MaxCalls
    BY SelectAssumption DEF Init
  <1>4. QED
    BY <1>1, <1>2, <1>3 DEF Init, TypeOK

(***************************************************************************)
(* Type correctness: every variable of the select emulation keeps its      *)
(* type, for any array, descriptor values, event sets and timeouts.        *)
(***************************************************************************)
THEOREM SelectTypeCorrect == Spec => []TypeOK
  BY TypeInit, TypeStep, PTL DEF Spec
-----------------------------------------------------------------------------
(***************************************************************************)
(* The revents g_poll rebuilds for an entry on a descriptor, with maxfd+1  *)
(* as nfds, hold every operation the entry requested that the snapshot     *)
(* has ready, and only operations the snapshot has ready.  (They may hold  *)
(* one requested by another entry on the same descriptor.)                 *)
(***************************************************************************)
LEMMA FromSetsReady ==
  ASSUME TypeOK, NEW e \in Entries, fd[e] >= 0, NEW rdy
  PROVE  /\ events[e] \cap rdy[fd[e]] \subseteq FromSets(e, SelectNfds, rdy)
         /\ FromSets(e, SelectNfds, rdy) \subseteq rdy[fd[e]]
  <1>1. ASSUME NEW op \in events[e], op \in rdy[fd[e]]
        PROVE  op \in FromSets(e, SelectNfds, rdy)
    <2>1. MaxFd \in Int /\ fd[e] <= MaxFd
      BY <1>1, MaxFdBound
    <2>2. fd[e] \in Int
      BY SelectAssumption DEF TypeOK
    <2>3. fd[e] < SelectNfds
      BY <2>1, <2>2 DEF SelectNfds
    <2>4. fd[e] \in RequestSet(op)
      BY <1>1 DEF RequestSet
    <2>5. op \in Ops
      BY <1>1 DEF TypeOK
    <2>6. QED
      BY <1>1, <2>3, <2>4, <2>5 DEF FromSets, Selected
  <1>2. QED
    BY <1>1 DEF FromSets, Selected

(***************************************************************************)
(* Every step satisfies the action of ReadyReported: a step that counts a  *)
(* call is a GPoll, and one that returns a positive count rebuilds every   *)
(* revents from the sets select returned.                                  *)
(***************************************************************************)
LEMMA ReadyStep ==
  ASSUME TypeOK, [Next]_vars, PollStep, result' > 0
  PROVE  \A e \in Entries :
           fd'[e] >= 0 =>
             /\ events'[e] \cap osReady'[fd'[e]] \subseteq revents'[e]
             /\ revents'[e] \subseteq osReady'[fd'[e]]
  <1>1. GPoll
    <2>1. ~\E e \in Entries : SetEntry(e)
      BY DEF PollStep, SetEntry, TypeOK
    <2>2. ~UNCHANGED vars
      BY DEF PollStep, vars, TypeOK
    <2>3. QED
      BY <2>1, <2>2 DEF Next
  <1>2. PICK ms \in Timeouts, rdy \in Snapshots, fail \in BOOLEAN :
          LET nfds  == SelectNfds
              count == Cardinality(Selected("IN", nfds, rdy))
                         + Cardinality(Selected("OUT", nfds, rdy))
                         + Cardinality(Selected("PRI", nfds, rdy))
              ret   == IF fail \/ ms < -1 THEN -1 ELSE count
          IN  /\ osReady' = rdy
              /\ result' = ret
              /\ revents' = IF ret > 0
                              THEN [e \in Entries |-> FromSets(e, nfds, rdy)]
                              ELSE revents
    BY <1>1 DEF GPoll
  <1>3. /\ osReady' = rdy
        /\ revents' = [e \in Entries |-> FromSets(e, SelectNfds, rdy)]
        /\ UNCHANGED <<fd, events>>
    BY <1>1, <1>2 DEF GPoll
  <1>4. QED
    BY <1>3, FromSetsReady

(***************************************************************************)
(* Readiness is reported, for any array, descriptor values (duplicates     *)
(* and ignored entries included) and event sets: a g_poll call that        *)
(* returns a positive count leaves in each entry on a descriptor every     *)
(* requested operation select found ready, and nothing it did not.         *)
(***************************************************************************)
THEOREM SelectReadyReported == Spec => ReadyReported
  <1>1. TypeOK /\ [Next]_vars =>
          [PollStep /\ result' > 0 =>
             \A e \in Entries :
               fd'[e] >= 0 =>
                 /\ events'[e] \cap osReady'[fd'[e]] \subseteq revents'[e]
                 /\ revents'[e] \subseteq osReady'[fd'[e]]]_vars
    BY ReadyStep
  <1>2. QED
    BY <1>1, SelectTypeCorrect, PTL DEF Spec, ReadyReported
=============================================================================
