------------------------ MODULE UnixWakeupProofs ------------------------
(***************************************************************************)
(* Proofs about UnixWakeup for every value of the constants: type          *)
(* correctness, and that g_wakeup_acknowledge drains what it reads.        *)
(***************************************************************************)
EXTENDS UnixWakeup, FiniteSetTheorems, TLAPS

(***************************************************************************)
(* A write either leaves the level alone (EAGAIN on a full descriptor) or  *)
(* raises it by one: it never wraps.                                       *)
(***************************************************************************)
LEMMA IncrementBounds ==
  ASSUME TypeOK, NEW w \in Wakeups
  PROVE  \/ Increment(w) = level[w]
         \/ Increment(w) = level[w] + 1 /\ Increment(w) > 0
  BY DEF Increment, TypeOK

(***************************************************************************)
(* A read lowers the level to a natural number, to 0 when it returns less  *)
(* than a full buffer.                                                     *)
(***************************************************************************)
LEMMA ReadBounds ==
  ASSUME TypeOK, NEW w \in Wakeups
  PROVE  /\ AfterRead(w) \in Nat
         /\ AfterRead(w) <= level[w]
         /\ ReadSize(w) # BufferSize => AfterRead(w) = 0
  BY DEF AfterRead, ReadSize, Least, BufferSize, CounterSize, TypeOK

(***************************************************************************)
(* Every step keeps every variable in its type.                            *)
(***************************************************************************)
LEMMA TypeStep ==
  TypeOK /\ [Next]_vars => TypeOK'
  <1> SUFFICES ASSUME TypeOK, [Next]_vars PROVE TypeOK'
    OBVIOUS
  <1>1. ASSUME NEW w \in Wakeups, Signal(w) PROVE TypeOK'
    <2>1. Increment(w) \in Nat
      BY IncrementBounds DEF TypeOK
    <2>2. QED
      BY <1>1, <2>1, UnixAssumption DEF Signal, TypeOK
  <1>2. ASSUME NEW w \in Wakeups, ReadOnce(w),
               UNCHANGED <<mode, fds, tmo, revents, result, signals, calls>>
        PROVE  TypeOK'
    BY <1>2, ReadBounds DEF ReadOnce, TypeOK
  <1>3. CASE \E w \in Wakeups : Acknowledge(w)
    BY <1>3, <1>2 DEF Acknowledge
  <1>4. CASE AckRead
    BY <1>4, <1>2 DEF AckRead, TypeOK
  <1>5. CASE PollBegin
    BY <1>5, UnixAssumption DEF PollBegin, TypeOK
  <1>6. CASE PollReturn
    <2>1. Cardinality(Readable) \in Nat
      BY UnixAssumption, FS_Subset, FS_CardinalityType DEF Readable, TypeOK
    <2>2. QED
      BY <1>6, <2>1 DEF PollReturn, Readable, TypeOK
  <1>7. CASE PollFails
    BY <1>7 DEF PollFails, TypeOK
  <1>8. CASE PollDone
    BY <1>8 DEF PollDone, TypeOK
  <1>9. CASE UNCHANGED vars
    BY <1>9 DEF vars, TypeOK
  <1>10. QED
    BY <1>1, <1>3, <1>4, <1>5, <1>6, <1>7, <1>8, <1>9 DEF Next

(***************************************************************************)
(* The initial state is well typed.                                        *)
(***************************************************************************)
LEMMA TypeInit == Init => TypeOK
  BY UnixAssumption DEF Init, TypeOK

(***************************************************************************)
(* Type correctness: in every reachable state each variable of the Unix    *)
(* GWakeups and of the owner's g_poll calls has its type.                  *)
(***************************************************************************)
THEOREM UnixTypeCorrect == Spec => []TypeOK
  BY TypeInit, TypeStep, PTL DEF Spec
-----------------------------------------------------------------------------
(***************************************************************************)
(* Every step satisfies the action of AckClears: only a read lowers a      *)
(* level, and a read that ends the loop returned less than sizeof buffer.  *)
(***************************************************************************)
LEMMA AckClearsStep ==
  ASSUME TypeOK, [Next]_vars, NEW v \in Wakeups,
         level'[v] < level[v], pc' = "idle"
  PROVE  level'[v] = 0
  <1>1. ASSUME NEW w \in Wakeups, ReadOnce(w) PROVE level'[v] = 0
    <2>1. CASE w = v
      <3>1. ReadSize(w) # BufferSize
        BY <1>1 DEF ReadOnce
      <3>2. QED
        BY <1>1, <2>1, <3>1, ReadBounds DEF ReadOnce, TypeOK
    <2>2. CASE w # v
      BY <1>1, <2>2 DEF ReadOnce, TypeOK
    <2>3. QED
      BY <2>1, <2>2
  <1>2. ASSUME NEW w \in Wakeups, Signal(w) PROVE FALSE
    BY <1>2, IncrementBounds DEF Signal, TypeOK
  <1>3. CASE \E w \in Wakeups : Acknowledge(w)
    BY <1>1, <1>3 DEF Acknowledge
  <1>4. CASE AckRead
    BY <1>1, <1>4 DEF AckRead, TypeOK
  <1>5. CASE PollBegin \/ PollReturn \/ PollFails \/ PollDone \/ UNCHANGED vars
    BY <1>5 DEF PollBegin, PollReturn, PollFails, PollDone, vars, TypeOK
  <1>6. QED
    BY <1>2, <1>3, <1>4, <1>5 DEF Next

(***************************************************************************)
(* g_wakeup_acknowledge returns only with its descriptor drained, for any  *)
(* pipe capacity, counter limit and number of signals: AckClears.          *)
(***************************************************************************)
THEOREM UnixAckDrains == Spec => AckClears
  <1>1. TypeOK /\ [Next]_vars =>
          [\A w \in Wakeups :
             (level'[w] < level[w] /\ pc' = "idle") => level'[w] = 0]_vars
    BY AckClearsStep
  <1>2. QED
    BY <1>1, UnixTypeCorrect, PTL DEF Spec, AckClears
=============================================================================
