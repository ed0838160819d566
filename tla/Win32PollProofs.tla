-------------------------- MODULE Win32PollProofs --------------------------
(***************************************************************************)
(* Proofs about the Win32 g_poll model.  The fan-out join is proved for    *)
(* every array, thread count and timeout, when _beginthreadex succeeds.    *)
(***************************************************************************)
EXTENDS Win32Poll, TLAPS

PcValues == {"off", "scan", "block", "done"}

(***************************************************************************)
(* The inductive invariant behind WorkersJoined.  A call on the caller's   *)
(* own thread uses slot 0 only; a fan-out call leaves slot 0 off, and with *)
(* every _beginthreadex successful its started workers are exactly          *)
(* 1..nthreads, the others staying off.  So the join, which waits on all    *)
(* thread handles, finds every running worker done, and the return turns   *)
(* them all off.                                                           *)
(***************************************************************************)
JoinInv ==
  /\ wpc \in [Slots -> PcValues]
  /\ mpc \in {"idle", "single", "wait", "join"}
  /\ mpc = "idle" => \A t \in Slots : wpc[t] = "off"
  /\ mpc = "single" => \A t \in Workers : wpc[t] = "off"
  /\ mpc \in {"wait", "join"} =>
       /\ spawned = 1..nthr
       /\ \A t \in Slots \ spawned : wpc[t] = "off"
       /\ 0 \notin spawned
-----------------------------------------------------------------------------
\* poll_single_thread starts a thread in one of its two waits.
LEMMA StartPcType ==
  ASSUME NEW l, NEW m, NEW tm
  PROVE  StartPc(l, m, tm) \in PcValues
BY DEF StartPc, PcValues

\* The caller starts idle with every thread slot off.
LEMMA InitJoinInv == Init => JoinInv
BY DEF Init, JoinInv, PcValues

(***************************************************************************)
(* A step of a running thread t (a poll_rest, a blocking wait returning,   *)
(* timing out or failing) moves only t's own state, and t is not off, so   *)
(* no slot the invariant keeps off is touched.                             *)
(***************************************************************************)
LEMMA ThreadStepJoinInv ==
  ASSUME JoinInv, NEW t \in Slots, wpc[t] # "off",
         NEW v \in PcValues, wpc' = [wpc EXCEPT ![t] = v],
         UNCHANGED <<mpc, spawned, nthr>>
  PROVE  JoinInv'
BY DEF JoinInv

LEMMA ScanJoinInv ==
  ASSUME JoinInv, NEW t \in Slots, Scan(t)
  PROVE  JoinInv'
<1>1. wpc[t] # "off" /\ UNCHANGED <<mpc, spawned, nthr>>
  BY DEF Scan
<1>2. \/ wpc' = [wpc EXCEPT ![t] = "block"]
      \/ wpc' = [wpc EXCEPT ![t] = "done"]
  BY DEF Scan
<1>. QED  BY <1>1, <1>2, ThreadStepJoinInv DEF PcValues

LEMMA BlockEndJoinInv ==
  ASSUME JoinInv, NEW t \in Slots, Wake(t) \/ BlockTimeout(t) \/ BlockFails(t)
  PROVE  JoinInv'
<1>1. /\ wpc[t] # "off" /\ wpc' = [wpc EXCEPT ![t] = "done"]
      /\ UNCHANGED <<mpc, spawned, nthr>>
  BY DEF Wake, BlockTimeout, BlockFails
<1>. QED  BY <1>1, ThreadStepJoinInv DEF PcValues

(***************************************************************************)
(* g_poll entry starts from an idle caller with every slot off.  A short   *)
(* array is polled on slot 0; a long one, with every _beginthreadex        *)
(* successful, starts exactly the workers 1..nthreads, never slot 0.       *)
(***************************************************************************)
LEMMA EnterJoinInv ==
  ASSUME SpawnCanFail = FALSE, JoinInv, Enter
  PROVE  JoinInv'
<1>1. /\ mpc = "idle" /\ \A t \in Slots : wpc[t] = "off"
  BY DEF Enter
<1>2. PICK a \in Arrays : \E tm \in Timeouts :
        LET n == Len(a) IN
          IF n <= MaxWaitObjects
            THEN LET d == FillData(a, 1, n, FALSE) IN
                 /\ mpc' = "single"
                 /\ wpc' = [wpc EXCEPT ![0] = StartPc(d.list, d.msg, tm)]
            ELSE LET nt == NThreads(n)
                     F(i) == FillData(a, ThreadFirst(i), ThreadFds(n, i), TRUE)
                 IN  /\ mpc' = "wait"
                     /\ nthr' = nt
                     /\ \E sp \in IF SpawnCanFail THEN SUBSET (1..nt) ELSE {1..nt} :
                          /\ spawned' = sp
                          /\ wpc' = [t \in Slots |->
                                       IF t \in sp THEN StartPc(F(t).list, 0, tm) ELSE "off"]
  BY Zenon DEF Enter
<1>3. PICK tm \in Timeouts :
        LET n == Len(a) IN
          IF n <= MaxWaitObjects
            THEN LET d == FillData(a, 1, n, FALSE) IN
                 /\ mpc' = "single"
                 /\ wpc' = [wpc EXCEPT ![0] = StartPc(d.list, d.msg, tm)]
            ELSE LET nt == NThreads(n)
                     F(i) == FillData(a, ThreadFirst(i), ThreadFds(n, i), TRUE)
                 IN  /\ mpc' = "wait"
                     /\ nthr' = nt
                     /\ \E sp \in IF SpawnCanFail THEN SUBSET (1..nt) ELSE {1..nt} :
                          /\ spawned' = sp
                          /\ wpc' = [t \in Slots |->
                                       IF t \in sp THEN StartPc(F(t).list, 0, tm) ELSE "off"]
  BY <1>2
<1>4. CASE Len(a) <= MaxWaitObjects
  <2>1. PICK v \in PcValues : mpc' = "single" /\ wpc' = [wpc EXCEPT ![0] = v]
    BY <1>3, <1>4, StartPcType
  <2>. QED  BY <1>1, <2>1 DEF JoinInv, Slots, Workers
<1>5. CASE ~(Len(a) <= MaxWaitObjects)
  <2>. DEFINE nt == NThreads(Len(a))
              F(i) == FillData(a, ThreadFirst(i), ThreadFds(Len(a), i), TRUE)
  <2>1. /\ mpc' = "wait" /\ nthr' = nt /\ spawned' = 1..nt
        /\ wpc' = [t \in Slots |-> IF t \in 1..nt THEN StartPc(F(t).list, 0, tm) ELSE "off"]
    BY <1>3, <1>5
  <2>2. \A t \in Slots : StartPc(F(t).list, 0, tm) \in PcValues
    BY StartPcType
  <2>3. wpc' \in [Slots -> PcValues]
    <3>1. \A t \in Slots : (IF t \in 1..nt THEN StartPc(F(t).list, 0, tm) ELSE "off") \in PcValues
      BY <2>2 DEF PcValues
    <3>. QED  BY <2>1, <3>1, Zenon
  <2>4. \A t \in Slots \ spawned' : wpc'[t] = "off"
    BY <2>1
  <2>5. 0 \notin spawned'
    BY <2>1
  <2>. QED  BY <2>1, <2>3, <2>4, <2>5 DEF JoinInv
<1>. QED  BY <1>4, <1>5

\* poll_single_thread returns on the caller's thread: slot 0 goes off too.
LEMMA SingleReturnJoinInv ==
  ASSUME JoinInv, SingleReturn
  PROVE  JoinInv'
<1>1. wpc[0] = "done" /\ mpc = "single" /\ mpc' = "idle" /\ wpc' = [wpc EXCEPT ![0] = "off"]
  BY DEF SingleReturn
<1>2. \A t \in Slots : t = 0 \/ t \in Workers
  BY DEF Slots
<1>3. 0 \notin Workers
  BY DEF Workers
<1>. QED  BY <1>1, <1>2, <1>3 DEF JoinInv, PcValues

\* The caller's wait returns and it sets the stop event: nothing else moves.
LEMMA MainWakeJoinInv ==
  ASSUME JoinInv, MainWake
  PROVE  JoinInv'
BY DEF MainWake, JoinInv

(***************************************************************************)
(* The join: with every thread handle valid (spawned = 1..nthreads),       *)
(* WaitForMultipleObjects on them all returns only once every worker is    *)
(* done, and the return turns the finished ones off.                       *)
(***************************************************************************)
LEMMA JoinJoinInv ==
  ASSUME JoinInv, Join
  PROVE  JoinInv'
<1>1. /\ mpc = "join" /\ mpc' = "idle"
      /\ wpc' = [t \in Slots |-> IF wpc[t] = "done" THEN "off" ELSE wpc[t]]
  BY DEF Join
<1>2. spawned = 1..nthr /\ \A t \in Slots \ spawned : wpc[t] = "off"
  BY <1>1 DEF JoinInv
<1>3. \A i \in spawned : wpc[i] = "done"
  BY <1>2 DEF Join, AllJoined
<1>4. \A t \in Slots : wpc'[t] = "off"
  BY <1>1, <1>2, <1>3
<1>. QED  BY <1>1, <1>4 DEF JoinInv, PcValues

\* Handles signalled or reset and messages posted or read leave the calls alone.
LEMMA EnvJoinInv ==
  ASSUME JoinInv,
         \/ \E h \in Handles : HandleSignalled(h) \/ HandleReset(h)
         \/ MessagePosted \/ MessagesRead
  PROVE  JoinInv'
BY DEF HandleSignalled, HandleReset, MessagePosted, MessagesRead, JoinInv

LEMMA JoinInvStep ==
  ASSUME SpawnCanFail = FALSE, JoinInv, [Next]_vars
  PROVE  JoinInv'
<1>1. CASE Enter
  BY <1>1, EnterJoinInv
<1>2. CASE \E t \in Slots : Scan(t) \/ Wake(t) \/ BlockTimeout(t) \/ BlockFails(t)
  BY <1>2, ScanJoinInv, BlockEndJoinInv
<1>3. CASE SingleReturn
  BY <1>3, SingleReturnJoinInv
<1>4. CASE MainWake
  BY <1>4, MainWakeJoinInv
<1>5. CASE Join
  BY <1>5, JoinJoinInv
<1>6. CASE \/ \E h \in Handles : HandleSignalled(h) \/ HandleReset(h)
           \/ MessagePosted \/ MessagesRead
  BY <1>6, EnvJoinInv
<1>7. CASE UNCHANGED vars
  BY <1>7 DEF vars, JoinInv
<1>. QED  BY <1>1, <1>2, <1>3, <1>4, <1>5, <1>6, <1>7 DEF Next, InCall

(***************************************************************************)
(* WorkersJoined for every array, thread count and timeout: when every     *)
(* _beginthreadex succeeds, g_poll never returns while one of its threads  *)
(* still runs (spec 5).  A failed _beginthreadex breaks it: the invalid    *)
(* handle makes the join's wait fail at once (run win32_spawn_failure).    *)
(***************************************************************************)
THEOREM Win32WorkersJoined ==
  ASSUME SpawnCanFail = FALSE
  PROVE  Spec => []WorkersJoined
<1>1. Init => JoinInv
  BY InitJoinInv
<1>2. JoinInv /\ [Next]_vars => JoinInv'
  BY JoinInvStep
<1>3. JoinInv => WorkersJoined
  BY DEF JoinInv, WorkersJoined
<1>. QED  BY <1>1, <1>2, <1>3, PTL DEF Spec
-----------------------------------------------------------------------------
(***************************************************************************)
(* The fan-out split.  Part(n, i) is the range of entries g_poll gives     *)
(* worker i of an array of n entries (i * MAXIMUM_WAIT_OBJECTS_PER_THREAD   *)
(* onwards, thread_fds long).                                              *)
(***************************************************************************)
Part(n, i) == ThreadFirst(i) .. ThreadFirst(i) + ThreadFds(n, i) - 1

LEMMA PerThreadPos == PerThread \in Nat \ {0}
BY Win32Assumption DEF PerThread

\* Euclidean division by a positive divisor.
LEMMA DivMod ==
  ASSUME NEW P \in Nat \ {0}, NEW x \in Nat
  PROVE  /\ x \div P \in Nat
         /\ (x \div P) * P <= x /\ x < (x \div P) * P + P
         /\ x % P = x - (x \div P) * P
<1>1. (x \div P) * P <= x /\ x < (x \div P) * P + P
  BY SMT
<1>2. x % P = x - (x \div P) * P
  BY SMT
<1>3. x \div P \in Nat
  BY SMT
<1>. QED  BY <1>1, <1>2, <1>3

\* nthreads below the cap is the number of parts, the last one partial.
LEMMA NThreadsValue ==
  ASSUME NEW n \in Nat,
         n \div PerThread + (IF n % PerThread > 0 THEN 1 ELSE 0) <= PerThread
  PROVE  NThreads(n) = n \div PerThread + (IF n % PerThread > 0 THEN 1 ELSE 0)
<1>. DEFINE t == n \div PerThread + (IF n % PerThread > 0 THEN 1 ELSE 0)
<1>1. t \in Nat
  <2>1. n \div PerThread \in Nat
    BY PerThreadPos, DivMod
  <2>. QED  BY <2>1
<1>2. (t > PerThread) = FALSE
  BY <1>1, PerThreadPos
<1>. QED  BY <1>2, Zenon DEF NThreads

\* Multiplication by a natural number is monotonic.
LEMMA MulMono ==
  ASSUME NEW a \in Nat, NEW b \in Nat, NEW P \in Nat, a <= b
  PROVE  a * P <= b * P
BY SMT

\* Division as a quotient and a remainder, named without \div and %.
LEMMA DivModExists ==
  ASSUME NEW P \in Nat \ {0}, NEW x \in Nat
  PROVE  \E q \in Nat, r \in 0..P - 1 :
           /\ x = q * P + r /\ x \div P = q /\ x % P = r
<1>1. /\ x \div P \in Nat
      /\ (x \div P) * P <= x /\ x < (x \div P) * P + P
      /\ x % P = x - (x \div P) * P
  BY DivMod
<1>. QED  BY <1>1

(***************************************************************************)
(* An array that needs the fan-out but no more than the thread cap allows  *)
(* (at most PerThread^2 entries) is split into at most PerThread parts,    *)
(* each inside the array, that together cover every entry.                 *)
(***************************************************************************)
THEOREM FanOutCoversArray ==
  ASSUME NEW n \in Nat, n > MaxWaitObjects, n <= PerThread * PerThread
  PROVE  /\ NThreads(n) \in 1..PerThread
         /\ \A i \in 1..NThreads(n) : Part(n, i) \subseteq 1..n
         /\ \A e \in 1..n : \E i \in 1..NThreads(n) : e \in Part(n, i)
<1>. DEFINE P == PerThread
<1>1. P \in Nat \ {0} /\ n > 0
  BY PerThreadPos, Win32Assumption
<1>2. PICK q \in Nat, r \in 0..P - 1 :
        n = q * P + r /\ n \div P = q /\ n % P = r
  BY <1>1, DivModExists
<1>2b. q \in Nat /\ r \in 0..P - 1 /\ n = q * P + r
  BY <1>2
<1>. DEFINE nt == q + (IF r > 0 THEN 1 ELSE 0)
<1>3. nt <= P
  <2>1. CASE q < P
    BY <2>1, <1>1
  <2>2. CASE q >= P
    <3>1. P * P <= q * P
      BY <2>2, <1>1, MulMono
    <3>2. r = 0 /\ q * P = n
      BY <3>1, <1>1, <1>2
    <3>3. q <= P
      <4>1. SUFFICES ASSUME q > P PROVE FALSE
        BY <1>1
      <4>2. (P + 1) * P <= q * P
        BY <4>1, <1>1, MulMono
      <4>3. (P + 1) * P = P * P + P
        BY <1>1
      <4>. QED  BY <4>2, <4>3, <3>2, <1>1
    <3>. QED  BY <3>2, <3>3
  <2>. QED  BY <2>1, <2>2, <1>1
<1>4. NThreads(n) = nt /\ nt \in 1..P
  <2>1. n \div PerThread + (IF n % PerThread > 0 THEN 1 ELSE 0) <= PerThread
    BY <1>2, <1>3
  <2>2. NThreads(n) = n \div PerThread + (IF n % PerThread > 0 THEN 1 ELSE 0)
    BY <2>1, NThreadsValue
  <2>3. NThreads(n) = nt
    BY <2>2, <1>2
  <2>4. nt >= 1
    BY <1>1, <1>2
  <2>. QED  BY <2>3, <2>4, <1>3
\* ThreadFds: the last part is the remainder, every other one is full.
<1>5. \A i \in 1..nt : ThreadFds(n, i) = IF i = nt /\ r > 0 THEN r ELSE P
  BY <1>2, <1>4 DEF ThreadFds
<1>6. \A i \in 1..nt : ThreadFirst(i) = (i - 1) * P + 1
  BY <1>1, <1>2 DEF ThreadFirst
<1>7. \A i \in 1..nt : Part(n, i) \subseteq 1..n
  <2>. SUFFICES ASSUME NEW i \in 1..nt PROVE Part(n, i) \subseteq 1..n
    OBVIOUS
  <2>1. (i - 1) * P >= 0
    BY <1>1
  <2>2. CASE i = nt /\ r > 0
    <3>1. (i - 1) * P + r = n
      BY <2>2, <1>2
    <3>. QED  BY <3>1, <2>1, <2>2, <1>1, <1>2, <1>5, <1>6 DEF Part
  <2>3. CASE ~(i = nt /\ r > 0)
    <3>1. i <= q
      BY <2>3
    <3>2. (i - 1) * P + P <= q * P
      <4>1. i * P <= q * P
        BY <3>1, <1>1, <1>2, MulMono
      <4>2. (i - 1) * P + P = i * P
        BY <1>1
      <4>. QED  BY <4>1, <4>2
    <3>3. (i - 1) * P + P <= n
      BY <3>2, <1>1, <1>2b
    <3>. QED  BY <3>3, <2>1, <2>3, <1>1, <1>2, <1>5, <1>6 DEF Part
  <2>. QED  BY <2>2, <2>3
<1>8. \A e \in 1..n : \E i \in 1..nt : e \in Part(n, i)
  <2>. SUFFICES ASSUME NEW e \in 1..n PROVE \E i \in 1..nt : e \in Part(n, i)
    OBVIOUS
  <2>0. e - 1 \in Nat
    BY <1>1
  <2>1. PICK k \in Nat, m \in 0..P - 1 : e - 1 = k * P + m
    BY <2>0, <1>1, DivModExists
  <2>2. k <= q
    <3>1. SUFFICES ASSUME k > q PROVE FALSE
      OBVIOUS
    <3>2. (q + 1) * P <= k * P
      BY <3>1, <2>1, <1>1, <1>2, MulMono
    <3>3. (q + 1) * P = q * P + P
      BY <1>1
    <3>. QED  BY <3>2, <3>3, <2>1, <1>1, <1>2b
  <2>3. k = q => r > 0
    BY <2>1, <1>1, <1>2b
  <2>4. k + 1 \in 1..nt
    BY <2>1, <2>2, <2>3, <1>2
  <2>5. ThreadFirst(k + 1) = k * P + 1
    BY <2>1, <2>4, <1>1, <1>6
  <2>6. e \in Part(n, k + 1)
    <3>1. CASE k + 1 = nt /\ r > 0
      <4>1. k = q
        BY <3>1, <2>1, <1>2
      <4>. QED  BY <4>1, <3>1, <2>1, <2>4, <2>5, <1>1, <1>2, <1>5 DEF Part
    <3>2. CASE ~(k + 1 = nt /\ r > 0)
      BY <3>2, <2>1, <2>4, <2>5, <1>1, <1>5 DEF Part
    <3>. QED  BY <3>1, <3>2
  <2>. QED  BY <2>4, <2>6
<1>. QED  BY <1>4, <1>7, <1>8

(***************************************************************************)
(* The thread cap drops entries: nthreads never exceeds                    *)
(* MAXIMUM_WAIT_OBJECTS_PER_THREAD and no part is longer than that, so an  *)
(* entry past PerThread^2 is in no worker's part and is never polled       *)
(* (run win32_thread_cap shows a signalled one going unreported).          *)
(***************************************************************************)
THEOREM FanOutCapDropsEntries ==
  ASSUME NEW n \in Nat
  PROVE  \A e \in (PerThread * PerThread + 1)..n, i \in 1..NThreads(n) :
           e \notin Part(n, i)
<1>. DEFINE P == PerThread
<1>1. P \in Nat \ {0}
  BY PerThreadPos
<1>2. PICK q \in Nat, r \in 0..P - 1 :
        n = q * P + r /\ n \div P = q /\ n % P = r
  BY <1>1, DivModExists
<1>3. NThreads(n) \in Int /\ NThreads(n) <= P
  <2>1. q + (IF r > 0 THEN 1 ELSE 0) \in Nat
    BY <1>2
  <2>. QED  BY <2>1, <1>1, <1>2 DEF NThreads
<1>4. \A i \in 1..NThreads(n) : ThreadFds(n, i) \in 0..P
  BY <1>1, <1>2 DEF ThreadFds
<1>5. \A i \in 1..NThreads(n) : ThreadFirst(i) + ThreadFds(n, i) - 1 <= P * P
  <2>. SUFFICES ASSUME NEW i \in 1..NThreads(n)
                PROVE  ThreadFirst(i) + ThreadFds(n, i) - 1 <= P * P
    OBVIOUS
  <2>1. i - 1 \in Nat /\ i - 1 <= P - 1
    BY <1>1, <1>3
  <2>2. (i - 1) * P <= (P - 1) * P
    BY <2>1, <1>1, MulMono
  <2>3. (P - 1) * P + P = P * P
    BY <1>1
  <2>. QED  BY <2>2, <2>3, <1>1, <1>4 DEF ThreadFirst
<1>. SUFFICES ASSUME NEW e \in (P * P + 1)..n, NEW i \in 1..NThreads(n)
              PROVE  e \notin Part(n, i)
  OBVIOUS
<1>6. ThreadFirst(i) \in Int /\ ThreadFds(n, i) \in Int
  BY <1>1, <1>3, <1>4 DEF ThreadFirst
<1>. QED  BY <1>1, <1>5, <1>6 DEF Part
=============================================================================
