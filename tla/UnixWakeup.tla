------------------------------ MODULE UnixWakeup ------------------------------
(***************************************************************************)
(* The Unix GWakeup (gwakeup.c, neither Win32, kqueue nor G_OS_NONE),      *)
(* polled by the native g_poll, which is poll() itself (gpoll.c, HAVE_POLL *)
(* without HAVE_KQUEUE).                                                   *)
(*                                                                         *)
(* A wakeup is an eventfd when eventfd() succeeds, and a non-blocking pipe *)
(* otherwise.  g_wakeup_signal writes once (the eventfd counter grows by   *)
(* one, the pipe by a byte; a full pipe or counter refuses with EAGAIN).   *)
(* g_wakeup_acknowledge reads 16 bytes at a time until a read returns      *)
(* less, and signals from other threads may land between its reads.       *)
(* Either kind is readable while its level is not 0.  The owner thread     *)
(* polls, then acknowledges, one at a time.                                *)
(***************************************************************************)
EXTENDS Integers, FiniteSets

CONSTANTS
  Wakeups,       \* the GWakeups
  Timeouts,      \* the timeouts passed to g_poll (-1: wait forever)
  PipeCapacity,  \* the bytes a pipe holds before write() says EAGAIN
  CounterMax,    \* the largest eventfd counter (0xfffffffffffffffe)
  MaxSignals,    \* bound on the number of g_wakeup_signal calls
  MaxCalls       \* bound on the number of g_poll calls

ASSUME UnixAssumption ==
  /\ IsFiniteSet(Wakeups)
  /\ Timeouts \subseteq Int
  /\ PipeCapacity \in Nat \ {0}
  /\ CounterMax \in Nat \ {0}
  /\ MaxSignals \in Nat
  /\ MaxCalls \in Nat

\* sizeof buffer in g_wakeup_acknowledge.
BufferSize == 16
\* What read() returns from an eventfd: its 64-bit counter.
CounterSize == 8

VARIABLES
  mode,     \* per wakeup: "eventfd" if eventfd() succeeded, else "pipe"
  level,    \* per wakeup: the eventfd counter, or the bytes in the pipe
  pc,       \* the owner: "idle", "polling", "returned", or "ack" (looping)
  acking,   \* the wakeup whose g_wakeup_acknowledge is looping, as a set
  fds,      \* the wakeups in the array of the current (or last) call
  tmo,      \* its timeout
  revents,  \* the wakeups the call reported readable (G_IO_IN)
  result,   \* what the call returned
  signals,  \* number of g_wakeup_signal calls made
  calls     \* number of g_poll calls made

vars == <<mode, level, pc, acking, fds, tmo, revents, result, signals, calls>>

Least(a, b) == IF a <= b THEN a ELSE b
-----------------------------------------------------------------------------
(***************************************************************************)
(* g_wakeup_new: eventfd (0, EFD_CLOEXEC | EFD_NONBLOCK), or a pipe made   *)
(* non-blocking when that fails; either starts empty.                      *)
(***************************************************************************)
Init ==
  /\ mode \in [Wakeups -> {"eventfd", "pipe"}]
  /\ level = [w \in Wakeups |-> 0]
  /\ pc = "idle"
  /\ acking = {}
  /\ fds = {}
  /\ tmo = 0
  /\ revents = {}
  /\ result = 0
  /\ signals = 0
  /\ calls = 0

\* The level at which write() on the wakeup fails with EAGAIN.
Limit(w) == IF mode[w] = "eventfd" THEN CounterMax ELSE PipeCapacity

\* The level after one write(): one more, unless it is full (EAGAIN).
Increment(w) == IF level[w] < Limit(w) THEN level[w] + 1 ELSE level[w]

(***************************************************************************)
(* g_wakeup_signal, from any thread at any time: one write() of the        *)
(* 8-byte 1 to the eventfd or of one byte to the pipe; a write cut by      *)
(* EINTR wrote nothing and is repeated, and EAGAIN ends the loop.          *)
(***************************************************************************)
Signal(w) ==
  /\ signals < MaxSignals
  /\ level' = [level EXCEPT ![w] = Increment(w)]
  /\ signals' = signals + 1
  /\ UNCHANGED <<mode, pc, acking, fds, tmo, revents, result, calls>>

\* What read (fds[0], buffer, sizeof buffer) returns: -1 (EAGAIN) when
\* empty, the counter's 8 bytes from an eventfd, else the bytes it takes.
ReadSize(w) ==
  IF level[w] = 0 THEN -1
  ELSE IF mode[w] = "eventfd" THEN CounterSize
  ELSE Least(BufferSize, level[w])

\* A plausible fault: a pipe read taken to empty a whole buffer.
AfterReadFull(w) ==
  IF mode[w] = "eventfd" THEN 0 ELSE level[w] - BufferSize

\* The level after that read: an eventfd read resets the counter.
AfterRead(w) ==
  IF mode[w] = "eventfd" THEN 0 ELSE level[w] - Least(BufferSize, level[w])

\* A plausible fault: acknowledge reads once, with no loop.
ReadOnceNoLoop(w) ==
  /\ level' = [level EXCEPT ![w] = AfterRead(w)]
  /\ pc' = "idle"
  /\ acking' = {}

\* One read of the acknowledge loop; the loop goes on while a read fills
\* the whole buffer.
ReadOnce(w) ==
  /\ level' = [level EXCEPT ![w] = AfterRead(w)]
  /\ IF ReadSize(w) = BufferSize
       THEN pc' = "ack" /\ acking' = {w}
       ELSE pc' = "idle" /\ acking' = {}

\* g_wakeup_acknowledge by the owner, between calls: its first read.
Acknowledge(w) ==
  /\ pc = "idle"
  /\ ReadOnce(w)
  /\ UNCHANGED <<mode, fds, tmo, revents, result, signals, calls>>

\* The next read of the loop, after a read that filled the buffer.
AckRead ==
  /\ pc = "ack"
  /\ \E w \in acking : ReadOnce(w)
  /\ UNCHANGED <<mode, fds, tmo, revents, result, signals, calls>>
-----------------------------------------------------------------------------
\* The owner calls g_poll on an array holding the pollfds of some wakeups.
PollBegin ==
  /\ pc = "idle"
  /\ calls < MaxCalls
  /\ \E S \in SUBSET Wakeups, t \in Timeouts :
       /\ fds' = S
       /\ tmo' = t
  /\ pc' = "polling"
  /\ calls' = calls + 1
  /\ UNCHANGED <<mode, level, acking, revents, result, signals>>

\* The wakeups of the array that poll() finds readable.
Readable == {w \in fds : level[w] > 0}

(***************************************************************************)
(* poll() returns: at once when an entry is readable, else when the        *)
(* timeout elapses (never for -1), with POLLIN on exactly the readable     *)
(* entries and their number.                                               *)
(***************************************************************************)
PollReturn ==
  /\ pc = "polling"
  /\ Readable # {} \/ tmo # -1
  /\ revents' = Readable
  /\ result' = Cardinality(Readable)
  /\ pc' = "returned"
  /\ UNCHANGED <<mode, level, acking, fds, tmo, signals, calls>>

\* poll() fails (EINTR): -1, and the revents are the caller's old values.
PollFails ==
  /\ pc = "polling"
  /\ revents' \in SUBSET fds
  /\ result' = -1
  /\ pc' = "returned"
  /\ UNCHANGED <<mode, level, acking, fds, tmo, signals, calls>>

\* The owner has read the results; it may poll or acknowledge again.
PollDone ==
  /\ pc = "returned"
  /\ pc' = "idle"
  /\ UNCHANGED <<mode, level, acking, fds, tmo, revents, result, signals, calls>>

Next ==
  \/ \E w \in Wakeups : Signal(w) \/ Acknowledge(w)
  \/ AckRead
  \/ PollBegin \/ PollReturn \/ PollFails \/ PollDone

Spec == Init /\ [][Next]_vars
-----------------------------------------------------------------------------
\* The type of every variable.
TypeOK ==
  /\ mode \in [Wakeups -> {"eventfd", "pipe"}]
  /\ level \in [Wakeups -> Nat]
  /\ pc \in {"idle", "polling", "returned", "ack"}
  /\ acking \subseteq Wakeups
  /\ fds \subseteq Wakeups
  /\ tmo \in Timeouts \cup {0}
  /\ revents \subseteq Wakeups
  /\ result \in Int
  /\ signals \in 0..MaxSignals
  /\ calls \in 0..MaxCalls

(***************************************************************************)
(* g_wakeup_acknowledge returns only with the descriptor drained: a read   *)
(* that ends the loop leaves the wakeup unreadable, however many signals   *)
(* have filled the pipe, and signals that land between the reads of the    *)
(* loop are drained with the rest (spec 4.2: loop until a non-full read).  *)
(***************************************************************************)
AckClears ==
  [][\A w \in Wakeups :
       (level'[w] < level[w] /\ pc' = "idle") => level'[w] = 0]_vars
=============================================================================
