------------------------------ MODULE Win32Poll ------------------------------
(***************************************************************************)
(* The Win32 backend of g_poll (gpoll.c, G_OS_WIN32): handles waited on    *)
(* with WaitForMultipleObjectsEx (MsgWaitForMultipleObjectsEx when the     *)
(* array has a message entry), and the fan-out to worker threads when the  *)
(* array is longer than MAXIMUM_WAIT_OBJECTS.                              *)
(*                                                                         *)
(* The caller (slot 0) runs poll_single_thread itself for a short array.   *)
(* For a long one it fills one GWin32PollThreadData per worker (slots      *)
(* 1..), starts them, waits for the first to finish or for a message,     *)
(* sets the shared stop event, joins all, and merges their results.        *)
(* Each wait is one atomic step; a non-blocking poll_rest scan (timeout 0, *)
(* recursing over the rest of the handles) is one step on the objects'     *)
(* state at that moment.  Kernel objects are manual-reset events whose     *)
(* state is 'sig' (the stop event: 'stop'); 'msgq' is input waiting in the *)
(* caller's message queue.                                                 *)
(***************************************************************************)
EXTENDS Integers, Sequences, FiniteSets

CONSTANTS
  Handles,         \* HANDLE values of entries (fd > 0)
  MsgHandle,       \* G_WIN32_MSG_HANDLE (always with G_IO_IN here)
  NoHandle,        \* an fd <= 0: ignored
  Arrays,          \* the GPollFD arrays the caller passes
  MaxEntries,      \* the caller's buffer: the longest array
  Timeouts,        \* timeout arguments; -1 becomes INFINITE
  MaxWaitObjects,  \* MAXIMUM_WAIT_OBJECTS (64)
  MaxCalls,        \* bound on the number of g_poll calls
  SpawnCanFail     \* whether _beginthreadex may fail (return 0)

EntrySlots == 1..MaxEntries

ASSUME Win32Assumption ==
  /\ MsgHandle \notin Handles /\ NoHandle \notin Handles /\ MsgHandle # NoHandle
  /\ MaxEntries \in Nat \ {0}
  /\ Arrays \subseteq UNION {[1..n -> Handles \cup {MsgHandle, NoHandle}] : n \in EntrySlots}
  /\ Timeouts \subseteq {-1} \cup Nat
  /\ MaxWaitObjects \in Nat /\ MaxWaitObjects >= 2
  /\ MaxCalls \in Nat
  /\ SpawnCanFail \in BOOLEAN

Infinite == -1
\* The exit code GetExitCodeThread gives for a thread still running.
StillActive == 259
\* In a worker's handle list, the position of the stop event.
STOP == 0

VARIABLES
  mpc,       \* the caller: "idle", "single", "wait", "join"
  arr,       \* the array of the current (or last) call
  tmo,       \* its timeout
  revents,   \* per slot of the caller's buffer: revents # 0
  result,    \* the value the last call returned
  sig,       \* the signalled handles
  msgq,      \* input is waiting in the caller's message queue
  stop,      \* the stop event of the call is set
  wpc,       \* per slot: "off", "scan", "block", "done"
  wlist,     \* per slot: handle_to_fd, as entry indices (STOP: stop_fd)
  wmsg,      \* per slot: msg_fd (an entry index, 0 for NULL)
  wret,      \* per slot: what poll_single_thread returned
  nthr,      \* nthreads of the current call
  spawned,   \* the workers whose _beginthreadex succeeded
  mmsg,      \* the msg_fd the caller waits on beside the threads
  msgReady,  \* the caller's wait returned WAIT_OBJECT_0 + nthreads
  brk,       \* fill_poll_thread_data hit "Too many handles"
  calls,     \* number of g_poll calls made
  entrySig   \* the signalled handles when the call began

vars == <<mpc, arr, tmo, revents, result, sig, msgq, stop, wpc, wlist, wmsg,
          wret, nthr, spawned, mmsg, msgReady, brk, calls, entrySig>>

\* A plausible fault: no slot reserved for the stop event or the messages.
PerThreadFull == MaxWaitObjects

\* MAXIMUM_WAIT_OBJECTS_PER_THREAD: one slot is kept for msg or stop.
PerThread == MaxWaitObjects - 1

Workers == 1..MaxWaitObjects - 1
Slots == {0} \cup Workers

MinOf(S) == CHOOSE x \in S : \A y \in S : x <= y
MaxOf(S) == CHOOSE x \in S : \A y \in S : y <= x
-----------------------------------------------------------------------------
(***************************************************************************)
(* fill_poll_thread_data's loop over entries k..last: stop when the handle *)
(* array is full (one slot short if there is a message entry); take a      *)
(* message entry as msg_fd, a handle as the next wait object; zero the     *)
(* entry's revents.                                                        *)
(***************************************************************************)
FillFrom(a, k, last, acc) ==
  LET Full(d) == \/ Len(d.list) = MaxWaitObjects
                 \/ d.msg # 0 /\ Len(d.list) = MaxWaitObjects - 1
      Take(d, e) ==
        [list    |-> IF a[e] \in Handles THEN Append(d.list, e) ELSE d.list,
         msg     |-> IF a[e] = MsgHandle THEN e ELSE d.msg,
         cleared |-> d.cleared \cup {e},
         brk     |-> FALSE]
      \* the data once the loop has passed entries k..k+j-1
      iter[j \in Nat] ==
        IF j = 0 THEN acc
        ELSE LET d == iter[j - 1]
             IN  IF d.brk THEN d
                 ELSE IF Full(d) THEN [d EXCEPT !.brk = TRUE]
                 ELSE Take(d, k + j - 1)
  IN  iter[IF last >= k THEN last - k + 1 ELSE 0]

\* A plausible fault: the workers do not wait on the stop event.
FillDataNoStop(a, first, n, withStop) ==
  FillFrom(a, first, first + n - 1,
           [list |-> <<>>, msg |-> 0, cleared |-> {}, brk |-> FALSE])

\* The data of a thread polling n entries from 'first', with the stop event
\* in front for a worker.
FillData(a, first, n, withStop) ==
  FillFrom(a, first, first + n - 1,
           [list |-> IF withStop THEN <<STOP>> ELSE <<>>, msg |-> 0,
            cleared |-> {}, brk |-> FALSE])

\* nthreads, capped; the entries of worker i.
NThreads(n) ==
  LET t == n \div PerThread + (IF n % PerThread > 0 THEN 1 ELSE 0)
  IN  IF t > PerThread THEN PerThread ELSE t
ThreadFds(n, i) ==
  IF i = NThreads(n) /\ n % PerThread > 0 THEN n % PerThread ELSE PerThread
ThreadFirst(i) == 1 + (i - 1) * PerThread
-----------------------------------------------------------------------------
Signalled(l, i) == IF l[i] = STOP THEN stop ELSE arr[l[i]] \in sig

\* The index WaitForMultipleObjects returns: the lowest signalled object.
FirstSignalled(l) ==
  LET S == {i \in 1..Len(l) : Signalled(l, i)}
  IN  IF S = {} THEN 0 ELSE MinOf(S)

\* A plausible fault: the message wait taken as returning on input whatever
\* the queue holds.
InputWaitingAlways(m) == m # 0

\* A message wait on msg_fd m returns WAIT_OBJECT_0 + nhandles: input waits.
InputWaiting(m) == m # 0 /\ msgq

\* A plausible fault: the stop event counted as a ready descriptor.
RetvalCountsStop(l, i) == 1

\* What a wait that returned object i adds to the count: "Do not count the
\* stop_fd".
Retval(l, i) == IF l[i] = STOP THEN 0 ELSE 1

\* A plausible fault: recursing only when more than two handles are polled.
PollRestShortTail(msg, l, k) ==
  LET pr[x \in Nat \X Seq(Nat) \X Int] ==
        LET m == x[1]
            q == x[2]
            d == x[3]
            i == FirstSignalled(q)
            n == Len(q)
        IN  IF n = 0 /\ m = 0 THEN [ret |-> 0, marks |-> {}]
            ELSE IF d = 1 THEN [ret |-> -1, marks |-> {}]
            ELSE IF i # 0
              THEN LET mark == IF q[i] = STOP THEN {} ELSE {q[i]}
                       retval == Retval(q, i)
                   IN  IF n > 2
                         THEN LET r == pr[<<0, SubSeq(q, i + 1, n), d - 1>>]
                              IN  [ret |-> IF r.ret = -1 THEN -1 ELSE retval + r.ret,
                                   marks |-> mark \cup r.marks]
                         ELSE [ret |-> retval, marks |-> mark]
            ELSE IF InputWaiting(m)
              THEN IF n = 0 THEN [ret |-> 1, marks |-> {m}]
                   ELSE LET r == pr[<<0, q, d - 1>>]
                        IN  [ret |-> IF r.ret = -1 THEN -1 ELSE 1 + r.ret,
                             marks |-> {m} \cup r.marks]
            ELSE [ret |-> 0, marks |-> {}]
  IN  pr[<<msg, l, k>>]

(***************************************************************************)
(* poll_rest with timeout_ms = 0: the wait returns the lowest signalled    *)
(* handle (marked, counted unless it is stop_fd), then the handles after   *)
(* it are polled recursively; with no handle signalled, waiting input      *)
(* marks msg_fd and the handles are polled again without it.  The wait at  *)
(* recursion depth k fails (WAIT_FAILED, -1), k = 0 for none; the entries  *)
(* marked before keep their revents.                                       *)
(***************************************************************************)
PollRest(msg, l, k) ==
  LET pr[x \in Nat \X Seq(Nat) \X Int] ==
        LET m == x[1]
            q == x[2]
            d == x[3]
            i == FirstSignalled(q)
            n == Len(q)
        IN  IF n = 0 /\ m = 0 THEN [ret |-> 0, marks |-> {}]
            ELSE IF d = 1 THEN [ret |-> -1, marks |-> {}]
            ELSE IF i # 0
              THEN LET mark == IF q[i] = STOP THEN {} ELSE {q[i]}
                       retval == Retval(q, i)
                   IN  IF n > 1
                         THEN LET r == pr[<<0, SubSeq(q, i + 1, n), d - 1>>]
                              IN  [ret |-> IF r.ret = -1 THEN -1 ELSE retval + r.ret,
                                   marks |-> mark \cup r.marks]
                         ELSE [ret |-> retval, marks |-> mark]
            ELSE IF InputWaiting(m)
              THEN IF n = 0 THEN [ret |-> 1, marks |-> {m}]
                   ELSE LET r == pr[<<0, q, d - 1>>]
                        IN  [ret |-> IF r.ret = -1 THEN -1 ELSE 1 + r.ret,
                             marks |-> {m} \cup r.marks]
            ELSE [ret |-> 0, marks |-> {}]
  IN  pr[<<msg, l, k>>]

\* poll_single_thread: several objects, or timeout 0, start with a scan.
StartPc(l, msg, tm) ==
  IF Len(l) > 1 \/ (Len(l) > 0 /\ msg # 0) \/ tm = 0 THEN "scan" ELSE "block"

\* revents after marking a set of entries.
Marked(rev, m) == [e \in EntrySlots |-> rev[e] \/ e \in m]

\* A plausible fault: a -1 return that leaves revents as they are.
ClearedNot(rev) == rev

\* revents zeroed over the array, on a -1 return.
Cleared(rev) == [e \in EntrySlots |-> IF e \in DOMAIN arr THEN FALSE ELSE rev[e]]
-----------------------------------------------------------------------------
(***************************************************************************)
(* g_poll entry.  An array of at most MAXIMUM_WAIT_OBJECTS entries is      *)
(* filled for the caller's own poll_single_thread.  A longer one is split  *)
(* into nthreads parts, each filled with the stop event in front; the      *)
(* message entry is taken out of its worker for the caller (the last part  *)
(* with one wins), and each worker is started (_beginthreadex may fail).   *)
(***************************************************************************)
Enter ==
  /\ mpc = "idle"
  /\ calls < MaxCalls
  /\ \A t \in Slots : wpc[t] = "off"
  /\ \E a \in Arrays, tm \in Timeouts :
       LET n == Len(a) IN
       /\ arr' = a
       /\ tmo' = tm
       /\ IF n <= MaxWaitObjects
            THEN LET d == FillData(a, 1, n, FALSE) IN
                 /\ mpc' = "single"
                 /\ wpc' = [wpc EXCEPT ![0] = StartPc(d.list, d.msg, tm)]
                 /\ wlist' = [wlist EXCEPT ![0] = d.list]
                 /\ wmsg' = [wmsg EXCEPT ![0] = d.msg]
                 /\ revents' = [e \in EntrySlots |-> revents[e] /\ e \notin d.cleared]
                 /\ brk' = d.brk
                 /\ nthr' = 0
                 /\ spawned' = {}
                 /\ mmsg' = 0
            ELSE LET nt == NThreads(n)
                     F(i) == FillData(a, ThreadFirst(i), ThreadFds(n, i), TRUE)
                     withMsg == {i \in 1..nt : F(i).msg # 0}
                 IN  /\ mpc' = "wait"
                     /\ nthr' = nt
                     /\ \E sp \in IF SpawnCanFail THEN SUBSET (1..nt) ELSE {1..nt} :
                          /\ spawned' = sp
                          /\ wpc' = [t \in Slots |->
                                       IF t \in sp THEN StartPc(F(t).list, 0, tm) ELSE "off"]
                     /\ wlist' = [t \in Slots |-> IF t \in 1..nt THEN F(t).list ELSE <<>>]
                     /\ wmsg' = [t \in Slots |-> 0]
                     /\ mmsg' = IF withMsg = {} THEN 0 ELSE F(MaxOf(withMsg)).msg
                     /\ revents' = [e \in EntrySlots |->
                                      revents[e] /\ e \notin UNION {F(i).cleared : i \in 1..nt}]
                     /\ brk' = \E i \in 1..nt : F(i).brk
  /\ stop' = FALSE
  /\ msgReady' = FALSE
  /\ entrySig' = sig
  /\ calls' = calls + 1
  /\ UNCHANGED <<result, sig, msgq, wret>>

(***************************************************************************)
(* A non-blocking poll_rest of thread t (its first check, or its only wait *)
(* with timeout 0).  If it found nothing and the timeout is not 0, the     *)
(* thread goes on to the blocking wait.                                    *)
(***************************************************************************)
Scan(t) ==
  /\ wpc[t] = "scan"
  /\ \E out \in {PollRest(wmsg[t], wlist[t], k) : k \in 0..Len(wlist[t]) + 2} :
       /\ revents' = Marked(revents, out.marks)
       /\ IF out.ret = 0 /\ tmo # 0
            THEN wpc' = [wpc EXCEPT ![t] = "block"] /\ UNCHANGED wret
            ELSE wpc' = [wpc EXCEPT ![t] = "done"] /\ wret' = [wret EXCEPT ![t] = out.ret]
  /\ UNCHANGED <<mpc, arr, tmo, result, sig, msgq, stop, wlist, wmsg, nthr, spawned,
                 mmsg, msgReady, brk, calls, entrySig>>

(***************************************************************************)
(* The blocking poll_rest of thread t returns an object: the lowest        *)
(* signalled handle (stop_fd counts 0), else waiting input.  With a        *)
(* timeout there is no recursion: one object is reported.                 *)
(***************************************************************************)
Wake(t) ==
  /\ wpc[t] = "block"
  /\ LET l == wlist[t]
         i == FirstSignalled(l)
     IN  \/ /\ i # 0
            /\ revents' = IF l[i] = STOP THEN revents ELSE Marked(revents, {l[i]})
            /\ wret' = [wret EXCEPT ![t] = Retval(l, i)]
         \/ /\ i = 0
            /\ InputWaiting(wmsg[t])
            /\ revents' = Marked(revents, {wmsg[t]})
            /\ wret' = [wret EXCEPT ![t] = 1]
  /\ wpc' = [wpc EXCEPT ![t] = "done"]
  /\ UNCHANGED <<mpc, arr, tmo, result, sig, msgq, stop, wlist, wmsg, nthr, spawned,
                 mmsg, msgReady, brk, calls, entrySig>>

\* The blocking wait of thread t times out with nothing signalled (also the
\* sleep on the current process when there is nothing to wait for).
BlockTimeout(t) ==
  /\ wpc[t] = "block"
  /\ tmo # Infinite
  /\ FirstSignalled(wlist[t]) = 0
  /\ ~InputWaiting(wmsg[t])
  /\ wpc' = [wpc EXCEPT ![t] = "done"]
  /\ wret' = [wret EXCEPT ![t] = 0]
  /\ UNCHANGED <<mpc, arr, tmo, revents, result, sig, msgq, stop, wlist, wmsg, nthr,
                 spawned, mmsg, msgReady, brk, calls, entrySig>>

\* The blocking wait of thread t fails (WAIT_FAILED); with nothing to wait
\* for and an INFINITE timeout it always does.
BlockFails(t) ==
  /\ wpc[t] = "block"
  /\ Len(wlist[t]) > 0 \/ wmsg[t] # 0 \/ tmo = Infinite
  /\ wpc' = [wpc EXCEPT ![t] = "done"]
  /\ wret' = [wret EXCEPT ![t] = -1]
  /\ UNCHANGED <<mpc, arr, tmo, revents, result, sig, msgq, stop, wlist, wmsg, nthr,
                 spawned, mmsg, msgReady, brk, calls, entrySig>>

\* poll_single_thread has returned on the caller's thread; a -1 zeroes
\* every revents.
SingleReturn ==
  /\ mpc = "single"
  /\ wpc[0] = "done"
  /\ result' = wret[0]
  /\ revents' = IF wret[0] = -1 THEN Cleared(revents) ELSE revents
  /\ wpc' = [wpc EXCEPT ![0] = "off"]
  /\ mpc' = "idle"
  /\ UNCHANGED <<arr, tmo, sig, msgq, stop, wlist, wmsg, wret, nthr, spawned, mmsg,
                 msgReady, brk, calls, entrySig>>

(***************************************************************************)
(* The caller's wait on the thread handles (and its message queue)         *)
(* returns: WAIT_FAILED at once if a handle is invalid (a failed           *)
(* _beginthreadex), else the lowest finished thread, else waiting input,  *)
(* else the timeout.  Then SetEvent (stop_event).                          *)
(***************************************************************************)
MainWake ==
  /\ mpc = "wait"
  /\ LET finished == {i \in spawned : wpc[i] = "done"}
         invalid == spawned # 1..nthr
         input == InputWaiting(mmsg)
     IN  \/ invalid /\ msgReady' = FALSE
         \/ ~invalid /\ finished # {} /\ msgReady' = FALSE
         \/ ~invalid /\ finished = {} /\ input /\ msgReady' = TRUE
         \/ ~invalid /\ finished = {} /\ ~input /\ tmo # Infinite /\ msgReady' = FALSE
  /\ stop' = TRUE
  /\ mpc' = "join"
  /\ UNCHANGED <<arr, tmo, revents, result, sig, msgq, wpc, wlist, wmsg, wret, nthr,
                 spawned, mmsg, brk, calls, entrySig>>

\* GetExitCodeThread of worker i.
ExitCode(i) == IF wpc[i] = "done" THEN wret[i] ELSE StillActive

\* A plausible fault: a -1 is added in instead of sticking.
MergeFromNotSticky(i, retval) ==
  LET acc[j \in Nat] ==   \* retval once the workers i..i+j-1 are merged
        IF j = 0 THEN retval
        ELSE LET w == i + j - 1
                 r == acc[j - 1]
             IN  IF w \notin spawned THEN r ELSE r + ExitCode(w)
  IN  acc[IF nthr >= i THEN nthr - i + 1 ELSE 0]

\* The merge loop over the workers: -1 sticks, a failed GetExitCodeThread
\* (invalid handle) is skipped.
MergeFrom(i, retval) ==
  LET acc[j \in Nat] ==   \* retval once the workers i..i+j-1 are merged
        IF j = 0 THEN retval
        ELSE LET w == i + j - 1
                 r == acc[j - 1]
             IN  IF w \notin spawned THEN r
                 ELSE IF r = -1 \/ ExitCode(w) = -1 THEN -1
                 ELSE r + ExitCode(w)
  IN  acc[IF nthr >= i THEN nthr - i + 1 ELSE 0]

(***************************************************************************)
(* WaitForMultipleObjects on all thread handles (INFINITE; it fails at     *)
(* once on an invalid handle), the merge of the exit codes after the       *)
(* message entry's G_IO_IN, and the zeroing of every revents on -1.        *)
(***************************************************************************)
\* A plausible fault: no wait for the remaining workers.
AllJoinedAnyTime == TRUE

\* WaitForMultipleObjects (nthreads, thread_handles, TRUE, INFINITE) has
\* returned: every worker has finished, or a handle is invalid (0).
AllJoined == spawned # 1..nthr \/ \A i \in 1..nthr : wpc[i] = "done"

Join ==
  /\ mpc = "join"
  /\ AllJoined
  /\ LET r == MergeFrom(1, IF msgReady THEN 1 ELSE 0)
         rev == IF msgReady THEN Marked(revents, {mmsg}) ELSE revents
     IN  /\ result' = r
         /\ revents' = IF r = -1 THEN Cleared(rev) ELSE rev
  /\ wpc' = [t \in Slots |-> IF wpc[t] = "done" THEN "off" ELSE wpc[t]]
  /\ mpc' = "idle"
  /\ UNCHANGED <<arr, tmo, sig, msgq, stop, wlist, wmsg, wret, nthr, spawned, mmsg,
                 msgReady, brk, calls, entrySig>>

(***************************************************************************)
(* The handles are manual-reset events, a GWakeup among them: any thread   *)
(* sets one (g_wakeup_signal is SetEvent), and between calls its owner     *)
(* resets it (g_wakeup_acknowledge is ResetEvent).  Input arrives in the   *)
(* caller's queue at any time and is read between calls.                  *)
(***************************************************************************)
HandleSignalled(h) ==
  /\ h \notin sig
  /\ sig' = sig \cup {h}
  /\ UNCHANGED <<mpc, arr, tmo, revents, result, msgq, stop, wpc, wlist, wmsg, wret,
                 nthr, spawned, mmsg, msgReady, brk, calls, entrySig>>

MessagePosted ==
  /\ ~msgq
  /\ msgq' = TRUE
  /\ UNCHANGED <<mpc, arr, tmo, revents, result, sig, stop, wpc, wlist, wmsg, wret,
                 nthr, spawned, mmsg, msgReady, brk, calls, entrySig>>

HandleReset(h) ==
  /\ mpc = "idle"
  /\ h \in sig
  /\ sig' = sig \ {h}
  /\ UNCHANGED <<mpc, arr, tmo, revents, result, msgq, stop, wpc, wlist, wmsg, wret,
                 nthr, spawned, mmsg, msgReady, brk, calls, entrySig>>

MessagesRead ==
  /\ mpc = "idle"
  /\ msgq
  /\ msgq' = FALSE
  /\ UNCHANGED <<mpc, arr, tmo, revents, result, sig, stop, wpc, wlist, wmsg, wret,
                 nthr, spawned, mmsg, msgReady, brk, calls, entrySig>>

Init ==
  /\ mpc = "idle"
  /\ arr \in Arrays
  /\ tmo = 0
  /\ revents \in [EntrySlots -> BOOLEAN]   \* whatever the caller left
  /\ result = 0
  /\ sig = {}
  /\ msgq = FALSE
  /\ stop = FALSE
  /\ wpc = [t \in Slots |-> "off"]
  /\ wlist = [t \in Slots |-> <<>>]
  /\ wmsg = [t \in Slots |-> 0]
  /\ wret = [t \in Slots |-> 0]
  /\ nthr = 0
  /\ spawned = {}
  /\ mmsg = 0
  /\ msgReady = FALSE
  /\ brk = FALSE
  /\ calls = 0
  /\ entrySig = {}

\* The steps of a g_poll call after it has entered.
InCall ==
  \/ \E t \in Slots : Scan(t) \/ Wake(t) \/ BlockTimeout(t) \/ BlockFails(t)
  \/ SingleReturn \/ MainWake \/ Join

Next ==
  \/ Enter \/ InCall
  \/ \E h \in Handles : HandleSignalled(h) \/ HandleReset(h)
  \/ MessagePosted \/ MessagesRead

Spec == Init /\ [][Next]_vars

(***************************************************************************)
(* The threads of a call are scheduled, and a wait returns once one of its *)
(* objects is signalled or its timeout elapses; the caller's own steps     *)
(* are taken once enabled.  Nothing is assumed of the environment.         *)
(***************************************************************************)
FairSpec ==
  /\ Spec
  /\ \A t \in Slots : WF_vars(Scan(t) \/ Wake(t) \/ BlockTimeout(t))
  /\ WF_vars(SingleReturn) /\ WF_vars(MainWake) /\ WF_vars(Join)
-----------------------------------------------------------------------------
\* The type of every variable.
TypeOK ==
  /\ mpc \in {"idle", "single", "wait", "join"}
  /\ arr \in Arrays
  /\ tmo \in Timeouts
  /\ revents \in [EntrySlots -> BOOLEAN]
  /\ result \in {-1} \cup Nat
  /\ sig \subseteq Handles /\ entrySig \subseteq Handles
  /\ {msgq, stop, msgReady, brk} \subseteq BOOLEAN
  /\ wpc \in [Slots -> {"off", "scan", "block", "done"}]
  /\ wlist \in [Slots -> Seq({STOP} \cup EntrySlots)]
  /\ wmsg \in [Slots -> {0} \cup EntrySlots]
  /\ wret \in [Slots -> -1..MaxWaitObjects]
  /\ nthr \in 0..PerThread /\ spawned \subseteq Workers
  /\ mmsg \in {0} \cup EntrySlots
  /\ calls \in 0..MaxCalls

\* A g_poll call has returned, with a count.
Returned == mpc = "idle" /\ calls > 0 /\ result # -1

(***************************************************************************)
(* Every entry whose handle was already signalled when g_poll was called   *)
(* is reported (revents set) by a call that returns a count, whichever     *)
(* worker polled it: the timeout-0 poll_rest recursion over the handles    *)
(* after the one returned must not skip any (spec 8, fan-out correctness). *)
(***************************************************************************)
SignalledHandleReported ==
  Returned => \A e \in DOMAIN arr : arr[e] \in entrySig => revents[e]

(***************************************************************************)
(* When a call returns a count, every entry it reports is ready: its       *)
(* handle is signalled, or it is the message entry and input waits.  The   *)
(* wait's index is mapped back through handle_to_fd (shortened with the    *)
(* handles in the recursion), and revents the caller left in the array do  *)
(* not survive (fill_poll_thread_data zeroes each entry first).            *)
(***************************************************************************)
ReportedOnlyReady ==
  [][mpc # "idle" /\ mpc' = "idle" /\ result' # -1 =>
       \A e \in DOMAIN arr :
         revents'[e] => arr[e] \in sig \/ (arr[e] = MsgHandle /\ msgq)]_vars

(***************************************************************************)
(* The count g_poll returns is the number of entries it reports: the       *)
(* stop event is never counted, and the merge of the workers' exit codes   *)
(* with the caller's message adds up to the entries flagged.               *)
(***************************************************************************)
ResultCountsReported ==
  Returned => result = Cardinality({e \in DOMAIN arr : revents[e]})

(***************************************************************************)
(* A call that returns -1 reports nothing: when any worker's exit code is  *)
(* -1, the merge keeps -1 whatever order the codes come in, and every      *)
(* revents is zeroed, the G_IO_IN the caller set on the message entry and  *)
(* those other workers set included; so is the single-thread path's.       *)
(***************************************************************************)
FailedCallReportsNothing ==
  (mpc = "idle" /\ calls > 0 /\ result = -1) =>
    \A e \in DOMAIN arr : ~revents[e]

(***************************************************************************)
(* g_poll never returns while one of its worker threads is still running   *)
(* (spec 5: fan-out workers are always joined before return).              *)
(***************************************************************************)
WorkersJoined ==
  mpc = "idle" => \A t \in Slots : wpc[t] = "off"

(***************************************************************************)
(* fill_poll_thread_data never runs out of handle slots ("Too many handles *)
(* to wait for!"): one part of MAXIMUM_WAIT_OBJECTS_PER_THREAD entries     *)
(* fits beside the stop event or the message entry.                        *)
(***************************************************************************)
NoFillBreak == ~brk

(***************************************************************************)
(* A call during which a handle of its array is signalled returns: the     *)
(* worker that has it finishes, the caller sets the stop event, and every  *)
(* other worker's wait returns on it, so the join completes.               *)
(***************************************************************************)
FanOutReturns ==
  (mpc # "idle" /\ \E e \in DOMAIN arr : arr[e] \in sig) ~> mpc = "idle"
=============================================================================
