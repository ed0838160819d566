# Formal models of GLib's g_poll backends and GWakeup

This directory holds TLA+ models of the poll multiplexer in
`src/frida/frida-glib/glib/gpoll.c` and of the wakeup handle in
`src/unnamed/part_000` (the concatenated `glib-init.h` and `gwakeup.c`). It
also holds TLC configurations that check them on small instances, and TLAPS
proofs of the main bare-metal, kqueue, select, Win32 and Unix-wakeup
properties, and of two refinements, for every value of the constants.

## 1. The system

`g_poll(fds, nfds, timeout)` waits until some entry of a caller-owned array of
`GPollFD` is ready, or until the timeout elapses. It writes each entry's
`revents` and returns a count. The build selects exactly one backend:

| backend | code | what it does |
|---|---|---|
| native poll | gpoll.c 101-139 | a pass-through to `poll(2)` |
| Win32 | gpoll.c 143-523 | `WaitForMultipleObjectsEx` on up to 64 handles. More than that fan out to worker threads that share a stop event (`poll_single_thread`, `fill_poll_thread_data`). `poll_rest` recursively collects every ready handle after the first. |
| kqueue | gpoll.c 525-705 | registers each fd once per filter with `EV_ONESHOT` and maps the triggered events back. A GWakeup entry is realized on the kqueue for the call and unrealized after it. |
| bare metal (`G_OS_NONE`) | gpoll.c 707-870 | no OS descriptors. A GWakeup entry's `token` is set to the call's stack address. The call checks the atomic `signalled` flags and sleeps through the weak platform hooks `g_wait_sleep` and `g_wait_wake`, with `g_wait_is_set` as the recheck. |
| select emulation | gpoll.c 872-935 | builds `fd_set`s and `maxfd`, calls `select`, and rebuilds `revents` on a positive count |

`GWakeup` (part_000 66-565) is the cross-thread signal a main loop puts in
its poll array. `signal` makes the entry readable, and `acknowledge` makes it
unreadable again. It has four variants: a Win32 event, a kqueue user event
with a mutex-protected `pending` counter, the bare-metal flag plus token, and
an eventfd or self-pipe.

The components interact in two ways. The owner thread runs `g_poll` and then
`g_wakeup_acknowledge`, while any other thread may call `g_wakeup_signal` at
any moment. The backend must turn every such signal into a return from the
current or the next call.

## 2. Modules

| module | models | status |
|---|---|---|
| `WakeupContract` | the promise of a backend whose results are one snapshot (spec sections 4.2 and 5); the kqueue backend implements it | abstract |
| `ScanWakeupContract` | the weaker promise of a backend that reads wakeup flags one at a time; the bare-metal backend implements it | abstract |
| `BareMetalPoll` | bare-metal g_poll and the G_OS_NONE GWakeup | modelled |
| `MCBareMetalPoll` | TLC instance: 2 wakeups, 2 signallers, 2 token addresses | |
| `BareMetalPollProofs` | TLAPS proofs about `BareMetalPoll`, including the refinement | |
| `KqueuePoll` | kqueue g_poll and the kqueue GWakeup | modelled |
| `MCKqueuePoll` | TLC instance: 2 wakeups, fds {-1, 3}, arrays of 2 entries | |
| `KqueuePollProofs` | TLAPS proofs of `TriggeredIffPending` and `KqueueReadyReported` | |
| `KqueueContractProofs` | TLAPS proof of the refinement `KqueueContract` | |
| `SelectPoll` | select emulation of g_poll | modelled |
| `MCSelectPoll` | TLC instance: 2 entries, fds {-1,0,1} | |
| `SelectPollProofs` | TLAPS proofs of type correctness and `ReadyReported` | |
| `Win32Poll` | Win32 g_poll, its fan-out to worker threads, and the Win32 event GWakeup | modelled |
| `Win32PollProofs` | TLAPS proofs of `WorkersJoined` and of the fan-out split | |
| `MCWin32Poll` | TLC instance: MAXIMUM_WAIT_OBJECTS 3, 2 handles, the message entry, arrays of 1 to 5 entries | |
| `UnixWakeup` | the eventfd/pipe GWakeup and the native g_poll (`poll` itself) | modelled |
| `MCUnixWakeup` | TLC instance: 2 wakeups, an 18-byte pipe, an eventfd counter capped at 3 | |
| `UnixWakeupProofs` | TLAPS proofs of type correctness and `AckClears` | |

### WakeupContract

The abstract specification of what a backend promises about its wakeups
when its results are one snapshot. Its state is one owner (`idle`,
`polling`, `returned`), the wakeups of the call (`call`), a `pending` flag per
wakeup, what the call `observed` and whether it `succeeded`. `Signal` may
happen at any time, `Acknowledge` only while the owner is idle. A call
`Begin`s, then either `Return`s observing exactly its pending wakeups, or
`Fail`s (-1) with any observation, and `Finish`es. `PendingWakeupReturns`
says a polling call with a pending wakeup in its array stops polling. The
kqueue backend, whose collecting `kevent` is one kernel snapshot, is shown to
implement it (`KqueueContract`, mapping `INSTANCE WakeupContract WITH ...`).

### ScanWakeupContract

The same owner, calls and signals, for a backend that reads each wakeup's
flag separately while signallers run. `Begin` records in `sure` the wakeups of
the array already pending. `Return` may observe any set between `sure` and
the wakeups pending at the moment of return. A call that begins after a
signal therefore reports it. A signal that lands during a call may or may not
be reported by that call, and then stays pending for the next call. The
bare-metal backend implements it (`BareMetalContract`). It does not implement
`WakeupContract`: with w1 and w2 in the array, the scan can read w1 unset,
then both flags rise, then it reads w2, and the call returns {w2}, a set of
flags that held at no moment of the call (gpoll.c:763). Spec section 5 speaks
of one consistent snapshot. `ScanWakeupContract`'s `Return` allows that
outcome. `PollRead` models each read as its own step, so the
model has such behaviours. `BareMetalContract` checks that they stay within
`ScanWakeupContract`.

### BareMetalPoll

**Owner state.** The variables hold the program counter of one owner thread
(`idle`, `check`, `scan`, `sleep`, `parked`, `done`) and the wakeups of its
array (`fds`). They also hold the timeout, the call's token `tok` (`&op`,
drawn from the constant set `Tokens` because stack addresses repeat between
calls), `slept`, and an abstract clock bit `expired` (`now >= deadline`).
Finally they hold the `revents` and `ready` of the current pass, and `toscan`,
the entries the pass has still to read. `atEntry` is a history variable, not
state of the code: it holds the wakeups of the array signalled when the call
entered, which the refinement mapping needs.

**Shared state.** Per wakeup there is `signalled` and `token`. Per signaller
thread there is its position inside `g_wakeup_signal` (`spc`), the wakeup it
signals (`swk`), and the token it loaded (`stok`).

**Actions.** Each action follows the code:

- `PollEnter`: the deadline and the token-registration loop (717-745).
- `PollPass`: the top of the `for (;;)` loop (747-757): `ready = 0`, and
  every entry is still to be read.
- `PollRead(w)`: one iteration of the inner loop (753-769). It reads the
  flag of entry `w` with its own `g_atomic_int_get` and sets `revents` and
  `ready` from it. Signallers interleave between reads. The entries are read
  in any order, which covers every order of the array.
- `PollCheck`: the end of a pass (771-787). It exits on
  `ready || timeout == 0 || slept` or on a passed deadline, and otherwise
  goes to sleep.
- `WaitSleep`: the `g_wait_sleep` contract (810-829). If the wakeup is
  already set (`WaitIsSet` models `g_wait_is_set`, 844-870), it returns at
  once. Otherwise the owner parks until `WaitWake` or `SleepTimeout`.
- `ClockReachesDeadline`: the clock passing the deadline of a finite
  positive timeout.
- `PollDone`: the token-reset loop after `done:` (794-808).
- `Acknowledge`: `g_wakeup_acknowledge`. The owner calls it between calls.
- `SignalSet`, `SignalLoad`, `WaitWake`: the three atomic steps of
  `g_wakeup_signal` (part_000 331-341): store the flag, load the token, and
  call `g_wait_wake`.
- `Quiescent`: a stutter allowed only when every bounded signal has been
  sent and the owner has finished its calls or is parked with timeout -1.
  This keeps deadlock checking meaningful: any other stop is reported.

**Refinement mapping** (to `ScanWakeupContract`). `pending` is `signalled`.
The owner is `polling` from `check` to `parked`, and `returned` in `done`.
`sure` is `atEntry`. `observed` is the `revents` of a finished call.

### KqueuePoll

**Owner state.** `pc` runs through `idle`, `register`, `realize`, `wait`,
`unrealize`, `close`; `idx` is the loop index of the realize and unrealize
loops. The call's array `fds` holds entries that are either a wakeup
(`G_KQUEUE_WAKEUP_HANDLE`) or a plain fd (negative: ignored) with requested
`IN`/`OUT`. `revents` and `result` are what the call wrote and returned.

**Kernel state.** The call's kqueue is abstracted to its registrations
`knotes` (descriptor, filter, udata entry) and the user events triggered on
it (`trig`). Which descriptors are ready when the kernel collects is the
environment's choice (`osReady`, limited to requested operations).

**Wakeup state.** Per wakeup, `pending` (the guint, modulo the constant
`PendingModulus`) and `realized` (`kq != -1`). Since a wakeup is only ever
realized on the current call's kqueue, that is all of `kq` the code tells
apart.

**Actions.**

- `Enter` (gpoll.c 527-595): `kqueue()` may fail and return -1; otherwise the
  changelist is built (`Knotes`: one registration per descriptor and filter,
  whose udata is the *last* entry that requested it, since a later `EV_ADD`
  replaces it). Without wakeups the registration and the wait are one kevent,
  so the owner goes straight to `wait`.
- `Register` (596-601): the registering kevent; on failure `goto beach`.
- `RealizeStep` (603-609) calls `Realize` (`_g_wakeup_kqueue_realize`,
  part_000 222-234): store kq, and if `pending != 0` call
  `SignalUnlocked` (274-288), which triggers the user event *and* increments
  `pending`.
- `Collect` (611-680): the collecting kevent returns the ready registrations
  and triggered user events, and blocks while there are none unless the
  timeout is >= 0 (`ts = NULL` otherwise); `ReventsFrom` rebuilds the revents
  (615-669) and a positive count becomes the number of entries with revents.
- `CollectFails` (681-685): the kevent returns -1 (EINTR or an error).
- `UnrealizeStep` (690-697) calls `Unrealize` (236-244); `Close` (699-704).
- `Signal` (264-272) from any thread; `Acknowledge` (246-262) by the idle
  owner, which also deletes the trigger if the wakeup were realized.
- `Quiescent`: the system may stop when all signals are sent and the owner
  has made its calls or waits for ever on nothing.

G_IO_HUP/G_IO_ERR from `EV_EOF`/`EV_ERROR`, and `EVFILT_EXCEPT`/G_IO_PRI,
are left out: no property here is about them.

**Refinement mapping.** A wakeup is pending while `pending != 0`; the owner
is `polling` from `register` through `wait`, `returned` in `unrealize` and
`close`; `observed` is the wakeups whose entries got G_IO_IN; `succeeded` is
`result >= 0`.

### SelectPoll

**State.** Each entry's `fd`, `events` and `revents`, the readiness snapshot
`select` returned, the last result, and a call counter.

**Actions.**

- `GPoll`: one whole call (884-933). It covers `FD_SET` and `maxfd`
  (`RequestSet`, `MaxFd`), the timeval conversion (a timeout below -1 makes
  `select` fail), `select` as a choice of snapshot or failure (never 0 with a
  NULL timeval), and the revents rebuild only when `ready > 0` (`FromSets`).
- `SetEntry`: the caller changing an entry between calls.

### Win32Poll

The caller is slot 0 and the workers are slots 1 to MAXIMUM_WAIT_OBJECTS - 1.
Each slot holds a `GWin32PollThreadData`: `wlist`, the entries behind
`handles`/`handle_to_fd`, with `STOP` for the stop event; `wmsg`, its
`msg_fd`; and `wret`, what `poll_single_thread` returned. `wpc` is the
thread's place: `scan` (a non-blocking `poll_rest`), `block` (the wait with
the timeout), `done`, or `off`. The kernel objects are manual-reset events:
`sig` holds the signalled handles, `stop` is the stop event, and `msgq` is
input waiting in the caller's queue. `revents` starts as whatever the caller
left.

- `FillFrom`/`FillData` are `fill_poll_thread_data` (316-369). They put the
  stop event first, take a G_WIN32_MSG_HANDLE entry as `msg_fd` (the last one
  wins), append handles with fd > 0, zero every entry's revents, and break
  when full. The loop is a function of the number of entries passed, as is
  the merge loop `MergeFrom` (499-513); no operator of the module is
  RECURSIVE, so TLAPS can work in it. `NThreads`, `ThreadFds` and `ThreadFirst` are the split
  (439-469), including the cap and the last thread taking `threads_remain`.
- `PollRest` is `poll_rest` with timeout 0 (146-273), as a recursive
  function over (msg_fd, handles, depth). The wait returns the lowest signalled handle (`FirstSignalled`),
  marks it, counts it unless it is the stop event (`Retval`), and recurses
  over the handles after it. With no handle signalled, waiting input marks
  `msg_fd` and the handles are polled again without it. The wait at
  recursion depth `k` may fail (-1).
- `Scan` is `poll_single_thread`'s first check (291-303). When it found
  nothing and the timeout is not 0, the thread goes on to block. `Wake`,
  `BlockTimeout` and `BlockFails` are the three ways the blocking wait
  returns. A blocking wait reports one object (217-269); with no objects it
  sleeps, or fails on INFINITE (177-187).
- `Enter` is g_poll up to the thread starts (391-479). On the short path it
  fills slot 0. On the long path it fills one part per worker and moves
  `msg_fd` to the caller (the last part with one wins). Each worker starts
  unless `_beginthreadex` fails (`SpawnCanFail`).
- `SingleReturn` is the short path's return, with the zeroing on -1
  (424-431). `MainWake` is the caller's first wait (481-495): it fails at
  once on a 0 handle, and otherwise returns the first finished thread,
  input, or the timeout; then `SetEvent(stop)`. `Join` is the final wait and
  the merge (497-523). `AllJoined` is the wait for all; `MergeFrom` applies
  the sticky -1 to `GetExitCodeThread`, which skips an invalid handle and
  gives `StillActive` for a running thread. Then revents are zeroed on -1.
- `HandleSignalled`/`HandleReset` are `g_wakeup_signal` (SetEvent) and
  `g_wakeup_acknowledge` (ResetEvent) of the Win32 GWakeup (part_000
  164-173), and of any other event handle. Reset happens only between calls,
  by the owner. `MessagePosted`/`MessagesRead` are the caller's queue.

Each wait is one atomic step on the objects' state at that moment, as
`WaitForMultipleObjectsEx` is. A scan's whole recursion is also one step,
and that is an abstraction: in the code, a handle can be signalled between
two of its waits. The properties do not depend on it. During a call, handles
only become signalled, never reset, so each later wait of the recursion sees
every handle that was signalled at entry (`SignalledHandleReported`), and
every wait marks only a signalled handle (`ReportedOnlyReady`).

### UnixWakeup

The build on Linux and the BSDs without kqueue: g_poll is `poll` itself
(gpoll.c 133-139), and a GWakeup is an eventfd, or a non-blocking pipe when
`eventfd` fails (part_000 410-446).

**State.** Per wakeup, `mode` (eventfd or pipe, fixed by `g_wakeup_new`) and
`level` (the eventfd counter, or the bytes in the pipe; the descriptor is
readable while it is not 0). The owner's `pc` (`idle`, `polling`,
`returned`, or `ack` while the acknowledge loop goes on), the wakeup being
acknowledged, the array, timeout, revents and result of the call, and
counters of signals and calls.

**Actions.**

- `Signal(w)`: `g_wakeup_signal` (506-530) from any thread: one `write`, of
  the 64-bit 1 or of one byte. The EINTR retry wrote nothing, so it is not a
  step; at `Limit(w)` (a full pipe, or the counter's maximum) the write
  fails with EAGAIN and the level stays.
- `Acknowledge(w)` and `AckRead`: the loop of `g_wakeup_acknowledge` (488),
  one step per `read` of 16 bytes, so signals interleave between reads.
  `ReadSize` is what the read returns (-1 when empty, 8 from an eventfd, at
  most 16 from a pipe), `AfterRead` the level after it; the loop goes on
  only after a read of exactly 16 bytes.
- `PollBegin`, `PollReturn`, `PollFails`, `PollDone`: a `poll` call, which
  returns POLLIN on exactly the readable wakeups of its array (`Readable`,
  the G_IO_IN pollfd of `g_wakeup_get_pollfd`) and their number, at once
  when one is readable, otherwise at the timeout (never for -1); or fails
  with -1 (EINTR), leaving revents as they were.

**Properties.** `AckClears` (an action property): a read that ends the
acknowledge loop leaves its wakeup unreadable. The run lets signals land
between any two reads of the loop.

The code of this variant makes two decisions: the loop condition of the
acknowledge and the ignored result of the write. Everything else is the
kernel's (a descriptor is readable while its level is not 0). So a contract
stated over the levels would hold whatever the code does, and none is
checked. `AckClears` covers the loop condition. The dropped write on a
full pipe is harmless only because the kernel keeps a full pipe readable.

## 3. Runs

| run | cfg | expect | shows |
|---|---|---|---|
| bare_metal_safety | MCBareMetalPoll.cfg | pass | `NoLostWakeup`: whenever the owner is parked and a wakeup of its array is set, a signaller is still on its way to wake exactly this token. `TokenOwnedByLiveCall`: a non-NULL token always belongs to the live call. `BareMetalContract`: the backend implements `ScanWakeupContract`: each call reports every wakeup of its array signalled at entry, and only signalled ones, although each flag is read in its own step. `TypeOK`, with the scan inside the array. `BareMetalPendingReturns`: under `FairSpec`, a call with a signalled wakeup returns, also with timeout -1. |
| bare_metal_deadline | MCBareMetalPoll_deadline.cfg | violation | `DeadlineRespected` fails: a stale `g_wait_wake` ends a later call early with 0 (also with timeout -1), because the loop exits after one sleep (gpoll.c:771). |
| kqueue_safety | MCKqueuePoll.cfg | pass | `TriggeredIffPending`: while the owner waits, the triggered user events are exactly the array's pending wakeups, whatever the interleaving of signals with realize and unrealize. `KqueueReadyReported`: on a positive return each plain entry gets exactly its ready requested operations. `KqueueContract`: the backend implements `WakeupContract`. `KqueuePendingReturns`: under `FairSpec`, a call with a pending wakeup returns, also with ts = NULL. |
| kqueue_duplicate_fd | MCKqueuePoll_dupfd.cfg | violation | `KqueueReadyReported` fails for two entries on one fd: the shared registration's udata is the last entry, so the first is never reported (gpoll.c:562). |
| win32_safety | MCWin32Poll.cfg | pass | `SignalledHandleReported`: every handle signalled at entry is reported by a call that returns a count, whichever worker polls it. `ReportedOnlyReady`: every reported entry is ready. `ResultCountsReported`: the count is the number of entries flagged. `FailedCallReportsNothing`: a call that returns -1, because a worker or the caller's own wait failed, leaves no revents set, the message entry's G_IO_IN included (gpoll.c:515). `WorkersJoined`: no worker runs once g_poll has returned. `NoFillBreak`: no part overflows. |
| win32_liveness | MCWin32Poll_live.cfg | pass | `FanOutReturns`: under `FairSpec`, a call during which a handle of its array is signalled returns, also with INFINITE and with a failed `_beginthreadex`. `TypeOK`: the result is -1 or a count. |
| win32_thread_cap | MCWin32Poll_cap.cfg | violation | `SignalledHandleReported` fails for 5 entries with MAXIMUM_WAIT_OBJECTS 3: nthreads is capped at 2, and the second thread takes only `threads_remain` = 1 entry, so entry 4 is never polled (gpoll.c:447). Its stale revents also survive. |
| win32_spawn_failure | MCWin32Poll_spawn.cfg | violation | `WorkersJoined` fails: after a failed `_beginthreadex`, both waits fail at once and g_poll returns 259 (STILL_ACTIVE) while a worker still runs on freed data (gpoll.c:478). |
| select_ready | MCSelectPoll.cfg | pass | `ReadyReported`: a positive return reports, per entry, exactly the requested operations that were ready. This covers ignored entries, duplicate fds and entries with no events. |
| select_stale_revents | MCSelectPoll_stale.cfg | violation | `TimeoutClearsResults` fails: a timeout leaves the previous revents (gpoll.c:917). |
| select_count | MCSelectPoll_count.cfg | violation | `ResultCountsEntries` fails: the return value counts bits, not entries (gpoll.c:932). |
| unix_wakeup | MCUnixWakeup.cfg | pass | `AckClears`: every acknowledge drains its descriptor, also with 17 or more bytes in the pipe and signals landing between its reads. `TypeOK`. |

**Bounds.**

- Bare metal: 2 calls and 2 signals. The safety properties and the
  liveness property are checked in one run under `FairSpec`, about 377,000
  states.
  - Each flag read is its own step, which multiplies the states: 3 calls
    give 1.3 million, and the liveness check then takes most of the time
    budget.
  - Two calls are enough for the cases that matter. A wakeup acknowledged
    between the calls meets the revents of the first call. A token loaded
    during the first call is delivered during the second. Two signals let
    the two signallers overlap, and let both flags rise during one scan,
    which is what a result that is no snapshot needs.
  - With two tokens, a token address is reused by a later call.
  - The timeouts {-2, -1, 0, 1} cover every branch of the deadline
    computation.
- Kqueue: arrays of 2 entries over 2 wakeups and fds {-1, 3}, 3 calls, 2
  signals, timeouts {-1, 0} (NULL and non-NULL timespec).
  - A signal can fall before, between and after the realize and unrealize of
    the same call, and survive into a later call.
  - `pending` grows by one per signal and by one per realize of a pending
    wakeup, so it reaches at most 2 + 3 * 2 = 8. The pass runs use
    `PendingModulus = 16`, which the real 2^32 exceeds just as much. The pass
    runs therefore do not check the wrap. With a modulus of 4 the
    wrap is reachable and `KqueueContract` fails (part_000:287). In the real
    program that takes 2^32 increments without an acknowledge, so it stays a
    hazard with no run.
  - The pass runs use arrays without two plain entries on one fd
    (`MCDistinctArrays`); the duplicate-fd run allows them.
  - About 660,000 distinct states, under `FairSpec`, as for bare metal.
- Win32: MAXIMUM_WAIT_OBJECTS = 3, so a part is 2 entries beside the stop
  event, and 4 entries need two workers.
  - The shape of the code is kept: one slot for the stop event or the
    message entry, the split, and the cap at MAXIMUM_WAIT_OBJECTS_PER_THREAD.
    The real constant only scales these.
  - Arrays: `<<h1>>`, `<<MSG>>`, `<<NONE>>`, `<<h2, MSG, h1>>` (short), and
    `<<h1, MSG, h2, h1>>`, `<<h2, NONE, h1, MSG>>` (fanned out, with the
    message entry in each part, a duplicate handle, and an ignored entry).
  - Timeouts {-1, 0, 1}, 2 calls, and every initial revents. This is about
    155,000 states.
  - The liveness run uses one call, the arrays with handles, timeouts
    {-1, 0}, and `SpawnCanFail`. A finite timeout always ends a wait, so it
    adds nothing to `FanOutReturns`.
- Unix wakeup: 2 wakeups, each an eventfd or a pipe, 19 signals, an
  18-byte pipe, a counter capped at 3, 2 calls with timeouts {-1, 0}.
  - 17 bytes need a second read of the loop, and 19 signals fill the pipe,
    so a write meets EAGAIN; 3 stands for the counter's 2^64 - 2, which only
    matters at the cap.
  - About 640,000 distinct states.
- Select: 2 calls over 2 entries and fds {-1, 0, 1}.
  - Entries can be ignored (fd -1), share an fd, or sit at the highest fd,
    which is where an off-by-one in `maxfd` shows.

**Mutants.** Each property of a passing run is broken by a plausible fault of
the code, recorded in PROJECT.json:

- dropping the token registration breaks `NoLostWakeup`;
- skipping the token reset breaks `TokenOwnedByLiveCall`;
- a scan that runs past the end of the array breaks `TypeOK`;
- a pass that keeps the revents of the previous one breaks
  `BareMetalContract`;
- a `g_wait_sleep` that parks without `g_wait_is_set` breaks
  `BareMetalPendingReturns`;
- a realize that does not re-trigger a pending signal breaks
  `TriggeredIffPending`;
- a changelist without the EVFILT_WRITE registrations breaks
  `KqueueReadyReported`;
- an EVFILT_USER loop that does not compare handles breaks `KqueueContract`;
- a collecting kevent that ignores user events breaks `KqueuePendingReturns`;
- passing `maxfd` to select breaks `ReadyReported`;
- recursing in `poll_rest` only past two handles breaks
  `SignalledHandleReported`;
- counting the stop event breaks `ResultCountsReported`;
- a -1 return that skips the zeroing loop breaks `FailedCallReportsNothing`;
- a message wait taken as input regardless of the queue breaks
  `ReportedOnlyReady`;
- joining without waiting breaks `WorkersJoined`;
- no slot reserved per part breaks `NoFillBreak`;
- a non-sticky -1 in the merge breaks `TypeOK`;
- workers that do not wait on the stop event break `FanOutReturns`;
- a pipe read taken to empty a whole buffer breaks the Unix `TypeOK`;
- an acknowledge with one read and no loop breaks `AckClears`.

**Fairness.** The liveness runs use `FairSpec`, weak fairness of the steps
that the code performs without waiting for anyone's choice:

- bare metal: the owner's check loop (each pass, each read, each exit) and
  token reset, `g_wait_sleep`
  returning when its recheck finds the flag, the sleep timing out and the
  clock passing a deadline, and each signaller's load and `g_wait_wake` once
  it has stored the flag. The sleep hooks are platform code; their fairness
  is the contract their comments state (lines 810-842).
- kqueue: the owner's steps inside g_poll, and the kernel returning from the
  collecting kevent once an event is triggered or the timeout passed.
  `CollectFails` (EINTR) has no fairness, since the environment may
  interrupt, and entering a call, signalling and acknowledging are the
  callers' choice.
- Win32: each thread's scan and blocking wait, one weak-fairness condition
  per thread. The OS schedules every thread, and a wait returns once an
  object is signalled or the timeout passes. The caller's return, first
  wait and join are also fair. `BlockFails` (WAIT_FAILED) has no fairness.

## 4. Proofs

**BareMetalPollProofs.** `NoLostWakeup` is not inductive by itself. A step
may park the owner only if every set wakeup of its array already carries its
token, which takes two more conjuncts (`WakeInv`).

- `Registered`: during a call, every wakeup of `fds` holds `tok`.
- `TokenOwnedByLiveCall`: this conjunct makes the token reset in
  `PollDone` sound.

`TypeOK` is not inductive either: `toscan \subseteq fds` needs `toscan`
empty when a new call changes `fds`. The contract needs facts about the scan.
`ScanInv` gives both:

- outside a pass, nothing is left to read;
- during a call, every wakeup signalled at entry is still signalled, because
  only the owner acknowledges, between calls;
- in a pass and at `done`, `revents` holds only signalled wakeups of the
  array;
- in a pass, every wakeup signalled at entry that the pass has read is in
  `revents`, and at `done` all of them are.

`IInv == TypeOK /\ ScanInv /\ WakeInv` passes TLC as an invariant. TLAPS proves `Init => IInv` and
`IInv /\ [Next]_vars => IInv'`, with one step per action and, under each
action, one step per conjunct that the action can disturb. The argument for
`NoLostWakeup` runs as follows:

- `SignalSet` on a wakeup of `fds` puts that signaller in the `load` state.
- `SignalLoad` then reads `tok`, because of `Registered`.
- `WaitSleep` parks only when nothing is set.

The refinement to `ScanWakeupContract` is proved by `RefineInit` (initial
states map to the contract's) and `RefineStep`. Under `ScanInv`, every step
maps to a contract step or a stutter:

- `PollEnter` is `Begin`;
- the exit of `PollCheck` is `Return` (`ReturnStep`, from the last two
  conjuncts of `ScanInv`);
- `PollDone` is `Finish`, and `SignalSet` and `Acknowledge` are theirs;
- `PollPass`, `PollRead` and every other step are stutters (`OwnerStutter`).

The theorems hold under `ConstantsAssumption` (non-empty finite `Wakeups`,
non-empty `Tokens`, `NULL \notin Tokens`, and natural-number bounds) for
every number of wakeups, signallers, token addresses and timeouts:

- `TypeCorrect`: `Spec => []TypeOK`;
- `WakeupNeverLost`: `Spec => []NoLostWakeup`;
- `TokenNeverDangles`: `Spec => []TokenOwnedByLiveCall`;
- `BareMetalRefinesContract`: `Spec => BareMetalContract`.

**KqueuePollProofs.** `KqueueTriggeredIffPending` proves
`Spec => []TriggeredIffPending` under `KqueueAssumption` and `NoWrap`
(`PendingModulus > MaxSignals + MaxCalls * NEntries`). Without it `pending`
can wrap to 0 (see the bounds above). The inductive invariant `KInv` adds:

- `RealizedState`: which wakeups are realized at each `pc` (none outside a
  call, those of entries below `idx` while realizing, all of the array while
  waiting, only those still ahead while unrealizing);
- `TrigState`: nothing is triggered before realize, and from then on
  exactly the realized wakeups with `pending != 0` are;
- `PendingBound`: `pending` is at most the signals plus the realize steps
  done so far, which under `NoWrap` keeps every increment from reaching 0.

`KInv` passes TLC as an invariant (with every array and modulus 10). The
step proof has one lemma per owner action and one for each wakeup operation;
`Signal` and `RealizeStep` are where `NoWrap` is used.

`KqueueReadyReportedThm` proves `Spec => KqueueReadyReported` under
`DistinctDescriptors`: the plain entries of every array in `Arrays` are on
distinct descriptors. This is the hypothesis of the passing run
(`MCDistinctArrays`). Without it the property is false, as the
`kqueue_duplicate_fd` run shows. The inductive invariant `RInv` says that
`fds` is one of `Arrays` and that from entry to collection the kqueue holds
the changelist `Knotes(fds)` (`KnotesState`). `KnotesOfEntry` shows that,
with distinct descriptors, the registrations whose udata is entry `e` are
exactly one per requested operation on `e`'s descriptor. `CHOOSE` over
`Req` then picks the only entry. `ReadyStep` shows that a collecting step
with a positive count is `Collect` and reads `revents` from those
registrations.

**KqueueContractProofs.** `KqueueRefinesContract` proves
`Spec => KqueueContract` under `NoWrap`. The refinement's invariant is
`KInv`. `RefineStep` has one lemma per action:

- `Enter` is `Begin`, or a stutter when `kqueue()` fails.
- A failed registering kevent and `CollectFails` are `Fail`.
- `Collect` is `Return`. `CollectReportsPending` shows that the wakeups it
  marks G_IO_IN are the triggered ones of the array, and these are the
  pending ones by `TriggeredIffPending`.
- `Close` is `Finish`; `Signal` and `Acknowledge` are theirs.
- The realize and unrealize loops are stutters. A realize step leaves every
  pending flag unchanged, because it increments only a count that is not 0,
  and `NoWrap` keeps that count from wrapping (`RealizeKeepsPending`).

`ContractActions` restates each contract action on the mapped state, and
`MappedPc` gives the contract's pc from the owner's, so no step has to
expand the CASE of `ContractPc`.

**SelectPollProofs.** Under `SelectAssumption`, for any array, descriptor
values (duplicates and ignored entries included), event sets and timeouts:

- `SelectTypeCorrect`: `Spec => []TypeOK`.
- `SelectReadyReported`: `Spec => ReadyReported`. This is an action
  property, and `TypeOK` is all the invariant it needs. The one fact that
  takes work is that every requesting descriptor is below `maxfd + 1`
  (`MaxFdBound`). It needs `MaxFd`, a `CHOOSE` of the largest descriptor,
  to exist. `MaxExists` proves that a non-empty finite set of integers has
  a maximum without induction over the set: among the sets
  `{y \in S : x <= y}`, the well-founded strict-subset ordering on finite
  sets has a minimal one (`WFMin`), and its `x` is the maximum.
  `FromSetsReady` then puts each requested ready operation into the
  rebuilt revents. It also shows that only ready operations are put there;
  an operation another entry requested on the same descriptor may be among
  them.

**UnixWakeupProofs.** Under `UnixAssumption` (finite `Wakeups`, positive
pipe capacity and counter limit, natural bounds) and for any number of
wakeups and signals:

- `UnixTypeCorrect`: `Spec => []TypeOK`;
- `UnixAckDrains`: `Spec => AckClears`. A read that ends the loop returned
  less than 16 bytes, so it took the whole pipe or reset the counter
  (`ReadBounds`); a signal never lowers a level (`IncrementBounds`).

**Win32PollProofs.** `WorkersJoined` is not inductive: a step of a
running worker must be known not to touch a slot the caller relies on
being off. `JoinInv` adds the following (TLC checks it on the
`win32_safety` instance, 154,513 states):

- `wpc` stays a function on the slots;
- a call on the caller's thread leaves every worker slot off;
- during a fan-out call, `spawned = 1..nthr`, and every slot outside it,
  slot 0 included, is off.

The last conjunct is what makes the join sound. `AllJoined` has two
disjuncts: the wait returns when every worker is done, or at once when a
thread handle is invalid. With `spawned = 1..nthr` only the first can hold.
A thread step changes only its own slot, and that slot is not off.

- `Win32WorkersJoined`: `ASSUME SpawnCanFail = FALSE PROVE
  Spec => []WorkersJoined`, for every array, timeout and
  MAXIMUM_WAIT_OBJECTS. The hypothesis is the one `win32_safety` runs
  under. Without it the theorem is false: `win32_spawn_failure` shows g_poll
  returning while a worker runs.
- `FanOutCoversArray`: an array longer than MAXIMUM_WAIT_OBJECTS and at
  most PerThread^2 long is split into `NThreads(n) <= PerThread` parts.
  Each part lies inside the array, and together they cover every entry.
- `FanOutCapDropsEntries`: any entry past PerThread^2 is in no part. This
  is the `win32_thread_cap` finding (gpoll.c:447) for every constant.

Both split theorems rest on `DivModExists`, which names the quotient and
remainder, and on `MulMono`. They keep `\div` and `%` out of the arithmetic
steps, which Z3 does not finish otherwise.

**Out of TLAPS's reach.** The following stay with TLC:

- liveness (`BareMetalPendingReturns`, `KqueuePendingReturns`) and anything
  that uses ENABLED;
- arrays with two plain entries on one descriptor, excluded by
  `DistinctDescriptors`: there `KqueueReadyReported` fails, as the
  `kqueue_duplicate_fd` run shows;
- a `pending` that wraps (`NoWrap` false). It is neither proved nor checked,
  since it needs 2^32 signals to one wakeup between acknowledges;
- induction over data, i.e. what a recursive definition computes for every
  input. The provers cannot instantiate the library's induction theorems,
  so `MaxExists` is proved by well-foundedness instead;
- the Win32 properties that depend on what the recursive functions
  `FillFrom`, `PollRest` and `MergeFrom` return: `SignalledHandleReported`,
  `ReportedOnlyReady`, `ResultCountsReported`, `NoFillBreak` and `TypeOK`.
  Using a value of a recursive function needs the recursion theorems of
  `NaturalsInduction`, which take the body as an operator parameter that
  the provers cannot instantiate;
- the select emulation's `TimeoutClearsResults` and `ResultCountsEntries`,
  which are violated (the `select_stale_revents` and `select_count` runs).

## 5. Not modelled, and why

- **`glib-init.h`.** It holds only declarations.
- **`g_wakeup_free`.** It only closes descriptors and releases memory.
- **`g_error` in `g_wakeup_new`.** A pipe that cannot be made aborts the
  process; the model starts from created wakeups.
- **Plain descriptors in the bare-metal backend.** They are never reported,
  so they are abstracted away.
- **HUP, ERR and PRI in the kqueue backend.** They come from kernel flags
  that no property here distinguishes.
- **Win32 alertable waits.** WAIT_IO_COMPLETION from an APC queued to the
  polling thread returns 0 early; nothing in this code queues one.
- **MsgWaitForMultipleObjectsEx reporting only new input.** Input that was
  seen but not removed does not wake the wait. The model treats any waiting
  input as waking it. For the same reason no run checks whether input that
  waits beside a signalled handle is reported (gpoll.c:266, where the
  recursion drops `msg_fd`).
- **After a failed `_beginthreadex`:** the model lets the orphaned workers
  finish before the next call. The code does not wait for them.

## 6. Plan for the remaining work

1. **Win32 and `WakeupContract`.** A blocking wait reports one object, so
   the refinement needs a linearization point per reported wakeup.
2. **A violation run with two owners on one GWakeup** (gpoll.c:741/803).
3. **Proofs.** The Win32 invariants that need the values
   of `FillFrom`, `PollRest` and `MergeFrom` (see section 4) remain with
   TLC until the provers can use the recursion theorems.
