---------------------------- MODULE SelectPoll ----------------------------
(***************************************************************************)
(* The select()-based emulation of g_poll in gpoll.c (the fallback when    *)
(* neither poll() nor kqueue is usable).  One thread calls g_poll on an    *)
(* array of GPollFD that it owns and reuses between calls, changing the fd *)
(* or the requested events of an entry in between, as a main loop does.    *)
(*                                                                         *)
(* select() itself is the environment: it examines the descriptors below   *)
(* its first argument and reports, for each of the three sets, the members *)
(* that are ready in the snapshot 'osReady' it returns with; it may also   *)
(* fail (EINTR, EBADF, EINVAL), and with timeout -1 it never returns 0.    *)
(***************************************************************************)
EXTENDS Integers, FiniteSets

CONSTANTS
  Entries,    \* indices of the GPollFD array
  FdValues,   \* values an entry's fd may hold (negative: ignored entry)
  EventSets,  \* the requested-event sets the caller uses
  Timeouts,   \* timeout arguments (milliseconds)
  MaxCalls    \* bound on the number of g_poll calls

ASSUME SelectAssumption ==
  /\ Entries # {}
  /\ IsFiniteSet(Entries)
  /\ FdValues \subseteq Int
  /\ IsFiniteSet(FdValues)
  /\ EventSets \subseteq SUBSET {"IN", "OUT", "PRI"}
  /\ Timeouts \subseteq Int
  /\ MaxCalls \in Nat

\* G_IO_IN, G_IO_OUT and G_IO_PRI: the events select can report.
Ops == {"IN", "OUT", "PRI"}
\* The descriptors that can be put in an fd_set.
Descriptors == {d \in FdValues : d >= 0}

VARIABLES
  fd,        \* GPollFD.fd per entry
  events,    \* GPollFD.events per entry
  revents,   \* GPollFD.revents per entry
  osReady,   \* per descriptor, the operations ready when select returned
  result,    \* the value the last g_poll call returned
  calls      \* number of g_poll calls made

vars == <<fd, events, revents, osReady, result, calls>>

-----------------------------------------------------------------------------
(***************************************************************************)
(* FD_SET of the read, write and exception sets: the descriptors of the    *)
(* non-negative entries that request the operation.                        *)
(***************************************************************************)
RequestSet(op) == {fd[e] : e \in {x \in Entries : fd[x] >= 0 /\ op \in events[x]}}

(***************************************************************************)
(* maxfd: the largest fd of an entry requesting any event, and 0 if none.  *)
(***************************************************************************)
MaxFd ==
  LET S == {fd[e] : e \in {x \in Entries : fd[x] >= 0 /\ events[x] # {}}}
  IN  IF S = {} THEN 0 ELSE CHOOSE m \in S : \A d \in S : d <= m

(***************************************************************************)
(* select(nfds, ...) leaves in the set of op its members below nfds that   *)
(* are ready for op in the snapshot rdy.                                   *)
(***************************************************************************)
Selected(op, nfds, rdy) == {d \in RequestSet(op) : d < nfds /\ op \in rdy[d]}

(***************************************************************************)
(* The revents g_poll derives from the returned sets for an entry.         *)
(***************************************************************************)
FromSets(e, nfds, rdy) ==
  IF fd[e] >= 0 THEN {op \in Ops : fd[e] \in Selected(op, nfds, rdy)} ELSE {}

(***************************************************************************)
(* The readiness snapshots select can return with: only the operations     *)
(* some entry requests on a descriptor are examined, so only those matter. *)
(***************************************************************************)
Snapshots ==
  {r \in [Descriptors -> SUBSET Ops] :
       \A d \in Descriptors : \A op \in r[d] : d \in RequestSet(op)}

(***************************************************************************)
(* A plausible fault: passing maxfd instead of maxfd + 1 to select.        *)
(***************************************************************************)
SelectNfdsOffByOne == MaxFd

(***************************************************************************)
(* The first argument g_poll passes to select.                             *)
(***************************************************************************)
SelectNfds == MaxFd + 1

(***************************************************************************)
(* g_poll: build the sets, convert the timeout to a timeval, call select,  *)
(* and only if select returned a positive count rebuild every revents.     *)
(* select returns the number of bits left in the three sets; a timeval     *)
(* with a negative field (timeout below -1) makes it fail with EINVAL.     *)
(***************************************************************************)
GPoll ==
  /\ calls < MaxCalls
  /\ \E ms \in Timeouts, rdy \in Snapshots, fail \in BOOLEAN :
       LET nfds  == SelectNfds
           count == Cardinality(Selected("IN", nfds, rdy))
                      + Cardinality(Selected("OUT", nfds, rdy))
                      + Cardinality(Selected("PRI", nfds, rdy))
           ret   == IF fail \/ ms < -1 THEN -1 ELSE count
       IN  /\ ms = -1 => ret # 0
           /\ osReady' = rdy
           /\ result' = ret
           /\ revents' = IF ret > 0
                           THEN [e \in Entries |-> FromSets(e, nfds, rdy)]
                           ELSE revents
  /\ calls' = calls + 1
  /\ UNCHANGED <<fd, events>>

(***************************************************************************)
(* Between two calls the caller points an entry at another descriptor or   *)
(* changes the events it requests; revents is left as g_poll wrote it.     *)
(***************************************************************************)
SetEntry(e) ==
  /\ \E d \in FdValues, ev \in EventSets :
       /\ fd' = [fd EXCEPT ![e] = d]
       /\ events' = [events EXCEPT ![e] = ev]
  /\ UNCHANGED <<revents, osReady, result, calls>>

Init ==
  /\ fd \in [Entries -> FdValues]
  /\ events \in [Entries -> EventSets]
  /\ revents = [e \in Entries |-> {}]
  /\ osReady = [d \in Descriptors |-> {}]
  /\ result = 0
  /\ calls = 0

Next ==
  \/ GPoll
  \/ \E e \in Entries : SetEntry(e)

Spec == Init /\ [][Next]_vars

-----------------------------------------------------------------------------
TypeOK ==
  /\ fd \in [Entries -> FdValues]
  /\ events \in [Entries -> SUBSET Ops]
  /\ revents \in [Entries -> SUBSET Ops]
  /\ osReady \in [Descriptors -> SUBSET Ops]
  /\ result \in Int
  /\ calls \in 0..MaxCalls

(***************************************************************************)
(* A step is a g_poll call.                                                *)
(***************************************************************************)
PollStep == calls' = calls + 1

(***************************************************************************)
(* Readiness is reported: every g_poll call that returns a positive count  *)
(* leaves, in every entry on a descriptor, each operation the entry        *)
(* requested that the descriptor was ready for, and nothing the descriptor *)
(* was not ready for.  This rests on g_poll passing maxfd + 1 to select    *)
(* and on maxfd covering every requesting entry.                           *)
(***************************************************************************)
ReadyReported ==
  [][PollStep /\ result' > 0 =>
       \A e \in Entries :
         fd'[e] >= 0 =>
           /\ events'[e] \cap osReady'[fd'[e]] \subseteq revents'[e]
           /\ revents'[e] \subseteq osReady'[fd'[e]]]_vars

(***************************************************************************)
(* Spec section 8: a g_poll call that returns 0 (timed out) leaves the     *)
(* revents of every descriptor zero.                                       *)
(***************************************************************************)
TimeoutClearsResults ==
  [][PollStep /\ result' = 0 => \A e \in Entries : revents'[e] = {}]_vars

(***************************************************************************)
(* The g_poll documentation: a call returns the number of entries of fds   *)
(* whose revents fields were filled in.                                    *)
(***************************************************************************)
ResultCountsEntries ==
  [][PollStep /\ result' >= 0 =>
       result' = Cardinality({e \in Entries : revents'[e] # {}})]_vars
=============================================================================
