----------------------------- MODULE MCUnixWakeup -----------------------------
(***************************************************************************)
(* A small instance of UnixWakeup: two wakeups, each an eventfd or a pipe. *)
(* The pipe holds 18 bytes, and 19 signals fill it, so that one write      *)
(* meets EAGAIN and the acknowledge loop needs two full reads of 16 bytes  *)
(* and a third; the eventfd counter is cut to 3.                           *)
(***************************************************************************)
EXTENDS UnixWakeup

CONSTANTS w1, w2

MCWakeups == {w1, w2}
MCTimeouts == {-1, 0}
=============================================================================
