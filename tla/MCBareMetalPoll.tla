-------------------------- MODULE MCBareMetalPoll --------------------------
(***************************************************************************)
(* Model-checking instance of BareMetalPoll: two wakeups, two signalling   *)
(* threads, every kind of timeout (-1, 0, positive, below -1).             *)
(***************************************************************************)
EXTENDS BareMetalPoll

CONSTANTS w1, w2, s1, s2, t1, t2

MCWakeups == {w1, w2}
MCSignallers == {s1, s2}
\* Two distinct stack addresses for the GPollOperation of a call.
MCTokens == {t1, t2}
\* One stack address only: every call reuses the same frame.
MCOneToken == {t1}
MCTimeouts == {-2, -1, 0, 1}

=============================================================================
