----------------------------- MODULE MCWin32Poll -----------------------------
(***************************************************************************)
(* A small instance of Win32Poll with MAXIMUM_WAIT_OBJECTS = 3, so that a  *)
(* worker holds two entries beside the stop event and arrays of four       *)
(* entries fan out to two workers; an array of five entries needs three    *)
(* and is cut to two.  Two event handles, the message entry and an         *)
(* ignored entry (fd <= 0).                                                *)
(***************************************************************************)
EXTENDS Win32Poll

CONSTANTS h1, h2, MSG, NONE

MCHandles == {h1, h2}
\* Short arrays for the caller's own poll: one handle, messages only, no
\* object at all, handles around the message entry.
MCSingleArrays == {<<h1>>, <<MSG>>, <<NONE>>, <<h2, MSG, h1>>}
\* Long arrays, split over two workers; the message entry in either part.
MCFanOutArrays == {<<h1, MSG, h2, h1>>, <<h2, NONE, h1, MSG>>}
MCArrays == MCSingleArrays \cup MCFanOutArrays
\* For the liveness run: handles beside the message entry, in one part or
\* in two.
MCLiveArrays == {<<h2, MSG, h1>>} \cup MCFanOutArrays
\* Arrays beyond two workers: the fifth entry falls outside the cap.
MCCappedArrays == {<<h1, h2, NONE, h1, h2>>}
MCTimeouts == {-1, 0, 1}
\* For the liveness run: a finite timeout always ends a wait, so only an
\* infinite one and the non-blocking poll are of interest.
MCLiveTimeouts == {-1, 0}
=============================================================================
