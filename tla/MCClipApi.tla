----------------------------- MODULE MCClipApi -----------------------------
(* Two requests and three windows, all of which overlap.  With two         *)
(* boundaries per second the first two windows get the same name.          *)
EXTENDS ClipApi

CONSTANTS r1, r2

MCRequests == {r1, r2}
MCWindows == {<<2, 2>>, <<2, 3>>, <<1, 3>>}
=============================================================================
