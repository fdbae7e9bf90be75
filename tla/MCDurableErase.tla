--------------------------- MODULE MCDurableErase ---------------------------
(* Small instances of DurableErase for TLC: two handles, so that two calls  *)
(* can overlap and two owners can share one key.                           *)
EXTENDS DurableErase, TLC

CONSTANTS h1, h2, pathA, pathB, pqc, classical

Handles == {h1, h2}
PqcOnly == {pqc}
Algorithms == {pqc, classical}

(* One marker path per handle, or one for both. *)
Apart == h1 :> pathA @@ h2 :> pathB
Together == h1 :> pathA @@ h2 :> pathA

BothPaths == {pathA, pathB}
OnePath == {pathA}
NoPath == {}
=============================================================================
