----------------------------- MODULE MCBindings -----------------------------
(* Small instances of Bindings for TLC: one or two key pairs, two threads.  *)
EXTENDS Bindings, TLC

CONSTANTS pair1, pair2, priv1, pub1, priv2, pub2, pqc, classical

OnePair == {pair1}
TwoPairs == {pair1, pair2}
OneHandles == {priv1, pub1}
TwoHandles == {priv1, pub1, priv2, pub2}
OnePriv == pair1 :> priv1
OnePub == pair1 :> pub1
TwoPrivs == pair1 :> priv1 @@ pair2 :> priv2
TwoPubs == pair1 :> pub1 @@ pair2 :> pub2

Algs == {pqc, classical}
PqcOnly == {pqc}

(* Which halves a Go program calls Free on. *)
FreesNone == {}
FreesAll == {priv1, pub1, priv2, pub2}
=============================================================================
