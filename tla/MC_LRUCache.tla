---------------------------- MODULE MC_LRUCache ----------------------------
(* Instances of LRUCache for TLC. *)
EXTENDS LRUCache

CONSTANTS k1, k2, k3, k4, h0, h2, h3

\* Four keys: the first hashes to the value resize pads the tracker with, the
\* last two collide.
FourKeys == {k1, k2, k3, k4}
PaddingAndCollidingHash == (k1 :> h0) @@ (k2 :> h2) @@ (k3 :> h3) @@ (k4 :> h3)
=============================================================================
