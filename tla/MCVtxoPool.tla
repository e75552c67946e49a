----------------------------- MODULE MCVtxoPool -----------------------------
(* Small instances of VtxoPool. *)
EXTENDS VtxoPool, TLC

CONSTANTS s1, s2, s3

V(i, e, a) == [id |-> <<0, a, i>>, expiry |-> e, amount |-> a, depth |-> 0]

(* Two expiries, unequal amounts: every branch of the selection is taken. *)
MCInitial == {V(1, 3, 1), V(2, 3, 3), V(3, 5, 2), V(4, 5, 3)}
MCRequired == (s1 :> 2) @@ (s2 :> 4) @@ (s3 :> 1)
MCTargets == (2 :> 1) @@ (3 :> 2)

(* One vtxo, and sends that each leave change of it. *)
MCOneInitial == {V(1, 3, 4)}
MCOneRequired == (s1 :> 1) @@ (s2 :> 1) @@ (s3 :> 1)
MCOneTargets == (4 :> 1)
=============================================================================
