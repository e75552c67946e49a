---------------------------- MODULE WalletVtxos ----------------------------
(***************************************************************************)
(* The wallet's vtxo table (bark/src/vtxo/, bark/src/persist/sqlite/): the *)
(* most recent state of every vtxo, and the calls that change it.  A table *)
(* is a function from vtxos to states; a call yields the new table and     *)
(* whether it returned Ok.                                                  *)
(***************************************************************************)
EXTENDS FiniteSets

(* VtxoStateKind, and "absent" for a vtxo without a row *)
VtxoStates == {"absent", "spendable", "locked", "spent"}

(* UNSPENT_STATES *)
UnspentStates == {"spendable", "locked"}

(* The table with a new state of v, and an error when v has another state   *)
(* than the allowed ones                                                    *)
UpdateVtxoStateChecked(tab, v, state, allowed) ==
    [tab |-> IF tab[v] \in allowed THEN [tab EXCEPT ![v] = state] ELSE tab,
     ok  |-> tab[v] \in allowed]

(* update_vtxo_state_checked for every vtxo: a vtxo in another state is     *)
(* reported as problematic and the others are updated all the same.         *)
SetVtxoStates(tab, vs, state, allowed) ==
    [tab |-> [v \in DOMAIN tab |-> IF v \in vs /\ tab[v] \in allowed THEN state ELSE tab[v]],
     ok  |-> \A v \in vs : tab[v] \in allowed]

LockVtxos(tab, vs) == SetVtxoStates(tab, vs, "locked", UnspentStates)

MarkVtxosAsSpent(tab, vs) == SetVtxoStates(tab, vs, "spent", UnspentStates)

UnlockVtxos(tab, vs) == SetVtxoStates(tab, vs, "spendable", {"locked"})

(* store_vtxos: one transaction that inserts the vtxos and their first      *)
(* state; a row that exists already makes it fail as a whole.               *)
StoreVtxos(tab, vs, state) ==
    IF \A v \in vs : tab[v] = "absent"
      THEN [tab |-> [v \in DOMAIN tab |-> IF v \in vs THEN state ELSE tab[v]], ok |-> TRUE]
      ELSE [tab |-> tab, ok |-> FALSE]

(* get_vtxos_by_state *)
VtxosByState(tab, states) == {v \in DOMAIN tab : tab[v] \in states}
=============================================================================
