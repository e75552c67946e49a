------------------------------ MODULE VtxoTable ------------------------------
(***************************************************************************)
(* The server's vtxo and round tables (server/src/database): every           *)
(* operation below is one Postgres transaction, so it is one step; its       *)
(* "Can" operator is the condition under which it commits.                   *)
(*                                                                          *)
(* A spend is a record [vtxo, txid]: the vtxo and the arkoor transaction     *)
(* that spends it.  A round is named by its sequence number.                 *)
(***************************************************************************)
EXTENDS Naturals

CONSTANTS
    Vtxos,
    Txids,
    NULL

ASSUME NullAssumption == NULL \notin Nat /\ NULL \notin Txids
ASSUME TxidsAssumption == Txids \cap Nat = {}

VARIABLES
    known,      \* vtxos with a row in table vtxo
    oor,        \* oor[v]: column oor_spent_txid
    forfeit,    \* forfeit[v]: column forfeit_round_id (with forfeit_state)
    rounds      \* sequence numbers of the rows of table round

tableVars == <<known, oor, forfeit, rounds>>

Spend == [vtxo : Vtxos, txid : Txids]

TableTypeOK ==
    /\ known \subseteq Vtxos
    /\ oor \in [Vtxos -> Txids \cup {NULL}]
    /\ forfeit \in [Vtxos -> Nat \cup {NULL}]
    /\ rounds \subseteq Nat

TableInit ==
    /\ known = {}
    /\ oor = [v \in Vtxos |-> NULL]
    /\ forfeit = [v \in Vtxos |-> NULL]
    /\ rounds = {}

-----------------------------------------------------------------------------

(* VtxoState::is_spendable *)
IsSpendable(v) == oor[v] = NULL /\ forfeit[v] = NULL

(* get_vtxos_by_id bails unless every id has a row. *)
Found(S) == S \subseteq known

(* upsert_vtxos: INSERT ... ON CONFLICT DO NOTHING. *)
UpsertVtxos(new) == known' = known \cup new

(* The oor_spent_txid column after the given spends. *)
OorAfter(spends) ==
    [v \in Vtxos |-> IF \E s \in spends : s.vtxo = v
                       THEN (CHOOSE s \in spends : s.vtxo = v).txid
                       ELSE oor[v]]

(* check_set_vtxo_oor_spent_package: every UPDATE must hit an unspent row,  *)
(* otherwise the transaction is dropped.                                    *)
CanSetOorSpent(spends) ==
    \A s \in spends : s.vtxo \in known /\ IsSpendable(s.vtxo)

CheckSetVtxoOorSpentPackage(spends, new) ==
    /\ CanSetOorSpent(spends)
    /\ oor' = OorAfter(spends)
    /\ UpsertVtxos(new)
    /\ UNCHANGED <<forfeit, rounds>>

(* Faulty variants of mark_package_spent: any recorded txid is accepted, or *)
(* none is.                                                                 *)
CanMarkSpendsAny(spends, new) == \A s \in spends : s.vtxo \in known \cup new

CanMarkSpendsOnce(spends, new) ==
    \A s \in spends : s.vtxo \in known \cup new /\ IsSpendable(s.vtxo)

(* mark_package_spent accepts a row that already has this very txid. *)
CanMarkSpends(spends, new) ==
    \A s \in spends :
        /\ s.vtxo \in known \cup new
        /\ IsSpendable(s.vtxo) \/ oor[s.vtxo] = s.txid

(* upsert_vtxos_and_mark_spends: the new vtxos first, because the spends    *)
(* may be of vtxos created here (the checkpoints).                          *)
UpsertVtxosAndMarkSpends(new, spends) ==
    /\ CanMarkSpends(spends, new)
    /\ UpsertVtxos(new)
    /\ oor' = OorAfter(spends)
    /\ UNCHANGED <<forfeit, rounds>>

(* Faulty variant of finish_round: only the existence of a row is checked. *)
CanFinishRoundKnown(inputs) == Found(inputs)

(* finish_round bails when one of the inputs is no longer spendable. *)
CanFinishRound(inputs) == \A v \in inputs : v \in known /\ IsSpendable(v)

FinishRound(seq, inputs, new) ==
    /\ CanFinishRound(inputs)
    /\ rounds' = rounds \cup {seq}
    /\ forfeit' = [v \in Vtxos |-> IF v \in inputs THEN seq ELSE forfeit[v]]
    /\ UpsertVtxos(new)
    /\ UNCHANGED oor
=============================================================================
