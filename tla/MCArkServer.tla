----------------------------- MODULE MCArkServer -----------------------------
(***************************************************************************)
(* Small instances of ArkServer.                                            *)
(***************************************************************************)
EXTENDS ArkServer, TLC

CONSTANTS
    a, b,           \* boards
    c, d, e, f, g,  \* vtxos created by arkoors and rounds
    ta, tk, tc,     \* arkoor transactions
    p, q, o,        \* round participations
    r, k            \* arkoor requests, package and checkpointed

MCVtxos == {a, b, c, d, e, f, g}
MCTxOut == ta :> {g} @@ tk :> {c} @@ tc :> {d}

(* p refreshes a into e; q refreshes both boards into f; o offboards b. *)
MCInputs == p :> {a} @@ q :> {a, b} @@ o :> {b}
MCRoundOut == p :> {e} @@ q :> {f} @@ o :> {}

(* r spends a into g; k spends a over checkpoint c into d. *)
MCReqInputs == r :> {a} @@ k :> {a}
MCSpends ==
    r :> {[vtxo |-> a, txid |-> ta]}
    @@ k :> {[vtxo |-> a, txid |-> tk], [vtxo |-> c, txid |-> tc]}

(* The same without the checkpointed request. *)
PackageReqInputs == r :> {a}
PackageSpends == r :> {[vtxo |-> a, txid |-> ta]}
=============================================================================
