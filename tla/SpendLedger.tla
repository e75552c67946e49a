----------------------------- MODULE SpendLedger -----------------------------
(***************************************************************************)
(* What the server promises about spending, abstractly: every vtxo has at   *)
(* most one spender, chosen once and never changed, and the server only     *)
(* ever signs a spend that it has already recorded.                         *)
(***************************************************************************)
CONSTANTS
    Vtxos,
    Spenders,   \* arkoor transactions and rounds
    NULL

VARIABLES
    spentBy,    \* spentBy[v]: the recorded spender of v, or NULL
    signed      \* the <<vtxo, spender>> pairs the server has signed

ledgerVars == <<spentBy, signed>>

LedgerInit ==
    /\ spentBy = [v \in Vtxos |-> NULL]
    /\ signed = {}

(* Some unspent vtxos get a spender, all at once. *)
Record ==
    /\ spentBy' \in [Vtxos -> Spenders \cup {NULL}]
    /\ \A v \in Vtxos : spentBy[v] # NULL => spentBy'[v] = spentBy[v]
    /\ UNCHANGED signed

(* The server signs spends that are on record. *)
Sign ==
    /\ signed \subseteq signed'
    /\ \A s \in signed' \ signed :
          /\ s \in Vtxos \X Spenders
          /\ spentBy[s[1]] = s[2]
    /\ UNCHANGED spentBy

LedgerNext == Record \/ Sign

LedgerSpec == LedgerInit /\ [][LedgerNext]_ledgerVars
=============================================================================
