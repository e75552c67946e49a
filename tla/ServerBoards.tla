----------------------------- MODULE ServerBoards ----------------------------
(***************************************************************************)
(* Boards on the server (server/src/lib.rs, database/query.rs): cosigning, *)
(* registering once the funding transaction is confirmed, and the board    *)
(* table the sweeper works from.  The chain may lose its last MaxReorg     *)
(* blocks at any time; clients repeat their calls.                         *)
(***************************************************************************)
EXTENDS Naturals, FiniteSets

CONSTANTS
    Boards,         \* board vtxos
    BoardAmount,    \* their amounts
    BoardExpiry,    \* their expiry heights
    BoardCallers,   \* calls of register_board
    MinBoardAmount, MaxVtxoAmount, RequiredBoardConfirmations,
    MaxReorg,       \* blocks a reorganisation replaces
    MaxBoardHeight  \* bound: height of the chain

ASSUME BoardAssumption ==
    /\ BoardAmount \in [Boards -> Nat] /\ BoardExpiry \in [Boards -> Nat]
    /\ RequiredBoardConfirmations \in Nat /\ MaxBoardHeight \in Nat \ {0}
    /\ MaxReorg \in Nat /\ MaxReorg < RequiredBoardConfirmations
    /\ "none" \notin Boards

VARIABLES
    boardTip,   \* height of the node's chain
    deepest,    \* the greatest height the chain ever had
    minedAt,    \* minedAt[b]: height of the funding transaction's block, 0 for none
    cosigned,   \* boards the server signed
    registering,\* registering[c]: the board whose confirmations c has checked
    boardRows,  \* table board: registered, or swept_at set
    vtxoRows,   \* table vtxo: known, or with a spend
    listed      \* boards the sweeper works on

boardVars == <<boardTip, deepest, minedAt, cosigned, registering, boardRows, vtxoRows, listed>>

NoBoard == "none"

BoardTypeOK ==
    /\ boardTip \in 1..MaxBoardHeight /\ deepest \in boardTip..MaxBoardHeight
    /\ minedAt \in [Boards -> 0..boardTip]
    /\ cosigned \subseteq Boards /\ listed \subseteq Boards
    /\ registering \in [BoardCallers -> Boards \cup {NoBoard}]
    /\ boardRows \in [Boards -> {"absent", "registered", "swept"}]
    /\ vtxoRows \in [Boards -> {"absent", "unspent", "spent"}]

BoardInit ==
    /\ boardTip = 1 /\ deepest = 1
    /\ minedAt = [b \in Boards |-> 0]
    /\ cosigned = {} /\ listed = {}
    /\ registering = [c \in BoardCallers |-> NoBoard]
    /\ boardRows = [b \in Boards |-> "absent"]
    /\ vtxoRows = [b \in Boards |-> "absent"]

-----------------------------------------------------------------------------
(* cosign_board: the amount is in range and the expiry is not behind the tip. *)
CosignBoard(b) ==
    /\ BoardAmount[b] >= MinBoardAmount /\ BoardAmount[b] <= MaxVtxoAmount
    /\ BoardExpiry[b] >= boardTip
    /\ cosigned' = cosigned \cup {b}
    /\ UNCHANGED <<boardTip, deepest, minedAt, registering, boardRows, vtxoRows, listed>>

ConfirmationsEnoughOff(b) ==
    minedAt[b] > 0 /\ boardTip - minedAt[b] + 1 >= RequiredBoardConfirmations - 1

(* The check of register_board: the node knows the transaction, with enough *)
(* confirmations.                                                            *)
ConfirmationsEnough(b) ==
    minedAt[b] > 0 /\ boardTip - minedAt[b] + 1 >= RequiredBoardConfirmations

CheckConfirmations(c, b) ==
    /\ registering[c] = NoBoard
    /\ ConfirmationsEnough(b)
    /\ registering' = [registering EXCEPT ![c] = b]
    /\ UNCHANGED <<boardTip, deepest, minedAt, cosigned, boardRows, vtxoRows, listed>>

UpsertedBoardAgain(b) == [boardRows EXCEPT ![b] = "registered"]

(* upsert_board: INSERT ... ON CONFLICT DO NOTHING. *)
UpsertedBoard(b) == [boardRows EXCEPT ![b] = IF @ = "absent" THEN "registered" ELSE @]

(* The transaction of register_board: upsert_vtxos and upsert_board. *)
UpsertBoard(c) ==
    /\ registering[c] # NoBoard
    /\ LET b == registering[c] IN
           /\ vtxoRows' = [vtxoRows EXCEPT ![b] = IF @ = "absent" THEN "unspent" ELSE @]
           /\ boardRows' = UpsertedBoard(b)
    /\ registering' = [registering EXCEPT ![c] = NoBoard]
    /\ UNCHANGED <<boardTip, deepest, minedAt, cosigned, listed>>

(* A spend of the board vtxo is recorded (VtxoTable). *)
SpendBoard(b) ==
    /\ vtxoRows[b] = "unspent"
    /\ vtxoRows' = [vtxoRows EXCEPT ![b] = "spent"]
    /\ UNCHANGED <<boardTip, deepest, minedAt, cosigned, registering, boardRows, listed>>

(* get_sweepable_boards; the column exited_at is never written. *)
ListSweepable ==
    /\ listed' = {b \in Boards : boardRows[b] = "registered" /\ BoardExpiry[b] <= boardTip}
    /\ UNCHANGED <<boardTip, deepest, minedAt, cosigned, registering, boardRows, vtxoRows>>

(* mark_board_swept, for a listed board. *)
MarkBoardSwept(b) ==
    /\ b \in listed
    /\ boardRows' = [boardRows EXCEPT ![b] = "swept"]
    /\ listed' = listed \ {b}
    /\ UNCHANGED <<boardTip, deepest, minedAt, cosigned, registering, vtxoRows>>

-----------------------------------------------------------------------------
(* The chain: a block with some of the cosigned boards' transactions, or    *)
(* the loss of blocks that are not MaxReorg deep.                           *)
BoardBlock ==
    /\ boardTip < MaxBoardHeight
    /\ boardTip' = boardTip + 1
    /\ deepest' = IF boardTip' > deepest THEN boardTip' ELSE deepest
    /\ \E S \in SUBSET {b \in cosigned : minedAt[b] = 0} :
           minedAt' = [b \in Boards |-> IF b \in S THEN boardTip' ELSE minedAt[b]]
    /\ UNCHANGED <<cosigned, registering, boardRows, vtxoRows, listed>>

BoardReorg ==
    /\ boardTip > 1
    /\ boardTip' = boardTip - 1
    /\ boardTip' + MaxReorg >= deepest
    /\ minedAt' = [b \in Boards |-> IF minedAt[b] = boardTip THEN 0 ELSE minedAt[b]]
    /\ UNCHANGED <<deepest, cosigned, registering, boardRows, vtxoRows, listed>>

(* The server stops: its calls end, its tables stay. *)
BoardRestart ==
    /\ listed # {} \/ \E c \in BoardCallers : registering[c] # NoBoard
    /\ registering' = [c \in BoardCallers |-> NoBoard] /\ listed' = {}
    /\ UNCHANGED <<boardTip, deepest, minedAt, cosigned, boardRows, vtxoRows>>

BoardNext ==
    \/ \E b \in Boards : CosignBoard(b) \/ SpendBoard(b) \/ MarkBoardSwept(b)
    \/ \E c \in BoardCallers : UpsertBoard(c) \/ \E b \in Boards : CheckConfirmations(c, b)
    \/ ListSweepable \/ BoardBlock \/ BoardReorg \/ BoardRestart

BoardSpec == BoardInit /\ [][BoardNext]_boardVars

-----------------------------------------------------------------------------
(* The funding transaction of a registered board stays in the chain, though *)
(* register_board checks it a step before it writes and the chain may lose  *)
(* blocks in between: the required confirmations exceed MaxReorg.           *)
BoardsFunded == BoardTypeOK /\ \A b \in Boards : boardRows[b] # "absent" => minedAt[b] > 0

(* Registering a board again never takes back that it was swept or spent,  *)
(* and a board never has a row without its vtxo having one.                *)
RegistrationKeeps ==
    [][\A b \in Boards :
           /\ boardRows[b] = "swept" => boardRows'[b] = "swept"
           /\ vtxoRows[b] = "spent" => vtxoRows'[b] = "spent"
           /\ boardRows'[b] # "absent" => vtxoRows'[b] # "absent"]_boardVars
=============================================================================
