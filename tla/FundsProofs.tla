----------------------------- MODULE FundsProofs -----------------------------
(***************************************************************************)
(* What TLAPS proves about the server's own funds: boards, the sweeper,    *)
(* integration tokens and the wallet, and that ServerFundsSound holds.     *)
(***************************************************************************)
EXTENDS Sweeper, IntegrationTokens, ServerWallet, ServerBoards, FiniteSetTheorems, WellFoundedInduction, TLAPS

(***************************************************************************)
(* ServerBoards, for any boards and callers, any number of required        *)
(* confirmations and any chain that loses fewer blocks.                    *)
(***************************************************************************)
(* No reorganisation that is still possible removes the block of b's       *)
(* funding transaction.                                                    *)
Buried(b) ==
    /\ minedAt[b] > 0
    /\ minedAt[b] + RequiredBoardConfirmations <= deepest + 1

(* The chain: its tip is no further below the deepest one than MaxReorg. *)
Chain ==
    /\ boardTip \in Nat /\ deepest \in Nat
    /\ 1 <= boardTip /\ boardTip <= deepest /\ deepest <= boardTip + MaxReorg
    /\ minedAt \in [Boards -> Nat]
    /\ \A b \in Boards : minedAt[b] <= boardTip

(* The tables, and the calls that have passed the check. *)
Tables ==
    /\ registering \in [BoardCallers -> Boards \cup {NoBoard}]
    /\ boardRows \in [Boards -> {"absent", "registered", "swept"}]
    /\ vtxoRows \in [Boards -> {"absent", "unspent", "spent"}]
    /\ listed \subseteq Boards
    /\ \A b \in listed : boardRows[b] # "absent"

CallsBuried == \A c \in BoardCallers : registering[c] # NoBoard => Buried(registering[c])
RowsBuried == \A b \in Boards : boardRows[b] # "absent" => Buried(b)
RowsHaveVtxos == \A b \in Boards : boardRows[b] # "absent" => vtxoRows[b] # "absent"

BoardInv == Chain /\ Tables /\ CallsBuried /\ RowsBuried /\ RowsHaveVtxos

LEMMA BoardInitInv == BoardInit => BoardInv
  BY BoardAssumption DEF BoardInit, BoardInv, Chain, Tables, CallsBuried, RowsBuried, RowsHaveVtxos,
         NoBoard

(* A funding transaction that is buried stays so while the chain moves. *)
LEMMA BuriedStays ==
    ASSUME BoardInv, BoardBlock \/ BoardReorg, NEW b \in Boards, Buried(b)
    PROVE  Buried(b)' /\ minedAt'[b] = minedAt[b]
  <1>1. CASE BoardBlock
    <2>1. deepest' \in Nat /\ deepest' >= deepest /\ minedAt'[b] = minedAt[b]
      BY <1>1 DEF BoardBlock, BoardInv, Chain, Buried
    <2> QED
      BY <2>1, BoardAssumption DEF Buried, BoardInv, Chain
  <1>2. CASE BoardReorg
    <2>1. minedAt[b] # boardTip
      BY <1>2, BoardAssumption DEF BoardReorg, Buried, BoardInv, Chain
    <2> QED
      BY <1>2, <2>1 DEF BoardReorg, Buried, BoardInv, Chain
  <1> QED
    BY <1>1, <1>2

LEMMA ChainStep ==
    ASSUME BoardInv, BoardBlock \/ BoardReorg
    PROVE  Chain'
  <1>1. CASE BoardBlock
    BY <1>1, BoardAssumption DEF BoardBlock, BoardInv, Chain
  <1>2. CASE BoardReorg
    BY <1>2, BoardAssumption DEF BoardReorg, BoardInv, Chain
  <1> QED
    BY <1>1, <1>2

LEMMA BoardStep == BoardInv /\ [BoardNext]_boardVars => BoardInv'
  <1> SUFFICES ASSUME BoardInv, [BoardNext]_boardVars PROVE BoardInv'
    OBVIOUS
  <1> USE DEF BoardInv
  <1>1. ASSUME NEW b \in Boards, CosignBoard(b) PROVE BoardInv'
    BY <1>1 DEF CosignBoard, Chain, Tables, CallsBuried, RowsBuried, RowsHaveVtxos, Buried
  <1>2. ASSUME NEW b \in Boards, SpendBoard(b) PROVE BoardInv'
    BY <1>2 DEF SpendBoard, Chain, Tables, CallsBuried, RowsBuried, RowsHaveVtxos, Buried
  <1>3. ASSUME NEW b \in Boards, MarkBoardSwept(b) PROVE BoardInv'
    BY <1>3 DEF MarkBoardSwept, Chain, Tables, CallsBuried, RowsBuried, RowsHaveVtxos, Buried
  <1>4. ASSUME NEW c \in BoardCallers, UpsertBoard(c) PROVE BoardInv'
    <2>1. registering[c] \in Boards /\ Buried(registering[c])
      BY <1>4 DEF UpsertBoard, Tables, CallsBuried
    <2>2. UNCHANGED <<boardTip, deepest, minedAt, cosigned, listed>>
      BY <1>4 DEF UpsertBoard
    <2>3. \A b \in Boards : Buried(b)' <=> Buried(b)
      BY <2>2 DEF Buried
    <2>4. /\ registering' = [registering EXCEPT ![c] = NoBoard]
          /\ boardRows' = [boardRows EXCEPT ![registering[c]] = IF @ = "absent" THEN "registered" ELSE @]
          /\ vtxoRows' = [vtxoRows EXCEPT ![registering[c]] = IF @ = "absent" THEN "unspent" ELSE @]
      BY <1>4 DEF UpsertBoard, UpsertedBoard
    <2>5. Tables'
      BY <2>1, <2>2, <2>4 DEF Tables
    <2>6. CallsBuried'
      BY <2>2, <2>4 DEF CallsBuried, Tables, Buried
    <2>7. RowsBuried'
      BY <2>1, <2>3, <2>4 DEF RowsBuried, Tables
    <2>8. RowsHaveVtxos'
      BY <2>1, <2>4, Zenon DEF RowsHaveVtxos, Tables
    <2> QED
      BY <2>2, <2>5, <2>6, <2>7, <2>8 DEF Chain
  <1>5. ASSUME NEW c \in BoardCallers, NEW b \in Boards, CheckConfirmations(c, b) PROVE BoardInv'
    <2>1. Buried(b)
      BY <1>5, BoardAssumption, SMTT(60) DEF CheckConfirmations, ConfirmationsEnough, Buried, Chain
    <2> QED
      BY <1>5, <2>1, Zenon DEF CheckConfirmations, Chain, Tables, CallsBuried, RowsBuried,
             RowsHaveVtxos, Buried
  <1>6. CASE ListSweepable
    BY <1>6, Zenon DEF ListSweepable, Chain, Tables, CallsBuried, RowsBuried, RowsHaveVtxos, Buried
  <1>7. CASE BoardBlock \/ BoardReorg
    <2>1. UNCHANGED <<cosigned, registering, boardRows, vtxoRows, listed>>
      BY <1>7 DEF BoardBlock, BoardReorg
    <2>2. \A b \in Boards : Buried(b) => Buried(b)'
      BY <1>7, BuriedStays
    <2>3. CallsBuried'
      BY <2>1, <2>2, Zenon DEF CallsBuried, Tables, Buried
    <2> QED
      BY <1>7, <2>1, <2>2, <2>3, ChainStep DEF Tables, RowsBuried, RowsHaveVtxos
  <1>8. CASE BoardRestart
    BY <1>8, Zenon DEF BoardRestart, Chain, Tables, CallsBuried, RowsBuried, RowsHaveVtxos, Buried
  <1>9. CASE UNCHANGED boardVars
    BY <1>9 DEF boardVars, Chain, Tables, CallsBuried, RowsBuried, RowsHaveVtxos, Buried
  <1> QED
    BY <1>1, <1>2, <1>3, <1>4, <1>5, <1>6, <1>7, <1>8, <1>9 DEF BoardNext

LEMMA BoardInvAlways == BoardSpec => []BoardInv
  BY BoardInitInv, BoardStep, PTL DEF BoardSpec

BoardBounds == boardTip \in 1..MaxBoardHeight /\ deepest \in 1..MaxBoardHeight /\ cosigned \subseteq Boards

LEMMA BoardBoundsAlways == BoardSpec => []BoardBounds
  <1>1. BoardInit => BoardBounds
    BY BoardAssumption DEF BoardInit, BoardBounds
  <1>2. BoardBounds /\ [BoardNext]_boardVars => BoardBounds'
    BY BoardAssumption DEF BoardBounds, boardVars, BoardNext, CosignBoard, SpendBoard, MarkBoardSwept,
       UpsertBoard, CheckConfirmations, ListSweepable, BoardBlock, BoardReorg, BoardRestart
  <1> QED
    BY <1>1, <1>2, PTL DEF BoardSpec

LEMMA BoardTypes == BoardInv /\ BoardBounds => BoardTypeOK
  <1> SUFFICES ASSUME BoardInv, BoardBounds PROVE BoardTypeOK
    OBVIOUS
  <1>1. minedAt \in [Boards -> 0..boardTip]
    BY DEF BoardInv, Chain
  <1> QED
    BY <1>1 DEF BoardInv, BoardBounds, BoardTypeOK, Chain, Tables

(* The funding transaction of a registered board stays in the chain: one   *)
(* step of register_board checks it, a later one writes the rows, and the   *)
(* chain loses blocks at any time, but fewer than the required              *)
(* confirmations.                                                           *)
THEOREM BoardsFundedAlways == BoardSpec => []BoardsFunded
  <1>1. BoardInv /\ BoardTypeOK => BoardsFunded
    BY DEF BoardInv, RowsBuried, Buried, BoardsFunded
  <1> QED
    BY <1>1, BoardTypes, BoardInvAlways, BoardBoundsAlways, PTL

(* A repeated registration keeps what the sweeper and the spends recorded. *)
THEOREM RegistrationKeepsAlways == BoardSpec => RegistrationKeeps
  <1> DEFINE Kept(b) ==
          /\ boardRows[b] = "swept" => boardRows'[b] = "swept"
          /\ vtxoRows[b] = "spent" => vtxoRows'[b] = "spent"
          /\ boardRows'[b] # "absent" => vtxoRows'[b] # "absent"
  <1>1. BoardInv /\ BoardInv' /\ [BoardNext]_boardVars => [\A b \in Boards : Kept(b)]_boardVars
    <2> SUFFICES ASSUME BoardInv, BoardInv', BoardNext, NEW b \in Boards
                 PROVE  Kept(b)
      OBVIOUS
    <2>1. boardRows'[b] # "absent" => vtxoRows'[b] # "absent"
      BY Zenon DEF BoardInv, RowsHaveVtxos
    <2>2. ASSUME NEW c \in BoardCallers, UpsertBoard(c) PROVE Kept(b)
      BY <2>1, <2>2, SMTT(60) DEF UpsertBoard, UpsertedBoard, BoardInv, Tables
    <2>3. ASSUME NEW x \in Boards, CosignBoard(x) \/ SpendBoard(x) \/ MarkBoardSwept(x) PROVE Kept(b)
      BY <2>1, <2>3, Zenon DEF CosignBoard, SpendBoard, MarkBoardSwept, BoardInv, Tables
    <2>4. ASSUME \/ ListSweepable \/ BoardBlock \/ BoardReorg \/ BoardRestart
                 \/ \E c \in BoardCallers, x \in Boards : CheckConfirmations(c, x)
          PROVE  Kept(b)
      BY <2>1, <2>4 DEF ListSweepable, BoardBlock, BoardReorg, BoardRestart, CheckConfirmations
    <2> QED
      BY <2>2, <2>3, <2>4, Zenon DEF BoardNext
  <1> QED
    BY <1>1, BoardInvAlways, PTL DEF BoardSpec, RegistrationKeeps

(***************************************************************************)
(* Sweeper, for any rounds and boards whose points are distinct, whatever  *)
(* others put on the chain.                                                *)
(***************************************************************************)
(* The records of the process and of the chain. *)
IsBuild(b) ==
    /\ b = [pc |-> b.pc, i |-> b.i, tip |-> b.tip, sweeps |-> b.sweeps, boards |-> b.boards, tx |-> b.tx]
    /\ b.pc \in {"idle", "rounds", "boards", "broadcast", "clear"}
    /\ b.i \in Nat /\ (b.pc \in {"rounds", "boards"} => b.i > 0)
    /\ b.tip \in Nat

IsChain ==
    /\ blocks = [height |-> blocks.height, mined |-> blocks.mined, sweeps |-> blocks.sweeps,
                 sent |-> blocks.sent, crashed |-> blocks.crashed]
    /\ blocks.height \in 0 .. LastHeight
    /\ blocks.mined \in [OtherTxs -> Nat]
    /\ \A m \in blocks.sweeps : m[2] \in Nat

IsStore ==
    /\ pending = [txs |-> pending.txs, utxo |-> pending.utxo]
    /\ stored = [sweeps |-> stored.sweeps, confirmed |-> stored.confirmed, abandoned |-> stored.abandoned,
                 rounds |-> stored.rounds, boards |-> stored.boards]
    /\ stored.rounds \subseteq Range(SweepRounds) /\ stored.boards \subseteq Range(SweepBoards)

(* The pending sweeps and the index of their points. *)
Watches ==
    /\ pending.txs \subseteq stored.sweeps
    /\ blocks.sent \subseteq stored.sweeps
    /\ build.pc = "broadcast" => build.tx \in stored.sweeps
    /\ \A e \in pending.utxo : e[2] \in pending.txs /\ e[1] \in e[2].ins
    /\ SweepsWatched

(* Points that a sweep at this tip may take: connectors of a round whose    *)
(* tree output was swept deeply or replaced by its tree.                    *)
Covered(ins, tip) ==
    \A r \in Range(SweepRounds) :
        ins \cap ConnectorPoints(r) # {} /\ ~IsMined(r.tree[1]) =>
            \E m \in SweptBy(r.root) : m[2] <= tip - SweepDeep + 1

Ordered ==
    /\ \A s \in stored.sweeps : Covered(s.ins, s.tip)
    /\ Covered(build.sweeps \cup build.boards, build.tip)

SweepInv == IsBuild(build) /\ IsChain /\ IsStore /\ Watches /\ Ordered /\ SweptIsSpent

-----------------------------------------------------------------------------
LEMMA LeastHeight ==
    ASSUME NEW H, H \subseteq Nat, H # {}
    PROVE  Min(H) \in H
  <1>1. PICK n \in H : \A m \in H : ~(<<m, n>> \in OpToRel(<, Nat))
    BY WFMin, NatLessThanWellFounded, Zenon
  <1>2. \A m \in H : m < n => <<m, n>> \in OpToRel(<, Nat)
    BY DEF OpToRel
  <1>3. \A m \in H : n <= m
    <2>1. \A m \in H : ~(m < n)
      BY <1>1, <1>2, Zenon
    <2> QED
      BY <2>1
  <1> QED
    BY <1>3, Zenon DEF Min

(* A point that is_swept reports is an input of a confirmed sweep. *)
LEMMA SweptHeight ==
    ASSUME IsChain, NEW p, IsSwept(p) >= 0
    PROVE  \E m \in SweptBy(p) : m[2] = IsSwept(p)
  <1> DEFINE hs == {m[2] : m \in {n \in SweptBy(p) : <<p, n[1]>> \in pending.utxo}}
  <1>1. IsSwept(p) = IF hs = {} THEN -1 ELSE Min(hs)
    BY DEF IsSwept
  <1>2. hs # {}
    <2> HIDE DEF hs
    <2> QED
      BY <1>1
  <1>3. hs \subseteq Nat
    BY Zenon DEF IsChain, SweptBy
  <1>4. Min(hs) \in hs
    BY <1>2, <1>3, LeastHeight, Zenon
  <1>5. IsSwept(p) \in hs
    BY <1>1, <1>2, <1>4, Zenon
  <1> QED
    BY <1>5, Zenon

LEMMA TreeTop ==
    ASSUME NEW r \in Range(SweepRounds)
    PROVE  r.tree[1] \in Range(r.tree) /\ r.tree[1] \in OtherTxs /\ r.tree[1].spends = r.root
  <1>1. r.tree[1] \in Range(r.tree)
    BY PointsAssumption
  <1>2. r.tree[1] \in OtherTxs
    BY <1>1, Zenon DEF OtherTxs
  <1> QED
    BY <1>1, <1>2, PointsAssumption, Zenon

LEMMA BoardExit ==
    ASSUME NEW b \in Range(SweepBoards)
    PROVE  b.exit \in OtherTxs /\ b.exit.spends = b.anchor
  <1>1. b.exit \in {c.exit : c \in Range(SweepBoards)}
    BY Zenon
  <1>2. b.exit \in OtherTxs
    BY <1>1, Zenon DEF OtherTxs
  <1> QED
    BY <1>2, PointsAssumption, Zenon

-----------------------------------------------------------------------------
(* What is spent or mined stays so. *)
ChainGrows ==
    /\ \A t \in OtherTxs : IsMined(t) => IsMined(t)'
    /\ blocks.sweeps \subseteq blocks'.sweeps

LEMMA CoveredStays ==
    ASSUME ChainGrows, NEW ins, NEW tip, Covered(ins, tip)
    PROVE  Covered(ins, tip)'
  <1>1. ASSUME NEW r \in Range(SweepRounds) PROVE r.tree[1] \in OtherTxs
    BY TreeTop, Zenon
  <1> QED
    BY <1>1, Zenon DEF Covered, ChainGrows, SweptBy

LEMMA SpentStays ==
    ASSUME ChainGrows, NEW p, Spent(p)
    PROVE  Spent(p)'
  BY Zenon DEF ChainGrows, Spent, SweptBy

LEMMA MineStep ==
    ASSUME IsChain, Mine
    PROVE  IsChain' /\ ChainGrows /\ blocks'.sent = blocks.sent /\ UNCHANGED <<pending, build, stored>>
  <1>1. ASSUME NEW t \in OtherTxs, MineOther(t)
        PROVE  IsChain' /\ ChainGrows /\ blocks'.sent = blocks.sent
    <2> DEFINE mined == [blocks.mined EXCEPT ![t] = blocks.height + 1]
    <2>1. blocks' = [height |-> blocks.height + 1, mined |-> mined, sweeps |-> blocks.sweeps,
                     sent |-> blocks.sent, crashed |-> blocks.crashed]
      BY <1>1, Zenon DEF MineOther, IsChain
    <2>2. mined \in [OtherTxs -> Nat] /\ \A u \in OtherTxs : blocks.mined[u] > 0 => mined[u] > 0
      BY <1>1 DEF MineOther, IsChain
    <2>3. blocks.height + 1 \in 0 .. LastHeight
      BY <1>1, SweepAssumption DEF MineOther, IsChain
    <2> HIDE DEF mined
    <2> QED
      BY <2>1, <2>2, <2>3 DEF IsChain, ChainGrows, IsMined
  <1>2. ASSUME NEW s \in blocks.sent, MineSweep(s)
        PROVE  IsChain' /\ ChainGrows /\ blocks'.sent = blocks.sent
    <2>1. blocks' = [height |-> blocks.height + 1, mined |-> blocks.mined,
                     sweeps |-> blocks.sweeps \cup {<<s, blocks.height + 1>>},
                     sent |-> blocks.sent, crashed |-> blocks.crashed]
      BY <1>2, Zenon DEF MineSweep, IsChain
    <2>2. blocks.height + 1 \in 0 .. LastHeight
      BY <1>2, SweepAssumption DEF MineSweep, IsChain
    <2> QED
      BY <2>1, <2>2 DEF IsChain, ChainGrows, IsMined
  <1>3. ASSUME MineEmpty PROVE IsChain' /\ ChainGrows /\ blocks'.sent = blocks.sent
    <2>1. blocks' = [height |-> blocks.height + 1, mined |-> blocks.mined, sweeps |-> blocks.sweeps,
                     sent |-> blocks.sent, crashed |-> blocks.crashed]
      BY <1>3, Zenon DEF MineEmpty, IsChain
    <2>2. blocks.height + 1 \in 0 .. LastHeight
      BY <1>3, SweepAssumption DEF MineEmpty, IsChain
    <2> QED
      BY <2>1, <2>2 DEF IsChain, ChainGrows, IsMined
  <1>4. UNCHANGED <<pending, build, stored>>
    BY Zenon DEF Mine, MineOther, MineSweep, MineEmpty
  <1> QED
    BY <1>1, <1>2, <1>3, <1>4, Zenon DEF Mine

-----------------------------------------------------------------------------
(* What a round adds to the builder. *)
Adds(b, c, points) ==
    /\ IsBuild(c) /\ c.pc = b.pc /\ c.i = b.i /\ c.tip = b.tip /\ c.tx = b.tx
    /\ c.sweeps \subseteq b.sweeps \cup points /\ c.boards \subseteq b.boards

LEMMA SetsAdd ==
    ASSUME NEW b, IsBuild(b), NEW S, NEW B, NEW points, S \subseteq b.sweeps \cup points, B \subseteq b.boards,
           NEW c, c = [b EXCEPT !.sweeps = S, !.boards = B]
    PROVE  Adds(b, c, points)
  <1>0. b = [pc |-> b.pc, i |-> b.i, tip |-> b.tip, sweeps |-> b.sweeps, boards |-> b.boards, tx |-> b.tx]
    BY DEF IsBuild
  <1>1. c = [pc |-> b.pc, i |-> b.i, tip |-> b.tip, sweeps |-> S, boards |-> B, tx |-> b.tx]
    BY <1>0, Zenon
  <1> QED
    BY <1>1, Zenon DEF Adds, IsBuild

LEMMA OutputsAdd ==
    ASSUME NEW b, IsBuild(b), NEW points
    PROVE  Adds(b, AddOutputs(b, points), points)
  <1>1. AddOutputs(b, points) = [pc |-> b.pc, i |-> b.i, tip |-> b.tip, sweeps |-> b.sweeps \cup points,
                                 boards |-> b.boards, tx |-> b.tx]
    BY DEF IsBuild, AddOutputs
  <1> QED
    BY <1>1 DEF Adds, IsBuild

LEMMA VtxosAdd ==
    ASSUME NEW b, IsBuild(b), NEW r \in Range(SweepRounds)
    PROVE  /\ Adds(b, ProcessVtxos(b, r).b, TreePoints(r))
           /\ ProcessVtxos(b, r).ret >= 0 /\ ~IsMined(r.tree[1]) =>
                  ProcessVtxos(b, r).ret = IsSwept(r.root)
  <1> DEFINE Outs(i) == Range(r.tree[i].outs)
             outs == UNION {Outs(i) : i \in MinedNodes(r)}
             left == {p \in outs : IsSwept(p) < 0}
             added == UNION {PurgeSweeps(left \cap Outs(i), r, i) : i \in MinedNodes(r)}
             S == PurgeSweeps(b.sweeps, r, 0) \cup added
             B == PurgeSweeps(b.boards, r, 0)
             ret == IF left = {} THEN Max({0} \cup {IsSwept(p) : p \in outs}) ELSE -1
  <1>1. ASSUME NEW i \in MinedNodes(r) PROVE Outs(i) \subseteq TreePoints(r)
    <2>1. r.tree[i] \in Range(r.tree)
      BY PointsAssumption DEF MinedNodes
    <2> QED
      BY <2>1 DEF TreePoints
  <1>2. added \subseteq TreePoints(r)
    BY <1>1, Zenon DEF PurgeSweeps
  <1>3. S \subseteq b.sweeps \cup TreePoints(r) /\ B \subseteq b.boards
    BY <1>2, Zenon DEF PurgeSweeps
  <1>4. CASE IsMined(r.tree[1])
    <2> DEFINE c == [b EXCEPT !.sweeps = S, !.boards = B]
    <2>1. ProcessVtxos(b, r) = [b |-> c, ret |-> ret]
      BY <1>4 DEF ProcessVtxos
    <2>2. Adds(b, c, TreePoints(r))
      <3> HIDE DEF S, B
      <3> QED
        BY <1>3, SetsAdd, Zenon
    <2>3. ProcessVtxos(b, r).b = c
      <3> HIDE DEF S, B, ret, c
      <3> QED
        BY <2>1
    <2> HIDE DEF c
    <2> QED
      BY <1>4, <2>2, <2>3
  <1>5. CASE ~IsMined(r.tree[1]) /\ IsSwept(r.root) >= 0
    <2>1. ProcessVtxos(b, r) = [b |-> b, ret |-> IsSwept(r.root)]
      BY <1>5, Zenon DEF ProcessVtxos
    <2> QED
      BY <2>1 DEF Adds
  <1>6. CASE ~IsMined(r.tree[1]) /\ ~(IsSwept(r.root) >= 0)
    <2>1. ProcessVtxos(b, r) = [b |-> AddOutputs(b, {r.root}), ret |-> -1]
      BY <1>6, Zenon DEF ProcessVtxos
    <2>2. Adds(b, AddOutputs(b, {r.root}), TreePoints(r))
      BY OutputsAdd, Zenon DEF Adds, TreePoints
    <2> QED
      BY <2>1, <2>2
  <1> QED
    BY <1>4, <1>5, <1>6

LEMMA ConnectorsAdd ==
    ASSUME NEW b, IsBuild(b), NEW r \in Range(SweepRounds)
    PROVE  Adds(b, ProcessConnectors(b, r).b, ConnectorPoints(r))
  <1> DEFINE confirmed == {i \in 1 .. Len(r.conns) : \A j \in 1 .. i : IsMined(r.conns[j])}
             n == Cardinality(confirmed)
             unspent == {p \in {ConnectorOut(r.conns[i]) : i \in confirmed} : TxOutUnspent(p)}
             last == IF confirmed = {} THEN r.conn ELSE ChainOut(r.conns[n])
  <1>1. ASSUME NEW i \in 1 .. Len(r.conns)
        PROVE  ChainOut(r.conns[i]) \in ConnectorPoints(r) /\ ConnectorOut(r.conns[i]) \in ConnectorPoints(r)
    <2>1. r.conns[i] \in Range(r.conns)
      BY PointsAssumption
    <2>2. r.conns[i].outs[1] \in Range(r.conns[i].outs) /\ r.conns[i].outs[2] \in Range(r.conns[i].outs)
      BY <2>1, PointsAssumption
    <2> QED
      BY <2>1, <2>2, Zenon DEF ConnectorPoints, ChainOut, ConnectorOut
  <1>2. unspent \subseteq ConnectorPoints(r)
    BY <1>1, Zenon
  <1>3. ASSUME confirmed # {} PROVE n \in 1 .. Len(r.conns)
    <2>1. Len(r.conns) \in Nat
      BY PointsAssumption
    <2>2. IsFiniteSet(1 .. Len(r.conns)) /\ Cardinality(1 .. Len(r.conns)) = Len(r.conns)
      BY <2>1, FS_Interval
    <2>3. IsFiniteSet(confirmed) /\ n <= Len(r.conns)
      BY <2>2, FS_Subset, Zenon
    <2>4. n \in Nat /\ n # 0
      BY <1>3, <2>3, FS_CardinalityType, FS_EmptySet, Zenon
    <2> QED
      BY <2>1, <2>3, <2>4
  <1>4. last \in ConnectorPoints(r)
    BY <1>1, <1>3, Zenon DEF ConnectorPoints
  <1>5. \/ ProcessConnectors(b, r) = [b |-> AddOutputs(b, unspent), ret |-> 0]
        \/ ProcessConnectors(b, r) = [b |-> AddOutputs(b, unspent \cup {last}), ret |-> -1]
        \/ ProcessConnectors(b, r) = [b |-> AddOutputs(b, unspent),
                                      ret |-> IF unspent = {} THEN IsSwept(last) ELSE -1]
    BY Zenon DEF ProcessConnectors
  <1> HIDE DEF confirmed, unspent, last
  <1>6. \/ ProcessConnectors(b, r).b = AddOutputs(b, unspent)
        \/ ProcessConnectors(b, r).b = AddOutputs(b, unspent \cup {last})
    BY <1>5
  <1> QED
    BY <1>2, <1>4, <1>6, OutputsAdd DEF Adds

LEMMA PurgeAdds ==
    ASSUME NEW b, IsBuild(b)
    PROVE  Adds(b, PurgeUneconomical(b), {})
  <1> DEFINE S == {p \in b.sweeps : Value[p] >= 0}
             B == {p \in b.boards : Value[p] >= 0}
             c == [b EXCEPT !.sweeps = S, !.boards = B]
  <1>1. PurgeUneconomical(b) = c
    BY DEF PurgeUneconomical
  <1>2. S \subseteq b.sweeps /\ B \subseteq b.boards
    OBVIOUS
  <1> HIDE DEF S, B
  <1>3. Adds(b, c, {})
    BY <1>2, SetsAdd, Zenon
  <1> HIDE DEF c
  <1> QED
    BY <1>1, <1>3

-----------------------------------------------------------------------------
(* Points that are not connectors, or connectors of a round whose tree      *)
(* output is settled, may be taken.                                         *)
LEMMA CoveredGrows ==
    ASSUME NEW ins, NEW tip, Covered(ins, tip), NEW new, NEW old, old \subseteq ins,
           \A r \in Range(SweepRounds) :
               new \cap ConnectorPoints(r) # {} /\ ~IsMined(r.tree[1]) =>
                   \E m \in SweptBy(r.root) : m[2] <= tip - SweepDeep + 1
    PROVE  Covered(old \cup new, tip)
  BY Zenon DEF Covered

LEMMA TreeCovered ==
    ASSUME NEW r \in Range(SweepRounds), NEW q \in Range(SweepRounds)
    PROVE  TreePoints(r) \cap ConnectorPoints(q) = {}
  BY PointsAssumption, Zenon

(* process_vtxos has settled the tree output before connectors are added.   *)
LEMMA DoneCovers ==
    ASSUME IsChain, IsBuild(build), NEW r \in Range(SweepRounds), IsDone(ProcessVtxos(build, r).ret),
           NEW q \in Range(SweepRounds), ConnectorPoints(r) \cap ConnectorPoints(q) # {},
           ~IsMined(q.tree[1])
    PROVE  \E m \in SweptBy(q.root) : m[2] <= build.tip - SweepDeep + 1
  <1>1. q = r
    BY PointsAssumption, Zenon
  <1>2. IsDone(IsSwept(r.root))
    BY <1>1, VtxosAdd, Zenon DEF IsDone
  <1>3. PICK m \in SweptBy(r.root) : m[2] = IsSwept(r.root)
    BY <1>2, SweptHeight, Zenon DEF IsDone
  <1> QED
    BY <1>1, <1>2, <1>3, Zenon DEF IsDone, DoneHeight

(* A round that is done has its output spent.                               *)
LEMMA DoneSpent ==
    ASSUME IsChain, IsBuild(build), NEW r \in Range(SweepRounds), IsDone(ProcessVtxos(build, r).ret)
    PROVE  Spent(r.root)
  <1>1. CASE IsMined(r.tree[1])
    BY <1>1, TreeTop, Zenon DEF Spent
  <1>2. CASE ~IsMined(r.tree[1])
    <2>1. IsSwept(r.root) >= 0
      BY <1>2, VtxosAdd, Zenon DEF IsDone
    <2> QED
      BY <2>1, SweptHeight, Zenon DEF Spent
  <1> QED
    BY <1>1, <1>2, Zenon

(* One round, whatever it adds: the builder stays covered. *)
LEMMA RoundCovered ==
    ASSUME IsChain, IsBuild(build), Covered(build.sweeps \cup build.boards, build.tip),
           NEW r \in Range(SweepRounds), NEW points,
           \/ points \subseteq TreePoints(r)
           \/ points \subseteq TreePoints(r) \cup ConnectorPoints(r) /\ IsDone(ProcessVtxos(build, r).ret),
           NEW c, Adds(build, c, points)
    PROVE  Covered(c.sweeps \cup c.boards, c.tip)
  <1>1. ASSUME NEW q \in Range(SweepRounds), points \cap ConnectorPoints(q) # {}, ~IsMined(q.tree[1])
        PROVE  \E m \in SweptBy(q.root) : m[2] <= build.tip - SweepDeep + 1
    <2>1. TreePoints(r) \cap ConnectorPoints(q) = {}
      BY TreeCovered, Zenon
    <2>2. ConnectorPoints(r) \cap ConnectorPoints(q) # {} /\ IsDone(ProcessVtxos(build, r).ret)
      BY <1>1, <2>1, Zenon
    <2> QED
      BY <1>1, <2>2, DoneCovers, Zenon
  <1> DEFINE ins == build.sweeps \cup build.boards
  <1>2. Covered(ins \cup points, build.tip)
    <2>1. Covered(ins, build.tip)
      OBVIOUS
    <2> HIDE DEF ins
    <2> QED
      BY <1>1, <2>1, CoveredGrows, Zenon
  <1>3. c.sweeps \cup c.boards \subseteq ins \cup points /\ c.tip = build.tip
    BY DEF Adds
  <1> QED
    BY <1>2, <1>3, Zenon DEF Covered

-----------------------------------------------------------------------------
LEMMA AddsAdds ==
    ASSUME NEW a, NEW b, NEW c, NEW P, NEW Q, Adds(a, b, P), Adds(b, c, Q)
    PROVE  Adds(a, c, P \cup Q)
  BY DEF Adds

(* The builder moves to the next round or board. *)
Moves(b, c) ==
    /\ IsBuild(c) /\ c.pc = b.pc /\ c.i = b.i + 1 /\ c.tip = b.tip /\ c.tx = b.tx
    /\ c.sweeps = b.sweeps /\ c.boards = b.boards

LEMMA NextMoves ==
    ASSUME NEW b, IsBuild(b), NEW c, c = [b EXCEPT !.i = @ + 1]
    PROVE  Moves(b, c)
  <1> DEFINE n == b.i + 1
  <1>1. n \in Nat /\ n > 0
    BY DEF IsBuild
  <1>2. b = [pc |-> b.pc, i |-> b.i, tip |-> b.tip, sweeps |-> b.sweeps, boards |-> b.boards, tx |-> b.tx]
    BY DEF IsBuild
  <1>3. c = [b EXCEPT !.i = n]
    BY <1>2
  <1> HIDE DEF n
  <1>4. c = [pc |-> b.pc, i |-> n, tip |-> b.tip, sweeps |-> b.sweeps, boards |-> b.boards, tx |-> b.tx]
    BY <1>2, <1>3
  <1>5. IsBuild(c) /\ c.i = n
    BY <1>1, <1>4 DEF IsBuild
  <1> QED
    BY <1>4, <1>5 DEF Moves, n

LEMMA PurgedMoves ==
    ASSUME NEW b, NEW P, NEW a, Adds(a, b, P), NEW c, c = [PurgeUneconomical(b) EXCEPT !.i = @ + 1]
    PROVE  \E d : Adds(a, d, P) /\ Moves(d, c)
  <1> DEFINE d == PurgeUneconomical(b)
  <1>1. Adds(b, d, {})
    BY PurgeAdds DEF Adds
  <1>2. Adds(a, d, P \cup {})
    BY <1>1, AddsAdds
  <1>3. Adds(a, d, P)
    <2>1. P \cup {} = P
      OBVIOUS
    <2> QED
      BY <1>2, <2>1
  <1>4. IsBuild(d)
    BY <1>1 DEF Adds
  <1>5. Moves(d, c)
    <2>1. c = [d EXCEPT !.i = @ + 1]
      OBVIOUS
    <2> HIDE DEF d
    <2> QED
      BY <1>4, <2>1, NextMoves, Zenon
  <1> QED
    BY <1>3, <1>5

LEMMA RoundSwept ==
    ASSUME IsChain, IsBuild(build), Covered(build.sweeps \cup build.boards, build.tip), ProcessRound
    PROVE  /\ IsBuild(build') /\ build'.pc = "rounds" /\ build'.tx = build.tx
           /\ Covered(build'.sweeps \cup build'.boards, build'.tip)
           /\ \/ UNCHANGED <<pending, stored>>
              \/ \E r \in Range(SweepRounds) :
                     /\ Spent(r.root) /\ pending' = Forget(PointsOf(r))
                     /\ stored' = [stored EXCEPT !.rounds = @ \cup {r}]
  <1> DEFINE r == SweepRounds[build.i]
             vtxos == ProcessVtxos(build, r)
             conns == ProcessConnectors(vtxos.b, r)
  <1>1. r \in Range(SweepRounds)
    BY PointsAssumption DEF ProcessRound, IsBuild
  <1>2. \/ build' = [build EXCEPT !.i = @ + 1] /\ UNCHANGED <<pending, stored>>
        \/ build' = [PurgeUneconomical(vtxos.b) EXCEPT !.i = @ + 1] /\ UNCHANGED <<pending, stored>>
        \/ /\ IsDone(vtxos.ret)
           /\ build' = [PurgeUneconomical(conns.b) EXCEPT !.i = @ + 1]
           /\ \/ UNCHANGED <<pending, stored>>
              \/ pending' = Forget(PointsOf(r)) /\ stored' = [stored EXCEPT !.rounds = @ \cup {r}]
    BY Zenon DEF ProcessRound
  <1>3. build.pc = "rounds"
    BY Zenon DEF ProcessRound
  <1>4. Adds(build, vtxos.b, TreePoints(r))
    BY <1>1, VtxosAdd, Zenon
  <1>5. Adds(build, conns.b, TreePoints(r) \cup ConnectorPoints(r))
    <2>1. Adds(vtxos.b, conns.b, ConnectorPoints(r))
      BY <1>1, <1>4, ConnectorsAdd, Zenon DEF Adds
    <2> HIDE DEF vtxos, conns, r
    <2> QED
      BY <1>4, <2>1, AddsAdds
  <1> HIDE DEF conns, r
  <1>6. CASE build' = [build EXCEPT !.i = @ + 1] /\ UNCHANGED <<pending, stored>>
    <2>1. Moves(build, build')
      BY <1>6, NextMoves, Zenon
    <2> QED
      BY <1>3, <1>6, <2>1 DEF Moves
  <1>7. CASE build' = [PurgeUneconomical(vtxos.b) EXCEPT !.i = @ + 1] /\ UNCHANGED <<pending, stored>>
    <2>1. PICK d : Adds(build, d, TreePoints(r)) /\ Moves(d, build')
      BY <1>4, <1>7, PurgedMoves, Zenon
    <2>2. Covered(d.sweeps \cup d.boards, d.tip)
      BY <1>1, <2>1, RoundCovered
    <2> QED
      BY <1>3, <1>7, <2>1, <2>2, Zenon DEF Moves, Adds
  <1>8. CASE /\ IsDone(vtxos.ret)
             /\ build' = [PurgeUneconomical(conns.b) EXCEPT !.i = @ + 1]
             /\ \/ UNCHANGED <<pending, stored>>
                \/ pending' = Forget(PointsOf(r)) /\ stored' = [stored EXCEPT !.rounds = @ \cup {r}]
    <2>1. PICK d : Adds(build, d, TreePoints(r) \cup ConnectorPoints(r)) /\ Moves(d, build')
      BY <1>5, <1>8, PurgedMoves, Zenon
    <2>2. Covered(d.sweeps \cup d.boards, d.tip)
      BY <1>1, <1>8, <2>1, RoundCovered, Zenon
    <2>3. Spent(r.root)
      BY <1>1, <1>8, DoneSpent
    <2> QED
      BY <1>1, <1>3, <1>8, <2>1, <2>2, <2>3, Zenon DEF Moves, Adds
  <1> QED
    BY <1>2, <1>6, <1>7, <1>8, Zenon

LEMMA BoardSwept ==
    ASSUME IsChain, IsBuild(build), Covered(build.sweeps \cup build.boards, build.tip), ProcessBoard
    PROVE  /\ IsBuild(build') /\ build'.pc = "boards" /\ build'.tx = build.tx
           /\ Covered(build'.sweeps \cup build'.boards, build'.tip)
           /\ \/ UNCHANGED <<pending, stored>>
              \/ \E b \in Range(SweepBoards) :
                     /\ Spent(b.anchor) /\ pending' = Forget({b.anchor})
                     /\ stored' = [stored EXCEPT !.boards = @ \cup {b}]
  <1> DEFINE b == SweepBoards[build.i]
             with == [build EXCEPT !.boards = @ \cup {b.anchor}]
  <1>1. b \in Range(SweepBoards)
    BY PointsAssumption DEF ProcessBoard, IsBuild
  <1>2. \E a \in {with, build} : build' = [PurgeUneconomical(a) EXCEPT !.i = @ + 1]
    BY Zenon DEF ProcessBoard
  <1>3. \/ UNCHANGED <<pending, stored>>
        \/ /\ IsMined(b.exit) \/ IsDone(IsSwept(b.anchor))
           /\ pending' = Forget({b.anchor}) /\ stored' = [stored EXCEPT !.boards = @ \cup {b}]
    BY Zenon DEF ProcessBoard
  <1>4. build.pc = "boards"
    BY DEF ProcessBoard
  <1> HIDE DEF b
  <1>5. with = [pc |-> build.pc, i |-> build.i, tip |-> build.tip, sweeps |-> build.sweeps,
                boards |-> build.boards \cup {b.anchor}, tx |-> build.tx]
    BY DEF IsBuild
  <1>6. IsBuild(with)
    BY <1>5, Zenon DEF IsBuild
  <1>7. ASSUME NEW a \in {with, build}
        PROVE  /\ IsBuild(a) /\ a.pc = build.pc /\ a.tip = build.tip /\ a.tx = build.tx
               /\ a.sweeps \cup a.boards \subseteq build.sweeps \cup build.boards \cup {b.anchor}
    <2> HIDE DEF with
    <2>1. CASE a = build
      BY <2>1, Zenon
    <2>2. CASE a = with
      BY <2>2, <1>5, <1>6, Zenon
    <2> QED
      BY <2>1, <2>2, Zenon
  <1>8. Covered(build.sweeps \cup build.boards \cup {b.anchor}, build.tip)
    BY <1>1, PointsAssumption DEF Covered
  <1>9. PICK a \in {with, build} : build' = [PurgeUneconomical(a) EXCEPT !.i = @ + 1]
    BY <1>2
  <1>10. PICK d : Adds(a, d, {}) /\ Moves(d, build')
    <2>1. Adds(a, a, {})
      BY <1>7 DEF Adds
    <2> QED
      BY <1>9, <2>1, PurgedMoves
  <1>11. IsBuild(build') /\ build'.pc = "boards" /\ build'.tx = build.tx /\ build'.tip = build.tip
    BY <1>4, <1>7, <1>10, Zenon DEF Moves, Adds
  <1>12. build'.sweeps \cup build'.boards \subseteq build.sweeps \cup build.boards \cup {b.anchor}
    BY <1>7, <1>10, Zenon DEF Moves, Adds
  <1>13. Covered(build'.sweeps \cup build'.boards, build'.tip)
    BY <1>8, <1>11, <1>12 DEF Covered
  <1>14. IsMined(b.exit) \/ IsDone(IsSwept(b.anchor)) => Spent(b.anchor)
    BY <1>1, BoardExit, SweptHeight, Zenon DEF Spent, IsDone
  <1> QED
    BY <1>1, <1>3, <1>11, <1>13, <1>14, Zenon

-----------------------------------------------------------------------------
LEMMA SweepInitInv == SweepInit => SweepInv
  <1> SUFFICES ASSUME SweepInit PROVE SweepInv
    BY Zenon
  <1>1. IsBuild(build) /\ build.sweeps \cup build.boards = {} /\ build.pc = "idle"
    BY Zenon DEF SweepInit, NoBuild, IsBuild
  <1>2. IsChain
    BY SweepAssumption DEF SweepInit, IsChain
  <1>3. IsStore /\ Watches
    BY <1>1, Zenon DEF SweepInit, IsStore, Watches, SweepsWatched
  <1>4. Ordered
    BY <1>1, Zenon DEF SweepInit, Ordered, Covered
  <1>5. SweptIsSpent
    BY DEF SweepInit, SweptIsSpent
  <1> QED
    BY <1>1, <1>2, <1>3, <1>4, <1>5 DEF SweepInv

(* Steps of perform_sweep that only record what is swept: the entries of    *)
(* points are forgotten, their sweeps stay pending.                          *)
LEMMA ForgetStep ==
    ASSUME SweepInv, NEW points, pending' = Forget(points), blocks' = blocks,
           build.pc # "broadcast", build'.pc # "broadcast",
           stored'.sweeps = stored.sweeps, stored'.confirmed = stored.confirmed,
           stored'.abandoned = stored.abandoned
    PROVE  Watches' /\ pending' = [txs |-> pending'.txs, utxo |-> pending'.utxo]
  <1>1. pending' = [txs |-> pending.txs, utxo |-> {e \in pending.utxo : e[1] \notin points}]
    BY Zenon DEF SweepInv, IsStore, Forget
  <1> QED
    BY <1>1 DEF SweepInv, Watches, SweepsWatched

LEMMA RoundKeeps ==
    ASSUME SweepInv, ProcessRound
    PROVE  SweepInv'
  <1>1. blocks' = blocks /\ build.pc = "rounds"
    BY DEF ProcessRound
  <1>2. IsChain' /\ ChainGrows
    BY <1>1 DEF SweepInv, IsChain, ChainGrows, IsMined
  <1>3. /\ IsBuild(build') /\ build'.pc = "rounds"
        /\ Covered(build'.sweeps \cup build'.boards, build'.tip)
        /\ \/ UNCHANGED <<pending, stored>>
           \/ \E r \in Range(SweepRounds) :
                  /\ Spent(r.root) /\ pending' = Forget(PointsOf(r))
                  /\ stored' = [stored EXCEPT !.rounds = @ \cup {r}]
    BY RoundSwept, Zenon DEF SweepInv, Ordered
  <1>4. Covered(build.sweeps \cup build.boards, build.tip)'
    BY <1>1, <1>3, Zenon DEF Covered, IsMined, SweptBy
  <1>5. ASSUME stored'.sweeps = stored.sweeps PROVE Ordered'
    BY <1>2, <1>4, <1>5, CoveredStays, Zenon DEF SweepInv, Ordered
  <1>6. CASE UNCHANGED <<pending, stored>>
    <2>1. IsStore' /\ Watches' /\ SweptIsSpent'
      BY <1>1, <1>2, <1>3, <1>6, SpentStays, Zenon
         DEF SweepInv, IsStore, Watches, SweepsWatched, SweptIsSpent
    <2> QED
      BY <1>2, <1>3, <1>5, <1>6, <2>1, Zenon DEF SweepInv
  <1>7. ASSUME NEW r \in Range(SweepRounds), Spent(r.root), pending' = Forget(PointsOf(r)),
               stored' = [stored EXCEPT !.rounds = @ \cup {r}]
        PROVE  SweepInv'
    <2>1. stored' = [sweeps |-> stored.sweeps, confirmed |-> stored.confirmed,
                     abandoned |-> stored.abandoned, rounds |-> stored.rounds \cup {r},
                     boards |-> stored.boards]
      BY <1>7, Zenon DEF SweepInv, IsStore
    <2>2. Watches' /\ pending' = [txs |-> pending'.txs, utxo |-> pending'.utxo]
      BY <1>1, <1>3, <1>7, <2>1, ForgetStep, Zenon
    <2>3. IsStore'
      BY <2>1, <2>2, Zenon DEF SweepInv, IsStore
    <2>4. SweptIsSpent'
      BY <1>2, <1>7, <2>1, SpentStays DEF SweepInv, SweptIsSpent
    <2> QED
      BY <1>2, <1>3, <1>5, <2>1, <2>2, <2>3, <2>4, Zenon DEF SweepInv
  <1> QED
    BY <1>3, <1>6, <1>7

LEMMA BoardKeeps ==
    ASSUME SweepInv, ProcessBoard
    PROVE  SweepInv'
  <1>1. blocks' = blocks /\ build.pc = "boards"
    BY Zenon DEF ProcessBoard
  <1>2. IsChain' /\ ChainGrows
    BY <1>1 DEF SweepInv, IsChain, ChainGrows, IsMined
  <1>3. /\ IsBuild(build') /\ build'.pc = "boards"
        /\ Covered(build'.sweeps \cup build'.boards, build'.tip)
        /\ \/ UNCHANGED <<pending, stored>>
           \/ \E b \in Range(SweepBoards) :
                  /\ Spent(b.anchor) /\ pending' = Forget({b.anchor})
                  /\ stored' = [stored EXCEPT !.boards = @ \cup {b}]
    BY BoardSwept, Zenon DEF SweepInv, Ordered
  <1>4. Covered(build.sweeps \cup build.boards, build.tip)'
    BY <1>1, <1>3, Zenon DEF Covered, IsMined, SweptBy
  <1>5. ASSUME stored'.sweeps = stored.sweeps PROVE Ordered'
    BY <1>2, <1>4, <1>5, CoveredStays DEF SweepInv, Ordered
  <1>6. CASE UNCHANGED <<pending, stored>>
    <2>1. IsStore' /\ Watches' /\ SweptIsSpent'
      BY <1>1, <1>2, <1>3, <1>6, SpentStays, Zenon
         DEF SweepInv, IsStore, Watches, SweepsWatched, SweptIsSpent
    <2> QED
      BY <1>2, <1>3, <1>5, <1>6, <2>1 DEF SweepInv
  <1>7. ASSUME NEW b \in Range(SweepBoards), Spent(b.anchor), pending' = Forget({b.anchor}),
               stored' = [stored EXCEPT !.boards = @ \cup {b}]
        PROVE  SweepInv'
    <2>1. stored' = [sweeps |-> stored.sweeps, confirmed |-> stored.confirmed,
                     abandoned |-> stored.abandoned, rounds |-> stored.rounds,
                     boards |-> stored.boards \cup {b}]
      BY <1>7, Zenon DEF SweepInv, IsStore
    <2>2. Watches' /\ pending' = [txs |-> pending'.txs, utxo |-> pending'.utxo]
      BY <1>1, <1>3, <1>7, <2>1, ForgetStep, Zenon
    <2>3. IsStore'
      BY <2>1, <2>2, Zenon DEF SweepInv, IsStore
    <2>4. SweptIsSpent'
      BY <1>2, <1>7, <2>1, SpentStays, Zenon DEF SweepInv, SweptIsSpent
    <2> QED
      BY <1>2, <1>3, <1>5, <2>1, <2>2, <2>3, <2>4 DEF SweepInv
  <1> QED
    BY <1>3, <1>6, <1>7, Zenon

LEMMA MineKeeps ==
    ASSUME SweepInv, Mine
    PROVE  SweepInv'
  <1>1. /\ IsChain' /\ ChainGrows /\ blocks'.sent = blocks.sent
        /\ pending' = pending /\ build' = build /\ stored' = stored
    BY MineStep, Zenon DEF SweepInv
  <1>2. Ordered'
    BY <1>1, CoveredStays, Zenon DEF SweepInv, Ordered
  <1>3. SweptIsSpent'
    BY <1>1, SpentStays, Zenon DEF SweepInv, SweptIsSpent
  <1> QED
    BY <1>1, <1>2, <1>3, Zenon DEF SweepInv, IsStore, Watches, SweepsWatched

(* Steps that leave the chain alone. *)
LEMMA SameChain ==
    ASSUME SweepInv, blocks'.mined = blocks.mined, blocks'.sweeps = blocks.sweeps
    PROVE  ChainGrows
  BY Zenon DEF ChainGrows, IsMined

LEMMA BuildKeeps ==
    ASSUME SweepInv, BeginSweep \/ RoundsProcessed
    PROVE  SweepInv'
  <1>1. blocks' = blocks /\ pending' = pending /\ stored' = stored /\ build.pc \in {"idle", "rounds"}
    BY Zenon DEF BeginSweep, RoundsProcessed
  <1>2. IsBuild(build') /\ build'.pc # "broadcast" /\ Covered(build'.sweeps \cup build'.boards, build'.tip)
    <2>1. CASE BeginSweep
      <3>1. build' = [pc |-> "rounds", i |-> 1, tip |-> blocks.height, sweeps |-> {}, boards |-> {},
                      tx |-> NoBuild.tx]
        BY <2>1, Zenon DEF BeginSweep, NoBuild
      <3> QED
        BY <3>1 DEF SweepInv, IsBuild, IsChain, Covered
    <2>2. CASE RoundsProcessed
      <3>1. build' = [pc |-> "boards", i |-> 1, tip |-> build.tip, sweeps |-> build.sweeps,
                      boards |-> build.boards, tx |-> build.tx]
        BY <2>2, Zenon DEF RoundsProcessed, SweepInv, IsBuild
      <3> QED
        BY <3>1 DEF SweepInv, IsBuild, Ordered
    <2> QED
      BY <2>1, <2>2, Zenon
  <1>3. ChainGrows
    BY <1>1, SameChain
  <1>4. Ordered'
    BY <1>1, <1>2, <1>3, CoveredStays DEF SweepInv, Ordered
  <1>5. SweptIsSpent'
    BY <1>1, <1>3, SpentStays DEF SweepInv, SweptIsSpent
  <1> QED
    BY <1>1, <1>2, <1>4, <1>5 DEF SweepInv, IsChain, IsStore, Watches, SweepsWatched

LEMMA StoreSweepKeeps ==
    ASSUME SweepInv, StoreSweep
    PROVE  SweepInv'
  <1> DEFINE tx == [ins |-> build.sweeps \cup build.boards, tip |-> build.tip]
  <1>1. blocks' = blocks /\ pending' = pending /\ build.pc = "boards"
    BY DEF StoreSweep
  <1>2. \/ build' = [build EXCEPT !.pc = "clear"] /\ stored' = stored
        \/ /\ build' = [build EXCEPT !.pc = "broadcast", !.tx = tx]
           /\ stored' = [stored EXCEPT !.sweeps = @ \cup {tx}]
    BY DEF StoreSweep
  <1>3. ChainGrows
    BY <1>1, SameChain, Zenon
  <1>4. IsChain'
    BY <1>1, Zenon DEF SweepInv, IsChain
  <1>5. tx.ins = build.sweeps \cup build.boards /\ tx.tip = build.tip
    BY Zenon
  <1> HIDE DEF tx
  <1>6. CASE build' = [build EXCEPT !.pc = "clear"] /\ stored' = stored
    <2>1. build' = [pc |-> "clear", i |-> build.i, tip |-> build.tip, sweeps |-> build.sweeps,
                    boards |-> build.boards, tx |-> build.tx]
      BY <1>6, Zenon DEF SweepInv, IsBuild
    <2>2. IsBuild(build')
      BY <2>1 DEF SweepInv, IsBuild
    <2>3. Ordered'
      BY <1>3, <1>6, <2>1, CoveredStays DEF SweepInv, Ordered
    <2>4. SweptIsSpent'
      BY <1>3, <1>6, SpentStays, Zenon DEF SweepInv, SweptIsSpent
    <2> QED
      BY <1>1, <1>4, <1>6, <2>1, <2>2, <2>3, <2>4 DEF SweepInv, IsStore, Watches, SweepsWatched
  <1>7. CASE /\ build' = [build EXCEPT !.pc = "broadcast", !.tx = tx]
             /\ stored' = [stored EXCEPT !.sweeps = @ \cup {tx}]
    <2>1. build' = [pc |-> "broadcast", i |-> build.i, tip |-> build.tip, sweeps |-> build.sweeps,
                    boards |-> build.boards, tx |-> tx]
      BY <1>7, Zenon DEF SweepInv, IsBuild
    <2>2. stored' = [sweeps |-> stored.sweeps \cup {tx}, confirmed |-> stored.confirmed,
                     abandoned |-> stored.abandoned, rounds |-> stored.rounds, boards |-> stored.boards]
      BY <1>7, Zenon DEF SweepInv, IsStore
    <2>3. IsBuild(build')
      BY <2>1 DEF SweepInv, IsBuild
    <2>4. IsStore'
      BY <1>1, <2>2 DEF SweepInv, IsStore
    <2>5. Watches'
      BY <1>1, <2>1, <2>2, Zenon DEF SweepInv, Watches, SweepsWatched
    <2>6. Ordered'
      BY <1>3, <1>5, <2>1, <2>2, CoveredStays, Zenon DEF SweepInv, Ordered
    <2>7. SweptIsSpent'
      BY <1>3, <2>2, SpentStays DEF SweepInv, SweptIsSpent
    <2> QED
      BY <1>4, <2>3, <2>4, <2>5, <2>6, <2>7 DEF SweepInv
  <1> QED
    BY <1>2, <1>6, <1>7

LEMMA BroadcastKeeps ==
    ASSUME SweepInv, BroadcastSweep
    PROVE  SweepInv'
  <1> DEFINE tx == build.tx
  <1>1. build.pc = "broadcast" /\ stored' = stored
    BY DEF BroadcastSweep
  <1>2. build' = [pc |-> "clear", i |-> build.i, tip |-> build.tip, sweeps |-> build.sweeps,
                  boards |-> build.boards, tx |-> build.tx]
    BY DEF BroadcastSweep, SweepInv, IsBuild
  <1>3. blocks' = [height |-> blocks.height, mined |-> blocks.mined, sweeps |-> blocks.sweeps,
                   sent |-> blocks.sent \cup {tx}, crashed |-> blocks.crashed]
    BY Zenon DEF BroadcastSweep, SweepInv, IsChain
  <1>4. pending' = [txs |-> pending.txs \cup {tx}, utxo |-> pending.utxo \cup {<<q, tx>> : q \in tx.ins}]
    BY Zenon DEF BroadcastSweep, WithPending, SweepInv, IsStore
  <1>5. tx \in stored.sweeps
    BY <1>1 DEF SweepInv, Watches
  <1>6. ASSUME NEW e \in pending'.utxo PROVE e[2] \in pending'.txs /\ e[1] \in e[2].ins
    <2>1. CASE e \in pending.utxo
      BY <1>4, <2>1, Zenon DEF SweepInv, Watches
    <2>2. CASE e \in {<<q, tx>> : q \in tx.ins}
      <3> HIDE DEF tx
      <3> QED
        BY <1>4, <2>2
    <2> QED
      BY <1>4, <2>1, <2>2, Zenon
  <1>7. ChainGrows
    BY <1>3, SameChain, Zenon
  <1>8. IsBuild(build')
    BY <1>2 DEF SweepInv, IsBuild
  <1>9. IsChain'
    BY <1>3, Zenon DEF SweepInv, IsChain
  <1>10. IsStore'
    BY <1>1, <1>4 DEF SweepInv, IsStore
  <1>11. Watches'
    BY <1>1, <1>2, <1>3, <1>4, <1>5, <1>6, Zenon DEF SweepInv, Watches, SweepsWatched
  <1>12. Ordered'
    BY <1>1, <1>2, <1>7, CoveredStays, Zenon DEF SweepInv, Ordered
  <1>13. SweptIsSpent'
    BY <1>1, <1>7, SpentStays, Zenon DEF SweepInv, SweptIsSpent
  <1> QED
    BY <1>8, <1>9, <1>10, <1>11, <1>12, <1>13 DEF SweepInv

(* A sweep that leaves pending_txs has no entry left and gets its row. *)
LEMMA ClearKeeps ==
    ASSUME SweepInv, ClearConfirmedSweeps
    PROVE  SweepInv'
  <1> DEFINE idle == {s \in pending.txs : \A p \in s.ins : \A e \in pending.utxo : e[1] # p}
             deep == {s \in idle : \E m \in blocks.sweeps : m[1] = s /\ blocks.height - m[2] >= 2 * SweepDeep}
  <1>1. blocks' = blocks /\ build' = NoBuild /\ build.pc = "clear"
    BY Zenon DEF ClearConfirmedSweeps
  <1>2. pending' = [txs |-> pending.txs \ idle, utxo |-> pending.utxo]
    BY Zenon DEF ClearConfirmedSweeps, SweepInv, IsStore
  <1>3. stored' = [sweeps |-> stored.sweeps, confirmed |-> stored.confirmed \cup deep,
                   abandoned |-> stored.abandoned \cup (idle \ deep),
                   rounds |-> stored.rounds, boards |-> stored.boards]
    BY Zenon DEF ClearConfirmedSweeps, SweepInv, IsStore
  <1>4. ASSUME NEW e \in pending.utxo PROVE e[2] \in pending.txs \ idle /\ e[1] \in e[2].ins
    BY DEF SweepInv, Watches
  <1> HIDE DEF idle, deep
  <1>5. IsBuild(build') /\ build'.pc = "idle" /\ build'.sweeps \cup build'.boards = {}
    BY <1>1 DEF NoBuild, IsBuild
  <1>6. ChainGrows
    BY <1>1, SameChain, Zenon
  <1>7. IsChain' /\ IsStore'
    BY <1>1, <1>2, <1>3, Zenon DEF SweepInv, IsChain, IsStore
  <1>8. Watches'
    BY <1>1, <1>2, <1>3, <1>4, <1>5 DEF SweepInv, Watches, SweepsWatched
  <1>9. Ordered'
    <2>1. Covered(build.sweeps \cup build.boards, build.tip)'
      BY <1>5, Zenon DEF Covered
    <2> QED
      BY <1>3, <1>6, <2>1, CoveredStays, Zenon DEF SweepInv, Ordered
  <1>10. SweptIsSpent'
    BY <1>3, <1>6, SpentStays, Zenon DEF SweepInv, SweptIsSpent
  <1> QED
    BY <1>5, <1>7, <1>8, <1>9, <1>10 DEF SweepInv

LEMMA RestartKeeps ==
    ASSUME SweepInv, RestartSweeper
    PROVE  SweepInv'
  <1> DEFINE rows == stored.sweeps \ (stored.confirmed \cup stored.abandoned)
             points == UNION {{<<p, s>> : p \in s.ins} : s \in rows}
  <1>1. stored' = stored /\ build' = NoBuild
    BY DEF RestartSweeper
  <1>2. pending' = [txs |-> rows, utxo |-> points]
    BY DEF RestartSweeper
  <1>3. blocks' = [height |-> blocks.height, mined |-> blocks.mined, sweeps |-> blocks.sweeps,
                   sent |-> blocks.sent \cup rows, crashed |-> TRUE]
    BY Zenon DEF RestartSweeper, SweepInv, IsChain
  <1>4. ASSUME NEW e \in points PROVE e[2] \in rows /\ e[1] \in e[2].ins
    <2> HIDE DEF rows
    <2> QED
      OBVIOUS
  <1> HIDE DEF points
  <1>5. IsBuild(build') /\ build'.pc = "idle" /\ build'.sweeps \cup build'.boards = {}
    BY <1>1, Zenon DEF NoBuild, IsBuild
  <1>6. ChainGrows
    BY <1>3, SameChain
  <1>7. IsChain' /\ IsStore'
    BY <1>1, <1>2, <1>3 DEF SweepInv, IsChain, IsStore
  <1>8. Watches'
    BY <1>1, <1>2, <1>3, <1>4, <1>5, Zenon DEF SweepInv, Watches, SweepsWatched
  <1>9. Ordered'
    <2>1. Covered(build.sweeps \cup build.boards, build.tip)'
      BY <1>5, Zenon DEF Covered
    <2> QED
      BY <1>1, <1>6, <2>1, CoveredStays, Zenon DEF SweepInv, Ordered
  <1>10. SweptIsSpent'
    BY <1>1, <1>6, SpentStays DEF SweepInv, SweptIsSpent
  <1> QED
    BY <1>5, <1>7, <1>8, <1>9, <1>10 DEF SweepInv

LEMMA SweepInvAlways == SweepSpec => []SweepInv
  <1>1. ASSUME SweepInv, SweepNext PROVE SweepInv'
    BY <1>1, MineKeeps, BuildKeeps, RoundKeeps, BoardKeeps, StoreSweepKeeps, BroadcastKeeps, ClearKeeps,
       RestartKeeps, Zenon DEF SweepNext, SweepStep
  <1>2. ASSUME SweepInv, UNCHANGED sweepVars PROVE SweepInv'
    BY <1>2 DEF sweepVars, SweepInv, IsChain, IsStore, Watches, SweepsWatched, Ordered, Covered, SweptIsSpent,
                IsMined, SweptBy, Spent
  <1> QED
    BY SweepInitInv, <1>1, <1>2, PTL DEF SweepSpec

(* Sweeps of expired rounds and boards, for any number of them: connectors  *)
(* are swept only after the tree output was swept deeply, a round or board  *)
(* recorded as swept has its output spent, every entry of the index has its *)
(* sweep, and a sweep with an open row is watched, across a restart.         *)
THEOREM SweeperSound ==
    SweepSpec => [](SweepTypeOK /\ ConnectorsLast /\ SweptIsSpent /\ PendingIndexed /\ SweepsWatched)
  <1>1. ASSUME SweepInv PROVE SweepTypeOK
    BY <1>1 DEF SweepInv, SweepTypeOK, IsChain, IsBuild, Watches
  <1>2. ASSUME SweepInv PROVE ConnectorsLast
    BY <1>2, Zenon DEF SweepInv, ConnectorsLast, Ordered, Covered, Watches
  <1>3. ASSUME SweepInv PROVE SweptIsSpent /\ PendingIndexed /\ SweepsWatched
    BY <1>3, Zenon DEF SweepInv, PendingIndexed, Watches
  <1> QED
    BY SweepInvAlways, <1>1, <1>2, <1>3, PTL

(***************************************************************************)
(* IntegrationTokens, for any tokens, callers and maximum.                 *)
(***************************************************************************)
TokenStates == {"none", "unused", "used", "abused", "disabled"}

TokRows == token \in [Tokens -> [status : TokenStates, expired : BOOLEAN, updated : Nat]]

TokConfigRow ==
    /\ tokConfig = [maximum |-> tokConfig.maximum, updated |-> tokConfig.updated]
    /\ tokConfig.updated \in Nat /\ ConfigChangesKept

TokCallRecords ==
    /\ DOMAIN tcall = TokenCallers
    /\ \A c \in TokenCallers :
           /\ tcall[c] = [pc |-> tcall[c].pc, left |-> tcall[c].left,
                          row |-> tcall[c].row, tok |-> tcall[c].tok]
           /\ tcall[c].left \in Nat
           /\ tcall[c].pc = "config" => tcall[c].left = MaximumOpen + tcall[c].row.updated

TokShape == TokRows /\ TokConfigRow /\ TokCallRecords

(* Open tokens, and the ones a call may still make, stay within the maximum. *)
OpenCounted ==
    /\ IsFiniteSet(OpenTokens)
    /\ tokMode.serial =>
        /\ Cardinality(OpenTokens) <= tokConfig.maximum
        /\ \A c \in TokenCallers : tcall[c].pc = "generate" =>
               Cardinality(OpenTokens) + tcall[c].left <= tokConfig.maximum
        /\ \A c, d \in TokenCallers :
               tcall[c].pc = "generate" /\ tcall[d].pc = "generate" => c = d

TokInv == TokShape /\ OpenCounted

LEMMA TokInitInv == TokInit => TokInv
  <1> SUFFICES ASSUME TokInit PROVE TokInv
    OBVIOUS
  <1>1. TokRows
    BY Zenon DEF TokInit, TokRows, NoToken, TokenStates
  <1>2. TokConfigRow
    BY TokenAssumption DEF TokInit, TokConfigRow, ConfigChangesKept
  <1>3. TokCallRecords
    BY Zenon DEF TokInit, TokCallRecords, NoTokenCall
  <1>4. OpenTokens = {}
    BY Zenon DEF TokInit, OpenTokens, NoToken
  <1> QED
    BY <1>1, <1>2, <1>3, <1>4, FS_EmptySet, TokenAssumption
       DEF TokInit, TokInv, TokShape, OpenCounted, NoTokenCall

LEMMA TokRowsStep == TokRows /\ [TokNext]_tokVars => TokRows'
  <1> SUFFICES ASSUME TokRows, [TokNext]_tokVars PROVE TokRows'
    OBVIOUS
  <1>1. ASSUME NEW c \in TokenCallers, NEW n \in 1 .. 2, GetTokens(c, n) PROVE TokRows'
    BY <1>1 DEF TokShape, TokRows, TokenStates, GetTokens
  <1>2. ASSUME NEW c \in TokenCallers, StoreToken(c) PROVE TokRows'
    BY <1>2 DEF TokShape, TokRows, TokenStates, StoreToken
  <1>3. ASSUME NEW c \in TokenCallers, GenerateEnds(c) PROVE TokRows'
    BY <1>3 DEF TokShape, TokRows, TokenStates, GenerateEnds, EndCall
  <1>4. ASSUME NEW c \in TokenCallers, NEW t \in Tokens, ReadToken(c, t) PROVE TokRows'
    BY <1>4, Zenon DEF TokShape, TokRows, TokenStates, ReadToken
  <1>5. ASSUME NEW c \in TokenCallers, NEW s \in {"unused", "used", "abused", "disabled"},
               UpdateToken(c, s)
        PROVE TokRows'
    <2> DEFINE t == tcall[c].tok
               row == [status |-> s, expired |-> token[t].expired, updated |-> token[t].updated + 1]
    <2>1. token' = token \/ token' = [token EXCEPT ![t] = row]
      BY <1>5, Zenon DEF UpdateToken
    <2>2. ASSUME t \in Tokens PROVE row \in [status : TokenStates, expired : BOOLEAN, updated : Nat]
      BY <2>2 DEF TokRows, TokenStates
    <2> HIDE DEF row, t
    <2> QED
      BY <2>1, <2>2, Zenon DEF TokRows
  <1>6. ASSUME NEW c \in TokenCallers, NEW s \in {"unused", "used", "abused", "disabled"},
               UpdateRefused(c, s)
        PROVE TokRows'
    BY <1>6 DEF TokShape, TokRows, TokenStates, UpdateRefused, EndCall
  <1>7. ASSUME NEW c \in TokenCallers, ReadConfig(c) PROVE TokRows'
    BY <1>7 DEF TokShape, TokRows, TokenStates, ReadConfig, NoToken
  <1>8. ASSUME NEW c \in TokenCallers, DeleteKey(c) PROVE TokRows'
    BY <1>8 DEF TokShape, TokRows, TokenStates, DeleteKey, EndCall
  <1>9. ASSUME NEW c \in TokenCallers, UpdateConfig(c) PROVE TokRows'
    BY <1>9, Zenon DEF TokShape, TokRows, TokenStates, UpdateConfig, EndCall
  <1>10. ASSUME NEW t \in Tokens, ExpireToken(t) PROVE TokRows'
    BY <1>10, Zenon DEF TokRows, ExpireToken
  <1>11. CASE UNCHANGED tokVars
    BY <1>11, Zenon DEF TokShape, TokRows, TokenStates, tokVars
  <1> QED
    BY <1>1, <1>2, <1>3, <1>4, <1>5, <1>6, <1>7, <1>8, <1>9, <1>10, <1>11, Zenon DEF TokNext

LEMMA TokConfigStep == TokShape /\ [TokNext]_tokVars => TokConfigRow'
  <1> SUFFICES ASSUME TokShape, [TokNext]_tokVars PROVE TokConfigRow'
    BY Zenon
  <1>1. ASSUME NEW c \in TokenCallers, NEW n \in 1 .. 2, GetTokens(c, n) PROVE TokConfigRow'
    BY <1>1 DEF TokShape, TokConfigRow, ConfigChangesKept, GetTokens
  <1>2. ASSUME NEW c \in TokenCallers, StoreToken(c) PROVE TokConfigRow'
    BY <1>2 DEF TokShape, TokConfigRow, ConfigChangesKept, StoreToken
  <1>3. ASSUME NEW c \in TokenCallers, GenerateEnds(c) PROVE TokConfigRow'
    BY <1>3 DEF TokShape, TokConfigRow, ConfigChangesKept, GenerateEnds, EndCall
  <1>4. ASSUME NEW c \in TokenCallers, NEW t \in Tokens, ReadToken(c, t) PROVE TokConfigRow'
    BY <1>4, Zenon DEF TokShape, TokConfigRow, ConfigChangesKept, ReadToken
  <1>5. ASSUME NEW c \in TokenCallers, NEW s \in {"unused", "used", "abused", "disabled"},
               UpdateToken(c, s)
        PROVE TokConfigRow'
    BY <1>5, Zenon DEF TokShape, TokConfigRow, ConfigChangesKept, UpdateToken, EndCall
  <1>6. ASSUME NEW c \in TokenCallers, NEW s \in {"unused", "used", "abused", "disabled"},
               UpdateRefused(c, s)
        PROVE TokConfigRow'
    BY <1>6 DEF TokShape, TokConfigRow, ConfigChangesKept, UpdateRefused, EndCall
  <1>7. ASSUME NEW c \in TokenCallers, ReadConfig(c) PROVE TokConfigRow'
    BY <1>7 DEF TokShape, TokConfigRow, ConfigChangesKept, ReadConfig, NoToken
  <1>8. ASSUME NEW c \in TokenCallers, DeleteKey(c) PROVE TokConfigRow'
    BY <1>8, Zenon DEF TokShape, TokConfigRow, ConfigChangesKept, DeleteKey, EndCall
  <1>9. ASSUME NEW c \in TokenCallers, UpdateConfig(c) PROVE TokConfigRow'
    <2>1. CASE tokConfig.updated # tcall[c].row.updated
      BY <1>9, <2>1, Zenon DEF TokShape, TokConfigRow, ConfigChangesKept, UpdateConfig
    <2>2. CASE tokConfig.updated = tcall[c].row.updated
      <3> DEFINE u == tokConfig.updated
                 l == tcall[c].left
      <3>1. u \in Nat /\ l = MaximumOpen + u /\ MaximumOpen \in Nat
        BY <1>9, <2>2, TokenAssumption, Zenon DEF TokShape, TokConfigRow, TokCallRecords, UpdateConfig
      <3>2. tokConfig' = [maximum |-> l + 1, updated |-> u + 1]
        BY <1>9, <2>2 DEF UpdateConfig
      <3> HIDE DEF u, l
      <3> QED
        BY <3>1, <3>2 DEF TokConfigRow, ConfigChangesKept
    <2> QED
      BY <2>1, <2>2, Zenon
  <1>10. ASSUME NEW t \in Tokens, ExpireToken(t) PROVE TokConfigRow'
    BY <1>10, Zenon DEF TokShape, TokConfigRow, ConfigChangesKept, ExpireToken
  <1>11. CASE UNCHANGED tokVars
    BY <1>11 DEF TokShape, TokConfigRow, ConfigChangesKept, tokVars
  <1> QED
    BY <1>1, <1>2, <1>3, <1>4, <1>5, <1>6, <1>7, <1>8, <1>9, <1>10, <1>11 DEF TokNext

LEMMA TokCallsStep == TokInv /\ [TokNext]_tokVars => TokCallRecords'
  <1> SUFFICES ASSUME TokInv, [TokNext]_tokVars PROVE TokCallRecords'
    OBVIOUS
  <1>1. ASSUME NEW c \in TokenCallers, NEW n \in 1 .. 2, GetTokens(c, n) PROVE TokCallRecords'
    <2> DEFINE allowed == tokConfig.maximum - Cardinality(OpenTokens)
               left == IF allowed > n THEN n ELSE allowed
    <2>1. /\ DOMAIN tcall' = TokenCallers
          /\ tcall'[c] = [pc |-> "generate", left |-> left, row |-> NoToken, tok |-> NoTokenCall.tok]
          /\ \A d \in TokenCallers : d # c => tcall'[d] = tcall[d]
      BY <1>1, Zenon DEF TokInv, TokShape, TokCallRecords, GetTokens, NoTokenCall
    <2>2. Cardinality(OpenTokens) \in Nat /\ tokConfig.maximum \in Nat
      BY TokenAssumption, FS_CardinalityType
         DEF TokInv, OpenCounted, TokShape, TokConfigRow, ConfigChangesKept
    <2>3. left \in Nat
      BY <1>1, <2>2 DEF GetTokens
    <2> HIDE DEF left
    <2> QED
      BY <2>1, <2>3 DEF TokInv, TokShape, TokCallRecords
  <1>2. ASSUME NEW c \in TokenCallers, StoreToken(c) PROVE TokCallRecords'
    <2>1. tcall' = [tcall EXCEPT ![c].left = @ - 1]
      BY <1>2, Zenon DEF StoreToken
    <2>2. /\ DOMAIN tcall' = TokenCallers
          /\ tcall'[c] = [pc |-> "generate", left |-> tcall[c].left - 1,
                          row |-> tcall[c].row, tok |-> tcall[c].tok]
          /\ \A d \in TokenCallers : d # c => tcall'[d] = tcall[d]
      BY <1>2, <2>1 DEF TokInv, TokShape, TokCallRecords, StoreToken
    <2>3. tcall[c].left - 1 \in Nat
      BY <1>2 DEF TokInv, TokShape, TokCallRecords, StoreToken
    <2> QED
      BY <2>2, <2>3 DEF TokInv, TokShape, TokCallRecords
  <1>3. ASSUME NEW c \in TokenCallers, GenerateEnds(c) PROVE TokCallRecords'
    BY <1>3 DEF TokInv, TokShape, TokCallRecords, GenerateEnds, EndCall
  <1>4. ASSUME NEW c \in TokenCallers, NEW t \in Tokens, ReadToken(c, t) PROVE TokCallRecords'
    <2>1. /\ DOMAIN tcall' = TokenCallers
          /\ tcall'[c] = [pc |-> "check", left |-> 0, row |-> token[t], tok |-> t]
          /\ \A d \in TokenCallers : d # c => tcall'[d] = tcall[d]
      BY <1>4, Zenon DEF TokInv, TokShape, TokCallRecords, ReadToken, NoTokenCall
    <2> QED
      BY <2>1 DEF TokInv, TokShape, TokCallRecords
  <1>5. ASSUME NEW c \in TokenCallers, NEW s \in {"unused", "used", "abused", "disabled"},
               UpdateToken(c, s)
        PROVE TokCallRecords'
    BY <1>5 DEF TokInv, TokShape, TokCallRecords, UpdateToken, EndCall
  <1>6. ASSUME NEW c \in TokenCallers, NEW s \in {"unused", "used", "abused", "disabled"},
               UpdateRefused(c, s)
        PROVE TokCallRecords'
    BY <1>6 DEF TokInv, TokShape, TokCallRecords, UpdateRefused, EndCall
  <1>7. ASSUME NEW c \in TokenCallers, ReadConfig(c) PROVE TokCallRecords'
    <2> DEFINE row == [NoToken EXCEPT !.updated = tokConfig.updated]
    <2>1. /\ DOMAIN tcall' = TokenCallers
          /\ tcall'[c] = [pc |-> "config", left |-> tokConfig.maximum, row |-> row, tok |-> NoTokenCall.tok]
          /\ \A d \in TokenCallers : d # c => tcall'[d] = tcall[d]
      BY <1>7, Zenon DEF TokInv, TokShape, TokCallRecords, ReadConfig, NoTokenCall
    <2>2. row.updated = tokConfig.updated
      BY DEF NoToken
    <2>3. tokConfig.maximum = MaximumOpen + tokConfig.updated /\ tokConfig.maximum \in Nat
      BY TokenAssumption DEF TokInv, TokShape, TokConfigRow, ConfigChangesKept
    <2> HIDE DEF row
    <2> QED
      BY <2>1, <2>2, <2>3 DEF TokInv, TokShape, TokCallRecords
  <1>8. ASSUME NEW c \in TokenCallers, DeleteKey(c) PROVE TokCallRecords'
    BY <1>8 DEF TokInv, TokShape, TokCallRecords, DeleteKey, EndCall
  <1>9. ASSUME NEW c \in TokenCallers, UpdateConfig(c) PROVE TokCallRecords'
    BY <1>9 DEF TokInv, TokShape, TokCallRecords, UpdateConfig, EndCall
  <1>10. ASSUME NEW t \in Tokens, ExpireToken(t) PROVE TokCallRecords'
    BY <1>10 DEF TokInv, TokShape, TokCallRecords, ExpireToken
  <1>11. CASE UNCHANGED tokVars
    BY <1>11, Zenon DEF TokInv, TokShape, TokCallRecords, tokVars
  <1> QED
    BY <1>1, <1>2, <1>3, <1>4, <1>5, <1>6, <1>7, <1>8, <1>9, <1>10, <1>11 DEF TokNext

(* A call that ends, or begins without generating. *)
LEMMA FewerOpen ==
    ASSUME TokInv, tokMode' = tokMode, OpenTokens' \subseteq OpenTokens, TokShape',
           tokConfig'.maximum >= tokConfig.maximum,
           \A c \in TokenCallers : tcall'[c].pc = "generate" => tcall'[c] = tcall[c]
    PROVE  OpenCounted'
  <1>1. IsFiniteSet(OpenTokens') /\ Cardinality(OpenTokens') <= Cardinality(OpenTokens)
    BY FS_Subset, Zenon DEF TokInv, OpenCounted
  <1>2. Cardinality(OpenTokens) \in Nat /\ Cardinality(OpenTokens') \in Nat
    BY <1>1, FS_CardinalityType, Zenon DEF TokInv, OpenCounted
  <1>3. tokConfig.maximum \in Nat /\ tokConfig'.maximum \in Nat
    BY TokenAssumption DEF TokInv, TokShape, TokConfigRow, ConfigChangesKept
  <1>4. \A c \in TokenCallers : tcall[c].left \in Nat
    BY DEF TokInv, TokShape, TokCallRecords
  <1> QED
    BY <1>1, <1>2, <1>3, <1>4 DEF TokInv, OpenCounted

LEMMA OpenStep == TokInv /\ TokShape' /\ [TokNext]_tokVars => OpenCounted'
  <1> SUFFICES ASSUME TokInv, TokShape', [TokNext]_tokVars PROVE OpenCounted'
    BY Zenon
  <1>0. /\ Cardinality(OpenTokens) \in Nat /\ tokConfig.maximum \in Nat
        /\ \A c \in TokenCallers : tcall[c].left \in Nat
    BY FS_CardinalityType, TokenAssumption
       DEF TokInv, OpenCounted, TokShape, TokConfigRow, ConfigChangesKept, TokCallRecords
  <1>1. ASSUME NEW c \in TokenCallers, NEW n \in 1 .. 2, GetTokens(c, n) PROVE OpenCounted'
    <2>1. OpenTokens' = OpenTokens /\ tokConfig' = tokConfig /\ tokMode' = tokMode
      BY <1>1 DEF GetTokens, OpenTokens
    <2>2. /\ tcall'[c].pc = "generate"
          /\ tcall'[c].left = IF tokConfig.maximum - Cardinality(OpenTokens) > n THEN n
                              ELSE tokConfig.maximum - Cardinality(OpenTokens)
          /\ \A d \in TokenCallers : d # c => tcall'[d] = tcall[d]
      BY <1>1, Zenon DEF GetTokens, NoTokenCall, TokInv, TokShape, TokCallRecords
    <2>3. Cardinality(OpenTokens) + tcall'[c].left <= tokConfig.maximum
      BY <1>0, <1>1, <2>2 DEF GetTokens
    <2>4. tokMode.serial => \A d \in TokenCallers : tcall[d].pc # "generate"
      BY <1>1, Zenon DEF GetTokens
    <2> QED
      BY <2>1, <2>2, <2>3, <2>4, Zenon DEF TokInv, OpenCounted
  <1>2. ASSUME NEW c \in TokenCallers, StoreToken(c) PROVE OpenCounted'
    <2>1. PICK t \in Tokens : /\ token[t].status = "none"
                              /\ token' = [token EXCEPT ![t].status = "unused"]
                              /\ tcall' = [tcall EXCEPT ![c].left = @ - 1]
      BY <1>2, Zenon DEF StoreToken
    <2>2. OpenTokens' \subseteq OpenTokens \cup {t} /\ t \notin OpenTokens
      BY <2>1, Zenon DEF OpenTokens, TokInv, TokShape, TokRows
    <2>6. IsFiniteSet(OpenTokens \cup {t})
          /\ Cardinality(OpenTokens \cup {t}) = Cardinality(OpenTokens) + 1
      BY <2>2, FS_AddElement, Zenon DEF TokInv, OpenCounted
    <2>7. IsFiniteSet(OpenTokens') /\ Cardinality(OpenTokens') <= Cardinality(OpenTokens \cup {t})
      BY <2>2, <2>6, FS_Subset, Zenon
    <2>3. IsFiniteSet(OpenTokens') /\ Cardinality(OpenTokens') <= Cardinality(OpenTokens) + 1
          /\ Cardinality(OpenTokens') \in Nat
      BY <2>6, <2>7, FS_CardinalityType, Zenon
    <2>4. /\ tcall'[c].pc = "generate" /\ tcall'[c].left = tcall[c].left - 1
          /\ \A d \in TokenCallers : d # c => tcall'[d] = tcall[d]
      BY <1>2, <2>1 DEF StoreToken, TokInv, TokShape, TokCallRecords
    <2>5. tcall[c].pc = "generate" /\ tcall[c].left > 0 /\ tokConfig' = tokConfig /\ tokMode' = tokMode
      BY <1>2, Zenon DEF StoreToken
    <2> QED
      BY <1>0, <2>3, <2>4, <2>5 DEF TokInv, OpenCounted
  <1>3. ASSUME NEW c \in TokenCallers, GenerateEnds(c) PROVE OpenCounted'
    <2>1. OpenTokens' = OpenTokens /\ tokMode' = tokMode /\ tokConfig' = tokConfig
      BY <1>3, Zenon DEF GenerateEnds, EndCall, OpenTokens
    <2>2. \A d \in TokenCallers : tcall'[d].pc = "generate" => tcall'[d] = tcall[d]
      BY <1>3, Zenon DEF GenerateEnds, EndCall, TokInv, TokShape, TokCallRecords
    <2> QED
      BY <1>0, <2>1, <2>2, FewerOpen
  <1>4. ASSUME NEW c \in TokenCallers, NEW t \in Tokens, ReadToken(c, t) PROVE OpenCounted'
    <2>1. OpenTokens' = OpenTokens /\ tokMode' = tokMode /\ tokConfig' = tokConfig
      BY <1>4, Zenon DEF ReadToken, OpenTokens
    <2>2. \A d \in TokenCallers : tcall'[d].pc = "generate" => tcall'[d] = tcall[d]
      BY <1>4 DEF ReadToken, TokInv, TokShape, TokCallRecords
    <2> QED
      BY <1>0, <2>1, <2>2, FewerOpen
  <1>6. ASSUME NEW c \in TokenCallers, NEW s \in {"unused", "used", "abused", "disabled"},
               UpdateRefused(c, s)
        PROVE OpenCounted'
    <2>1. OpenTokens' = OpenTokens /\ tokMode' = tokMode /\ tokConfig' = tokConfig
      BY <1>6, Zenon DEF UpdateRefused, EndCall, OpenTokens
    <2>2. \A d \in TokenCallers : tcall'[d].pc = "generate" => tcall'[d] = tcall[d]
      BY <1>6, Zenon DEF UpdateRefused, EndCall, TokInv, TokShape, TokCallRecords
    <2> QED
      BY <1>0, <2>1, <2>2, FewerOpen
  <1>7. ASSUME NEW c \in TokenCallers, ReadConfig(c) PROVE OpenCounted'
    <2>1. OpenTokens' = OpenTokens /\ tokMode' = tokMode /\ tokConfig' = tokConfig
      BY <1>7, Zenon DEF ReadConfig, NoToken, OpenTokens
    <2>2. \A d \in TokenCallers : tcall'[d].pc = "generate" => tcall'[d] = tcall[d]
      BY <1>7 DEF ReadConfig, NoToken, TokInv, TokShape, TokCallRecords
    <2> QED
      BY <1>0, <2>1, <2>2, FewerOpen
  <1>8. ASSUME NEW c \in TokenCallers, DeleteKey(c) PROVE OpenCounted'
    <2>1. OpenTokens' = OpenTokens /\ tokMode' = tokMode /\ tokConfig' = tokConfig
      BY <1>8, Zenon DEF DeleteKey, EndCall, OpenTokens
    <2>2. \A d \in TokenCallers : tcall'[d].pc = "generate" => tcall'[d] = tcall[d]
      BY <1>8, Zenon DEF DeleteKey, EndCall, TokInv, TokShape, TokCallRecords
    <2> QED
      BY <1>0, <2>1, <2>2, FewerOpen
  <1>5. ASSUME NEW c \in TokenCallers, NEW s \in {"unused", "used", "abused", "disabled"},
               UpdateToken(c, s)
        PROVE  OpenCounted'
    <2>1. s # "unused"
      BY <1>5, Zenon DEF UpdateToken, MayBecome
    <2>2. OpenTokens' \subseteq OpenTokens
      BY <1>5, <2>1, Zenon DEF UpdateToken, OpenTokens, TokInv, TokShape, TokRows
    <2>3. \A d \in TokenCallers : tcall'[d].pc = "generate" => tcall'[d] = tcall[d]
      BY <1>5, Zenon DEF UpdateToken, EndCall, TokInv, TokShape, TokCallRecords
    <2> QED
      BY <1>0, <1>5, <2>2, <2>3, FewerOpen DEF UpdateToken
  <1>9. ASSUME NEW c \in TokenCallers, UpdateConfig(c) PROVE OpenCounted'
    <2>1. OpenTokens' = OpenTokens /\ tokMode' = tokMode
      BY <1>9, Zenon DEF UpdateConfig, OpenTokens
    <2>2. tokConfig'.maximum >= tokConfig.maximum
      <3>1. tokConfig.updated \in Nat /\ tokConfig.maximum = MaximumOpen + tokConfig.updated
        BY Zenon DEF TokInv, TokShape, TokConfigRow, ConfigChangesKept
      <3>2. tcall[c].left = MaximumOpen + tcall[c].row.updated
        BY <1>9, Zenon DEF UpdateConfig, TokInv, TokShape, TokCallRecords
      <3>3. \/ tokConfig' = tokConfig
            \/ tokConfig.updated = tcall[c].row.updated /\ tokConfig'.maximum = tcall[c].left + 1
        BY <1>9 DEF UpdateConfig
      <3> QED
        BY <1>0, <3>1, <3>2, <3>3, TokenAssumption
    <2>3. \A d \in TokenCallers : tcall'[d].pc = "generate" => tcall'[d] = tcall[d]
      BY <1>9 DEF UpdateConfig, EndCall, TokInv, TokShape, TokCallRecords
    <2> QED
      BY <2>1, <2>2, <2>3, FewerOpen, Zenon
  <1>10. ASSUME NEW t \in Tokens, ExpireToken(t) PROVE OpenCounted'
    <2>1. OpenTokens' \subseteq OpenTokens
      BY <1>10, Zenon DEF ExpireToken, OpenTokens, TokInv, TokShape, TokRows
    <2> QED
      BY <1>0, <1>10, <2>1, FewerOpen DEF ExpireToken
  <1>11. CASE UNCHANGED tokVars
    BY <1>11 DEF TokInv, OpenCounted, OpenTokens, tokVars
  <1> QED
    BY <1>1, <1>2, <1>3, <1>4, <1>5, <1>6, <1>7, <1>8, <1>9, <1>10, <1>11, Zenon DEF TokNext

LEMMA TokInvAlways == TokSpec => []TokInv
  <1>1. TokInv /\ [TokNext]_tokVars => TokInv'
    BY TokRowsStep, TokConfigStep, TokCallsStep, OpenStep DEF TokInv, TokShape
  <1> QED
    BY <1>1, TokInitInv, PTL DEF TokSpec

(* If calls for new tokens do not overlap, there are never more open tokens *)
(* than the maximum, whatever else updates tokens and the configuration at  *)
(* the same time; and no change of the configuration is lost.               *)
THEOREM TokensSound == TokSpec => [](OpenBounded /\ ConfigChangesKept)
  <1>1. TokInv => OpenBounded /\ ConfigChangesKept
    BY DEF TokInv, TokShape, TokConfigRow, OpenCounted, OpenBounded
  <1> QED
    BY <1>1, TokInvAlways, PTL

(***************************************************************************)
(* ServerWallet, for any outputs, any number of attempts and any callers   *)
(* of sync_wallets.                                                        *)
(***************************************************************************)
(* The records, and the mutex: an attempt holds it while it is signed. *)
WalShape ==
    /\ wal = [known |-> wal.known, stored |-> wal.stored, faults |-> wal.faults,
              crashed |-> wal.crashed]
    /\ attempt = [phase |-> attempt.phase, seq |-> attempt.seq, guard |-> attempt.guard,
                  used |-> attempt.used]
    /\ attempt.phase \in {"none", "collect", "sign", "broadcast"} /\ attempt.seq \in Nat
    /\ fw = [short |-> fw.short, funded |-> fw.funded]
    /\ syncs \in [SyncCallers -> {"idle", "send", "broadcast"}]
    /\ mutex # "none" <=> attempt.phase = "sign"
    /\ walMode.callers \subseteq SyncCallers

(* What the wallet knows: no output has two spends. Without faults it is    *)
(* stored, and without a restart after a fault it covers what was sent.     *)
Ledgers ==
    /\ \A t \in wal.known : t.input \in Utxos
    /\ \A s, t \in wal.known : s.input = t.input => s = t
    /\ wal.stored \subseteq wal.known
    /\ ~walMode.faulty => wal.stored = wal.known
    /\ ~(walMode.faulty /\ walMode.crash) => sent \subseteq wal.known
    /\ attempt.phase = "broadcast" => [by |-> "round", input |-> attempt.guard] \in wal.known

(* The common input of a round's attempts: locked from its first use until  *)
(* it is used again, and not spent while an attempt that uses it is signed. *)
CommonInput ==
    /\ index \subseteq Utxos
    /\ attempt.guard \in Utxos \cup {NoUtxo}
    /\ attempt.used = {attempt.guard} \ {NoUtxo}
    /\ attempt.phase \in {"sign", "broadcast"} => attempt.guard # NoUtxo
    /\ attempt.phase = "sign" => attempt.guard \notin KnownSpent
    /\ attempt.phase = "sign" /\ attempt.seq = 0 => attempt.guard \in index
    /\ attempt.phase = "collect" /\ attempt.seq = 0 => attempt.guard = NoUtxo
    /\ attempt.phase = "collect" /\ attempt.seq < 2 /\ attempt.guard # NoUtxo =>
           attempt.guard \in index /\ attempt.guard \notin KnownSpent

(* One caller without faults: it sends only while nothing was sent, and the *)
(* forfeit wallet is short only while nothing has arrived.                  *)
KnownSends == {t \in wal.known : t.by = "send"}
Orderly == Cardinality(walMode.callers) = 1 /\ ~walMode.faulty /\ ~walMode.crash
Funding ==
    Orderly =>
        /\ \A c \in SyncCallers : c \notin walMode.callers => syncs[c] = "idle"
        /\ \A c \in SyncCallers : syncs[c] = "send" => KnownSends = {}
        /\ fw.short /\ KnownSends # {} => \E c \in SyncCallers : syncs[c] = "broadcast"
        /\ \A s, t \in KnownSends : s = t

WalInv == WalShape /\ Ledgers /\ CommonInput /\ Funding

(* A spend that is committed to the wallet is known from then on; it is     *)
(* stored unless the database fails.                                        *)
LEMMA Committed ==
    ASSUME WalShape, NEW tx,
           LET w == [wal EXCEPT !.known = @ \cup {tx}]
           IN wal' = Persisted(w) \/ (MayFail /\ wal' = Failed(w))
    PROVE  /\ wal' = [known |-> wal'.known, stored |-> wal'.stored, faults |-> wal'.faults,
                      crashed |-> wal'.crashed]
           /\ wal'.known = wal.known \cup {tx}
           /\ \/ wal'.stored = wal'.known
              \/ walMode.faulty /\ wal'.stored = wal.stored
  BY Zenon DEF WalShape, Persisted, Failed, MayFail

LEMMA KnownGrows ==
    ASSUME NEW tx, wal'.known = wal.known \cup {tx}
    PROVE  KnownSpent' = KnownSpent \cup {tx.input}
  BY Zenon DEF KnownSpent

(* One new spend, of an output that was not spent. *)
LEMMA NewSpend ==
    ASSUME WalInv, NEW tx, tx.input \in Utxos \ KnownSpent, walMode' = walMode,
           wal'.known = wal.known \cup {tx},
           wal'.stored = wal'.known \/ (walMode.faulty /\ wal'.stored = wal.stored),
           sent' \subseteq sent \cup {tx},
           attempt'.phase = "broadcast" =>
               [by |-> "round", input |-> attempt'.guard] \in wal'.known
    PROVE  Ledgers' /\ KnownSpent' = KnownSpent \cup {tx.input}
  <1>1. \A t \in wal.known : t.input # tx.input
    BY DEF KnownSpent
  <1>2. KnownSpent' = KnownSpent \cup {tx.input}
    BY KnownGrows, Zenon
  <1> QED
    BY <1>1, <1>2 DEF WalInv, Ledgers

LEMMA OneCaller ==
    ASSUME WalShape, Orderly
    PROVE  \E c \in SyncCallers : walMode.callers = {c}
  <1>1. IsFiniteSet(walMode.callers)
    BY WalAssumption, FS_Subset, Zenon DEF WalShape
  <1>2. PICK c : walMode.callers = {c}
    BY <1>1, FS_Singleton, Zenon DEF Orderly
  <1> QED
    BY <1>2, Zenon DEF WalShape

LEMMA WalInitInv == WalInit => WalInv
  <1> SUFFICES ASSUME WalInit PROVE WalInv
    BY Zenon
  <1>1. WalShape
    BY WalAssumption DEF WalInit, WalShape, NoRound
  <1>2. Ledgers
    BY DEF WalInit, Ledgers, NoRound
  <1>3. CommonInput
    BY Zenon DEF WalInit, CommonInput, NoRound
  <1>4. Funding
    BY DEF WalInit, Funding, KnownSends
  <1> QED
    BY <1>1, <1>2, <1>3, <1>4, Zenon DEF WalInv

LEMMA WalShapeStep == WalShape /\ [WalNext]_walVars => WalShape'
  <1> SUFFICES ASSUME WalShape, [WalNext]_walVars PROVE WalShape'
    OBVIOUS
  <1>1. CASE RoundStarts
    BY <1>1, Zenon DEF WalShape, RoundStarts, NoRound
  <1>2. ASSUME NEW u \in Utxos, BuildFirst(u) PROVE WalShape'
    BY <1>2, Zenon DEF WalShape, BuildFirst
  <1>3. CASE BuildAgain
    BY <1>3, Zenon DEF WalShape, BuildAgain
  <1>4. CASE RoundAbandoned
    BY <1>4 DEF WalShape, RoundAbandoned, NoRound
  <1>5. CASE RoundRestarts
    <2>1. attempt' = [phase |-> "collect", seq |-> attempt.seq + 1, guard |-> attempt.guard,
                      used |-> attempt.used]
      BY <1>5, Zenon DEF WalShape, RoundRestarts
    <2>2. attempt.seq + 1 \in Nat
      BY DEF WalShape
    <2> QED
      BY <1>5, <2>1, <2>2, Zenon DEF WalShape, RoundRestarts
  <1>6. CASE RoundCommits
    BY <1>6, Committed, Zenon DEF WalShape, RoundCommits
  <1>7. CASE RoundBroadcasts
    BY <1>7 DEF WalShape, RoundBroadcasts, NoRound
  <1>8. ASSUME NEW u \in Utxos, IssuePool(u) PROVE WalShape'
    BY <1>8, Committed, Zenon DEF WalShape, IssuePool
  <1>9. ASSUME NEW c \in SyncCallers, SyncReads(c) \/ SyncSeen(c) \/ SyncFails(c) PROVE WalShape'
    BY <1>9 DEF WalShape, SyncReads, SyncSeen, SyncFails
  <1>10. ASSUME NEW c \in SyncCallers, NEW u \in Utxos, SyncSends(c, u) PROVE WalShape'
    BY <1>10, Committed, Zenon DEF WalShape, SyncSends
  <1>11. CASE SyncWallet
    BY <1>11, Zenon DEF WalShape, SyncWallet, Persisted
  <1>12. CASE RestartWallet
    BY <1>12, Zenon DEF WalShape, RestartWallet, NoRound
  <1>13. CASE UNCHANGED walVars
    BY <1>13 DEF WalShape, walVars
  <1> QED
    BY <1>1, <1>2, <1>3, <1>4, <1>5, <1>6, <1>7, <1>8, <1>9, <1>10, <1>11, <1>12, <1>13, Zenon DEF WalNext

(* Spends come from Spendable, or are the common input of a signed attempt. *)
LEMMA LedgersStep == WalInv /\ WalShape' /\ [WalNext]_walVars => Ledgers'
  <1> SUFFICES ASSUME WalInv, WalShape', [WalNext]_walVars PROVE Ledgers'
    OBVIOUS
  <1>1. CASE RoundStarts
    BY <1>1, Zenon DEF WalInv, WalShape, Ledgers, CommonInput, KnownSpent, RoundStarts, NoRound
  <1>2. ASSUME NEW u \in Utxos, BuildFirst(u) PROVE Ledgers'
    BY <1>2, Zenon DEF WalInv, WalShape, Ledgers, CommonInput, KnownSpent, BuildFirst, Spendable, LockWalletUtxo
  <1>3. CASE BuildAgain
    BY <1>3, Zenon DEF WalInv, WalShape, Ledgers, CommonInput, KnownSpent, BuildAgain, GuardDropped
  <1>4. CASE RoundAbandoned
    BY <1>4, Zenon DEF WalInv, WalShape, Ledgers, CommonInput, KnownSpent, RoundAbandoned, NoRound, GuardDropped
  <1>5. CASE RoundRestarts
    BY <1>5, Zenon DEF WalInv, WalShape, Ledgers, CommonInput, KnownSpent, RoundRestarts
  <1>6. CASE RoundCommits
    <2> DEFINE tx == [by |-> "round", input |-> attempt.guard]
    <2>1. attempt'.phase = "broadcast" /\ attempt'.guard = attempt.guard
      BY <1>6, Zenon DEF WalInv, WalShape, RoundCommits
    <2>2. wal'.known = wal.known \cup {tx}
          /\ (wal'.stored = wal'.known \/ (walMode.faulty /\ wal'.stored = wal.stored))
      BY <1>6, Committed, Zenon DEF WalInv, RoundCommits
    <2>3. tx.input \in Utxos \ KnownSpent
      BY <1>6, Zenon DEF WalInv, CommonInput, RoundCommits
    <2> QED
      BY <1>6, <2>1, <2>2, <2>3, NewSpend, Zenon DEF RoundCommits
  <1>7. CASE RoundBroadcasts
    BY <1>7 DEF WalInv, WalShape, Ledgers, CommonInput, KnownSpent, RoundBroadcasts, NoRound, GuardDropped
  <1>8. ASSUME NEW u \in Utxos, IssuePool(u) PROVE Ledgers'
    <2> DEFINE tx == [by |-> "pool", input |-> u]
    <2>1. wal'.known = wal.known \cup {tx}
          /\ (wal'.stored = wal'.known \/ (walMode.faulty /\ wal'.stored = wal.stored))
      BY <1>8, Committed, Zenon DEF WalInv, IssuePool
    <2>2. attempt' = attempt /\ walMode' = walMode /\ sent' \subseteq sent \cup {tx}
      BY <1>8 DEF IssuePool
    <2>3. tx.input \in Utxos \ KnownSpent
      BY <1>8 DEF IssuePool, Spendable
    <2> HIDE DEF tx
    <2> QED
      BY <2>1, <2>2, <2>3, NewSpend, Zenon DEF WalInv, Ledgers
  <1>9. ASSUME NEW c \in SyncCallers, SyncReads(c) \/ SyncSeen(c) \/ SyncFails(c) PROVE Ledgers'
    BY <1>9, Zenon DEF WalInv, WalShape, Ledgers, CommonInput, KnownSpent, SyncReads, SyncSeen, SyncFails
  <1>10. ASSUME NEW c \in SyncCallers, NEW u \in Utxos, SyncSends(c, u) PROVE Ledgers'
    <2> DEFINE tx == [by |-> "send", input |-> u]
    <2>1. wal'.known = wal.known \cup {tx}
          /\ (wal'.stored = wal'.known \/ (walMode.faulty /\ wal'.stored = wal.stored))
      BY <1>10, Committed, Zenon DEF WalInv, SyncSends
    <2>2. attempt' = attempt /\ walMode' = walMode /\ sent' \subseteq sent \cup {tx}
      BY <1>10, Zenon DEF SyncSends
    <2>3. tx.input \in Utxos \ KnownSpent
      BY <1>10 DEF SyncSends, Spendable
    <2> HIDE DEF tx
    <2> QED
      BY <2>1, <2>2, <2>3, NewSpend, Zenon DEF WalInv, Ledgers
  <1>11. CASE SyncWallet
    BY <1>11 DEF WalInv, WalShape, Ledgers, CommonInput, KnownSpent, SyncWallet, Persisted
  <1>12. CASE RestartWallet
    BY <1>12, Zenon DEF WalInv, WalShape, Ledgers, CommonInput, KnownSpent, RestartWallet, NoRound
  <1>13. CASE UNCHANGED walVars
    BY <1>13 DEF WalInv, WalShape, Ledgers, CommonInput, KnownSpent, walVars
  <1> QED
    BY <1>1, <1>2, <1>3, <1>4, <1>5, <1>6, <1>7, <1>8, <1>9, <1>10, <1>11, <1>12, <1>13 DEF WalNext

(* Others spend nothing that is locked, and nothing while an attempt is signed. *)
LEMMA CommonInputStep == WalInv /\ WalShape' /\ [WalNext]_walVars => CommonInput'
  <1> SUFFICES ASSUME WalInv, WalShape', [WalNext]_walVars PROVE CommonInput'
    OBVIOUS
  <1>1. CASE RoundStarts
    BY <1>1, Zenon DEF WalInv, WalShape, CommonInput, Ledgers, KnownSpent, RoundStarts, NoRound
  <1>2. ASSUME NEW u \in Utxos, BuildFirst(u) PROVE CommonInput'
    <2>1. attempt' = [phase |-> "sign", seq |-> attempt.seq, guard |-> u, used |-> attempt.used \cup {u}]
          /\ index' = index \cup {u} /\ wal' = wal
      BY <1>2 DEF WalInv, WalShape, BuildFirst, LockWalletUtxo
    <2>2. attempt.used = {} /\ u # NoUtxo /\ u \notin KnownSpent
      BY <1>2, WalAssumption, Zenon DEF WalInv, CommonInput, BuildFirst, Spendable
    <2> QED
      BY <2>1, <2>2 DEF WalInv, CommonInput, KnownSpent
  <1>3. CASE BuildAgain
    BY <1>3 DEF WalInv, WalShape, CommonInput, Ledgers, KnownSpent, BuildAgain, GuardDropped
  <1>4. CASE RoundAbandoned
    BY <1>4, Zenon DEF WalInv, WalShape, CommonInput, Ledgers, KnownSpent, RoundAbandoned, NoRound, GuardDropped
  <1>5. CASE RoundRestarts
    BY <1>5 DEF WalInv, WalShape, CommonInput, Ledgers, KnownSpent, RoundRestarts
  <1>6. CASE RoundCommits
    BY <1>6, Committed, Zenon DEF WalInv, WalShape, CommonInput, Ledgers, KnownSpent, RoundCommits
  <1>7. CASE RoundBroadcasts
    BY <1>7, Zenon DEF WalInv, WalShape, CommonInput, Ledgers, KnownSpent, RoundBroadcasts, NoRound, GuardDropped
  <1>8. ASSUME NEW u \in Utxos, IssuePool(u) PROVE CommonInput'
    <2>1. wal'.known = wal.known \cup {[by |-> "pool", input |-> u]}
      BY <1>8, Committed, Zenon DEF WalInv, IssuePool
    <2>2. KnownSpent' = KnownSpent \cup {u}
      BY <2>1, KnownGrows, Zenon
    <2>3. attempt' = attempt /\ index' = index /\ mutex = "none" /\ u \notin index
      BY <1>8 DEF IssuePool, Spendable
    <2> QED
      BY <2>2, <2>3 DEF WalInv, WalShape, CommonInput
  <1>9. ASSUME NEW c \in SyncCallers, SyncReads(c) \/ SyncSeen(c) \/ SyncFails(c) PROVE CommonInput'
    BY <1>9, Zenon DEF WalInv, WalShape, CommonInput, Ledgers, KnownSpent, SyncReads, SyncSeen, SyncFails
  <1>10. ASSUME NEW c \in SyncCallers, NEW u \in Utxos, SyncSends(c, u) PROVE CommonInput'
    <2>1. wal'.known = wal.known \cup {[by |-> "send", input |-> u]}
      BY <1>10, Committed, Zenon DEF WalInv, SyncSends
    <2>2. KnownSpent' = KnownSpent \cup {u}
      BY <2>1, KnownGrows, Zenon
    <2>3. attempt' = attempt /\ index' = index /\ mutex = "none" /\ u \notin index
      BY <1>10 DEF SyncSends, Spendable
    <2> QED
      BY <2>2, <2>3, Zenon DEF WalInv, WalShape, CommonInput
  <1>11. CASE SyncWallet
    BY <1>11 DEF WalInv, WalShape, CommonInput, Ledgers, KnownSpent, SyncWallet, Persisted
  <1>12. CASE RestartWallet
    BY <1>12, Zenon DEF WalInv, WalShape, CommonInput, Ledgers, KnownSpent, RestartWallet, NoRound
  <1>13. CASE UNCHANGED walVars
    BY <1>13 DEF WalInv, WalShape, CommonInput, Ledgers, KnownSpent, walVars
  <1> QED
    BY <1>1, <1>2, <1>3, <1>4, <1>5, <1>6, <1>7, <1>8, <1>9, <1>10, <1>11, <1>12, <1>13 DEF WalNext

(* A caller that has sent waits for the arrival. *)
LEMMA FundingStep == WalInv /\ WalShape' /\ [WalNext]_walVars => Funding'
  <1> SUFFICES ASSUME WalInv, WalShape', [WalNext]_walVars PROVE Funding'
    OBVIOUS
  <1>1. CASE RoundStarts
    BY <1>1, Zenon DEF WalInv, WalShape, Funding, Orderly, KnownSends, RoundStarts, NoRound
  <1>2. ASSUME NEW u \in Utxos, BuildFirst(u) PROVE Funding'
    BY <1>2, Zenon DEF WalInv, WalShape, Funding, Orderly, KnownSends, BuildFirst, Spendable, LockWalletUtxo
  <1>3. CASE BuildAgain
    BY <1>3, Zenon DEF WalInv, WalShape, Funding, Orderly, KnownSends, BuildAgain, GuardDropped
  <1>4. CASE RoundAbandoned
    BY <1>4, Zenon DEF WalInv, WalShape, Funding, Orderly, KnownSends, RoundAbandoned, NoRound, GuardDropped
  <1>5. CASE RoundRestarts
    BY <1>5 DEF WalInv, WalShape, Funding, Orderly, KnownSends, RoundRestarts
  <1>6. CASE RoundCommits
    <2>1. wal'.known = wal.known \cup {[by |-> "round", input |-> attempt.guard]}
      BY <1>6, Committed, Zenon DEF WalInv, RoundCommits
    <2>2. KnownSends' = KnownSends
      BY <2>1 DEF KnownSends
    <2> QED
      BY <1>6, <2>2 DEF WalInv, Funding, Orderly, RoundCommits
  <1>7. CASE RoundBroadcasts
    BY <1>7 DEF WalInv, WalShape, Funding, Orderly, KnownSends, RoundBroadcasts, NoRound, GuardDropped
  <1>8. ASSUME NEW u \in Utxos, IssuePool(u) PROVE Funding'
    <2>1. wal'.known = wal.known \cup {[by |-> "pool", input |-> u]}
      BY <1>8, Committed, Zenon DEF WalInv, IssuePool
    <2>2. KnownSends' = KnownSends
      BY <2>1 DEF KnownSends
    <2> QED
      BY <1>8, <2>2, Zenon DEF WalInv, Funding, Orderly, IssuePool
  <1>9. ASSUME NEW c \in SyncCallers, SyncReads(c) \/ SyncSeen(c) \/ SyncFails(c) PROVE Funding'
    <2> SUFFICES ASSUME Orderly PROVE Funding'
      BY <1>9, Zenon DEF Funding, Orderly, SyncReads, SyncSeen, SyncFails
    <2>1. KnownSends' = KnownSends /\ Orderly'
      BY <1>9, Zenon DEF KnownSends, Orderly, SyncReads, SyncSeen, SyncFails
    <2>2. ASSUME SyncReads(c) PROVE KnownSends = {}
      BY <2>2, OneCaller, Zenon DEF WalInv, WalShape, Funding, SyncReads
    <2>3. CASE SyncReads(c)
      BY <2>1, <2>2, <2>3, Zenon DEF WalInv, WalShape, Funding, SyncReads
    <2>4. CASE SyncSeen(c)
      BY <2>1, <2>4, Zenon DEF WalInv, WalShape, Funding, SyncSeen
    <2>5. CASE SyncFails(c)
      BY <2>1, <2>5, Zenon DEF WalInv, WalShape, Funding, SyncFails
    <2> QED
      BY <1>9, <2>3, <2>4, <2>5
  <1>10. ASSUME NEW c \in SyncCallers, NEW u \in Utxos, SyncSends(c, u) PROVE Funding'
    <2> SUFFICES ASSUME Orderly PROVE Funding'
      BY <1>10, Zenon DEF Funding, Orderly, SyncSends
    <2> DEFINE tx == [by |-> "send", input |-> u]
    <2>1. wal'.known = wal.known \cup {tx}
      BY <1>10, Committed, Zenon DEF WalInv, SyncSends
    <2>2. KnownSends = {}
      BY <1>10 DEF WalInv, Funding, SyncSends
    <2>3. KnownSends' = {tx}
      BY <2>1, <2>2 DEF KnownSends
    <2>4. syncs' = [syncs EXCEPT ![c] = "broadcast"] /\ walMode' = walMode
      BY <1>10, Zenon DEF SyncSends, Orderly, MayFail
    <2>5. c \in walMode.callers /\ \A d \in SyncCallers : d # c => syncs[d] = "idle"
      BY <1>10, OneCaller, Zenon DEF WalInv, WalShape, Funding, SyncSends
    <2> QED
      BY <2>3, <2>4, <2>5 DEF WalInv, WalShape, Funding
  <1>11. CASE SyncWallet
    BY <1>11 DEF WalInv, WalShape, Funding, Orderly, KnownSends, SyncWallet, Persisted
  <1>12. CASE RestartWallet
    BY <1>12, Zenon DEF WalInv, WalShape, Funding, Orderly, KnownSends, RestartWallet, NoRound
  <1>13. CASE UNCHANGED walVars
    BY <1>13, Zenon DEF WalInv, WalShape, Funding, Orderly, KnownSends, walVars
  <1> QED
    BY <1>1, <1>2, <1>3, <1>4, <1>5, <1>6, <1>7, <1>8, <1>9, <1>10, <1>11, <1>12, <1>13 DEF WalNext

LEMMA WalInvAlways == WalSpec => []WalInv
  <1>1. WalInv /\ [WalNext]_walVars => WalInv'
    BY WalShapeStep, LedgersStep, CommonInputStep, FundingStep DEF WalInv
  <1> QED
    BY <1>1, WalInitInv, PTL DEF WalSpec

(* The wallet's own promises: no output is spent twice unless a restart     *)
(* follows a failed write, all attempts of a round have one input in        *)
(* common, nobody else spends it in the first two attempts, and a single    *)
(* caller funds the forfeit watcher once.                                   *)
THEOREM ServerWalletSound ==
    WalSpec => [](OutputsSpentOnce /\ AttemptsConflict /\ CommonInputKept /\ FundedOnce)
  <1>1. WalInv => OutputsSpentOnce
    BY Zenon DEF WalInv, Ledgers, OutputsSpentOnce
  <1>2. WalInv => CommonInputKept
    BY Zenon DEF WalInv, CommonInput, CommonInputKept
  <1>3. WalInv => AttemptsConflict
    <2> SUFFICES ASSUME WalInv PROVE AttemptsConflict
      BY Zenon
    <2>1. attempt.used = {} \/ attempt.used = {attempt.guard}
      BY Zenon DEF WalInv, CommonInput
    <2> QED
      BY <2>1, FS_EmptySet, FS_Singleton DEF AttemptsConflict
  <1>4. WalInv => FundedOnce
    <2> SUFFICES ASSUME WalInv, Orderly PROVE Cardinality({s \in sent : s.by = "send"}) <= 1
      BY Zenon DEF FundedOnce, Orderly
    <2> DEFINE S == {s \in sent : s.by = "send"}
    <2>1. \A s, t \in S : s = t
      BY Zenon DEF WalInv, Ledgers, Funding, Orderly, KnownSends
    <2>2. S = {} \/ \E s : S = {s}
      BY <2>1
    <2> QED
      BY <2>2, FS_EmptySet, FS_Singleton
  <1> QED
    BY <1>1, <1>2, <1>3, <1>4, WalInvAlways, PTL

-----------------------------------------------------------------------------
(* The server's own money (sweeps.rs, wallet.rs, intman): sweeps wait for   *)
(* what they depend on and are watched across a restart, no output of the   *)
(* wallet is spent twice, attempts of a round conflict, and limits that     *)
(* several calls check hold.                                                *)
ServerFundsSound ==
    /\ SweepTypeOK /\ TokTypeOK /\ WalTypeOK
    /\ ConnectorsLast /\ SweptIsSpent /\ PendingIndexed /\ SweepsWatched
    /\ OpenBounded /\ ConfigChangesKept
    /\ OutputsSpentOnce /\ AttemptsConflict /\ CommonInputKept /\ FundedOnce

(* ServerFundsSound for any rounds, boards, tokens, outputs and callers, and *)
(* every failure and restart of the modes.                                   *)
THEOREM ServerFundsSoundAlways ==
    SweepSpec /\ TokSpec /\ WalSpec => []ServerFundsSound
  <1>1. TokInv => TokTypeOK
    BY TokenAssumption DEF TokInv, TokShape, TokRows, TokConfigRow, TokenStates, ConfigChangesKept, TokTypeOK
  <1>2. WalInv => WalTypeOK
    BY DEF WalInv, WalShape, Ledgers, CommonInput, KnownSpent, WalTypeOK
  <1> QED
    BY <1>1, <1>2, SweeperSound, TokensSound, TokInvAlways, ServerWalletSound, WalInvAlways, PTL
       DEF ServerFundsSound
=============================================================================
