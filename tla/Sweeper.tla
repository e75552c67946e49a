------------------------------ MODULE Sweeper ------------------------------
(***************************************************************************)
(* The sweeper of expired rounds and boards (server/src/sweeps.rs): one    *)
(* process that now and then builds a transaction of all outputs that are  *)
(* still to be swept.  Users may put the transactions of a round's tree,   *)
(* the exit of a board or a connector on the chain at any time.            *)
(***************************************************************************)
EXTENDS Integers, Sequences, FiniteSets, FiniteSetsExt, Functions

CONSTANTS
    SweepRounds,    \* sequence of rounds: root point, tree, connectors
    SweepBoards,    \* sequence of boards: anchor and exit transaction
    SweepModes,     \* which transactions others put on the chain, and crashes
    Value,          \* value of each point, less the cost of its input
    SweepThreshold,
    SweepDeep,      \* DEEPLY_CONFIRMED
    LastHeight      \* bound on the chain

ASSUME SweepAssumption ==
    /\ SweepThreshold \in Nat /\ SweepDeep \in Nat \ {0}
    /\ LastHeight \in Nat /\ SweepDeep <= LastHeight

TreePoints(r) == {r.root} \cup UNION {Range(t.outs) : t \in Range(r.tree)}
ConnectorPoints(r) == {r.conn} \cup UNION {Range(t.outs) : t \in Range(r.conns)}

(* The tree's first transaction spends the round's output; a connector      *)
(* transaction has two outputs; no output is of two transactions.           *)
ASSUME PointsAssumption ==
    /\ SweepRounds \in Seq(Range(SweepRounds)) /\ SweepBoards \in Seq(Range(SweepBoards))
    /\ \A r \in Range(SweepRounds) :
           /\ r.tree \in Seq(Range(r.tree)) /\ Len(r.tree) > 0 /\ r.tree[1].spends = r.root
           /\ r.conns \in Seq(Range(r.conns))
           /\ \A t \in Range(r.conns) : t.outs \in Seq(Range(t.outs)) /\ Len(t.outs) = 2
           /\ \A q \in Range(SweepRounds) :
                  /\ TreePoints(q) \cap ConnectorPoints(r) = {}
                  /\ q # r => ConnectorPoints(q) \cap ConnectorPoints(r) = {}
           /\ \A b \in Range(SweepBoards) : b.anchor \notin ConnectorPoints(r)
    /\ \A b \in Range(SweepBoards) : b.exit.spends = b.anchor

VARIABLES
    smode,          \* the scenario
    blocks,         \* height and where transactions are
    pending,        \* pending_txs and pending_tx_by_utxo of the process
    build,          \* the SweepBuilder and the place in perform_sweep
    stored          \* rows: sweeps, swept rounds, swept boards

sweepVars == <<smode, blocks, pending, build, stored>>

(* A transaction of others: its name, the point it spends, its outputs.     *)
OtherTxs ==
    {b.exit : b \in Range(SweepBoards)}
        \cup UNION {Range(r.tree) \cup Range(r.conns) \cup r.forfeits : r \in Range(SweepRounds)}

Height(t) == blocks.mined[t]
IsMined(t) == blocks.mined[t] > 0

(* Sweeps in the chain: <<sweep, height>>                                   *)
SweptBy(p) == {m \in blocks.sweeps : p \in m[1].ins}
Spent(p) == SweptBy(p) # {} \/ \E t \in OtherTxs : t.spends = p /\ IsMined(t)
Exists(p) == \A t \in OtherTxs : p \in Range(t.outs) => IsMined(t)

(* A sweep the network could still mine                                     *)
Valid(s) == \A p \in s.ins : Exists(p) /\ ~Spent(p)
InMempool(s) == s \in blocks.sent /\ Valid(s)

NoBuild == [pc |-> "idle", i |-> 0, tip |-> 0, sweeps |-> {}, boards |-> {}, tx |-> [ins |-> {}, tip |-> 0]]

SweepInit ==
    /\ smode \in SweepModes
    /\ blocks = [height |-> SweepDeep, mined |-> [t \in OtherTxs |-> 0], sweeps |-> {}, sent |-> {}, crashed |-> FALSE]
    /\ pending = [txs |-> {}, utxo |-> {}]
    /\ build = NoBuild
    /\ stored = [sweeps |-> {}, confirmed |-> {}, abandoned |-> {}, rounds |-> {}, boards |-> {}]

(***************************************************************************)
(* The chain                                                               *)
(***************************************************************************)
MineOther(t) ==
    /\ blocks.height < LastHeight
    /\ t \in smode.others
    /\ ~IsMined(t) /\ Exists(t.spends) /\ ~Spent(t.spends)
    /\ blocks' = [blocks EXCEPT !.height = @ + 1, !.mined[t] = blocks.height + 1]
    /\ UNCHANGED <<smode, pending, build, stored>>

MineSweep(s) ==
    /\ blocks.height < LastHeight
    /\ InMempool(s)
    /\ blocks' = [blocks EXCEPT !.height = @ + 1, !.sweeps = @ \cup {<<s, blocks.height + 1>>}]
    /\ UNCHANGED <<smode, pending, build, stored>>

MineEmpty ==
    /\ blocks.height < LastHeight
    /\ \A s \in blocks.sent : ~InMempool(s)
    /\ blocks' = [blocks EXCEPT !.height = @ + 1]
    /\ UNCHANGED <<smode, pending, build, stored>>

(* is_swept: the height of a pending sweep of the point that is confirmed;  *)
(* none is -1                                                               *)
IsSwept(p) ==
    LET hs == {m[2] : m \in {n \in SweptBy(p) : <<p, n[1]>> \in pending.utxo}}
    IN IF hs = {} THEN -1 ELSE Min(hs)

PurgeUneconomical(b) ==
    [b EXCEPT !.sweeps = {p \in @ : Value[p] >= 0}, !.boards = {p \in @ : Value[p] >= 0}]

AddOutputs(b, points) == [b EXCEPT !.sweeps = @ \cup points]

MinedNodes(r) == {i \in 1 .. Len(r.tree) : IsMined(r.tree[i])}

(* purge_sweeps keeps the inputs that are the point and drops the others:   *)
(* what is left of the points after the mined nodes that follow node i.     *)
PurgeSweeps(points, r, i) == {p \in points : \A j \in MinedNodes(r) : j > i => r.tree[j].spends = p}

(* Down the tree, every mined node purges and then adds its outputs that    *)
(* are not swept; the result is -1 once something is not swept.             *)
ProcessVtxos(b, r) ==
    LET Outs(i) == Range(r.tree[i].outs)
        outs == UNION {Outs(i) : i \in MinedNodes(r)}
        left == {p \in outs : IsSwept(p) < 0}
        added == UNION {PurgeSweeps(left \cap Outs(i), r, i) : i \in MinedNodes(r)}
    IN IF IsMined(r.tree[1])
         THEN [b |-> [b EXCEPT !.sweeps = PurgeSweeps(@, r, 0) \cup added, !.boards = PurgeSweeps(@, r, 0)],
               ret |-> IF left = {} THEN Max({0} \cup {IsSwept(p) : p \in outs}) ELSE -1]
       ELSE IF IsSwept(r.root) >= 0 THEN [b |-> b, ret |-> IsSwept(r.root)]
       ELSE [b |-> AddOutputs(b, {r.root}), ret |-> -1]

(* A connector transaction has the next link of the chain and a connector.  *)
ChainOut(t) == t.outs[1]
ConnectorOut(t) == t.outs[2]

(* gettxout, the mempool included *)
TxOutUnspent(p) == ~Spent(p) /\ \A s \in blocks.sent : InMempool(s) => p \notin s.ins

(* Connectors of confirmed transactions, then the first link that is not    *)
(* spent; if there is none, the result is "done" whatever was added.        *)
ProcessConnectors(b, r) ==
    LET confirmed == {i \in 1 .. Len(r.conns) : \A j \in 1 .. i : IsMined(r.conns[j])}
        unspent == {p \in {ConnectorOut(r.conns[i]) : i \in confirmed} : TxOutUnspent(p)}
        last == IF confirmed = {} THEN r.conn ELSE ChainOut(r.conns[Cardinality(confirmed)])
    IN IF Cardinality(confirmed) = Len(r.conns) THEN [b |-> AddOutputs(b, unspent), ret |-> 0]
       ELSE IF IsSwept(last) < 0 THEN [b |-> AddOutputs(b, unspent \cup {last}), ret |-> -1]
       ELSE [b |-> AddOutputs(b, unspent), ret |-> IF unspent = {} THEN IsSwept(last) ELSE -1]

DoneHeight == build.tip - SweepDeep + 1

IsDone(ret) == ret >= 0 /\ ret <= DoneHeight

PointsOf(r) == TreePoints(r) \cup ConnectorPoints(r)

Forget(points) == [pending EXCEPT !.utxo = {e \in @ : e[1] \notin points}]

(***************************************************************************)
(* perform_sweep                                                           *)
(***************************************************************************)
BeginSweep ==
    /\ build.pc = "idle"
    /\ build' = [NoBuild EXCEPT !.pc = "rounds", !.i = 1, !.tip = blocks.height]
    /\ UNCHANGED <<smode, blocks, pending, stored>>

(* process_round, round_finished, purge_uneconomical                        *)
ProcessRound ==
    /\ build.pc = "rounds" /\ build.i <= Len(SweepRounds)
    /\ LET r == SweepRounds[build.i]
           vtxos == ProcessVtxos(build, r)
           conns == ProcessConnectors(vtxos.b, r)
           next(b) == [PurgeUneconomical(b) EXCEPT !.i = @ + 1]
       IN IF r \in stored.rounds THEN build' = [build EXCEPT !.i = @ + 1] /\ UNCHANGED <<pending, stored>>
          ELSE IF ~IsDone(vtxos.ret) THEN build' = next(vtxos.b) /\ UNCHANGED <<pending, stored>>
          ELSE /\ build' = next(conns.b)
               /\ IF ~IsDone(conns.ret) THEN UNCHANGED <<pending, stored>>
                  ELSE /\ pending' = Forget(PointsOf(r))
                       /\ stored' = [stored EXCEPT !.rounds = @ \cup {r}]
    /\ UNCHANGED <<smode, blocks>>

RoundsProcessed ==
    /\ build.pc = "rounds" /\ build.i > Len(SweepRounds)
    /\ build' = [build EXCEPT !.pc = "boards", !.i = 1]
    /\ UNCHANGED <<smode, blocks, pending, stored>>

(* process_board and clear_board *)
ProcessBoard ==
    /\ build.pc = "boards" /\ build.i <= Len(SweepBoards)
    /\ LET b == SweepBoards[build.i]
           clear == IF IsMined(b.exit) THEN TRUE ELSE IsDone(IsSwept(b.anchor))
           add == b \notin stored.boards /\ ~IsMined(b.exit) /\ IsSwept(b.anchor) < 0
       IN /\ build' = [PurgeUneconomical(IF add THEN [build EXCEPT !.boards = @ \cup {b.anchor}] ELSE build)
                         EXCEPT !.i = @ + 1]
          /\ IF clear /\ b \notin stored.boards
               THEN pending' = Forget({b.anchor}) /\ stored' = [stored EXCEPT !.boards = @ \cup {b}]
               ELSE UNCHANGED <<pending, stored>>
    /\ UNCHANGED <<smode, blocks>>

TotalSurplus == MapThenSumSet(LAMBDA p : Value[p], build.sweeps \cup build.boards)

(* create_tx, then store_pending_sweep: the row of a known txid is refused. *)
StoreSweep ==
    /\ build.pc = "boards" /\ build.i > Len(SweepBoards)
    /\ LET tx == [ins |-> build.sweeps \cup build.boards, tip |-> build.tip]
       IN IF TotalSurplus < SweepThreshold \/ tx \in stored.sweeps
            THEN build' = [build EXCEPT !.pc = "clear"] /\ UNCHANGED stored
            ELSE /\ build' = [build EXCEPT !.pc = "broadcast", !.tx = tx]
                 /\ stored' = [stored EXCEPT !.sweeps = @ \cup {tx}]
    /\ UNCHANGED <<smode, blocks, pending>>

(* broadcast_tx and store_pending *)
WithPending(p, tx) == [p EXCEPT !.txs = @ \cup {tx}, !.utxo = @ \cup {<<q, tx>> : q \in tx.ins}]

BroadcastSweep ==
    /\ build.pc = "broadcast"
    /\ blocks' = [blocks EXCEPT !.sent = @ \cup {build.tx}]
    /\ pending' = WithPending(pending, build.tx)
    /\ build' = [build EXCEPT !.pc = "clear"]
    /\ UNCHANGED <<smode, stored>>

(* clear_confirmed_sweeps: a sweep none of whose points is pending is       *)
(* confirmed if it is deep enough, else abandoned.                          *)
ClearConfirmedSweeps ==
    /\ build.pc = "clear"
    /\ LET idle == {s \in pending.txs : \A p \in s.ins : \A e \in pending.utxo : e[1] # p}
           deep == {s \in idle : \E m \in blocks.sweeps : m[1] = s /\ blocks.height - m[2] >= 2 * SweepDeep}
       IN /\ pending' = [pending EXCEPT !.txs = @ \ idle]
          /\ stored' = [stored EXCEPT !.confirmed = @ \cup deep, !.abandoned = @ \cup (idle \ deep)]
    /\ build' = NoBuild
    /\ UNCHANGED <<smode, blocks>>

(* VtxoSweeper::start: pending sweeps are read and broadcast again.          *)
RestartSweeper ==
    /\ smode.crash /\ ~blocks.crashed
    /\ LET rows == stored.sweeps \ (stored.confirmed \cup stored.abandoned)
       IN /\ pending' = [txs |-> rows, utxo |-> UNION {{<<p, s>> : p \in s.ins} : s \in rows}]
          /\ blocks' = [blocks EXCEPT !.crashed = TRUE, !.sent = @ \cup rows]
    /\ build' = NoBuild
    /\ UNCHANGED <<smode, stored>>

SweepStep ==
    \/ BeginSweep \/ ProcessRound \/ RoundsProcessed \/ ProcessBoard \/ StoreSweep
    \/ BroadcastSweep \/ ClearConfirmedSweeps

Mine == (\E t \in OtherTxs : MineOther(t)) \/ (\E s \in blocks.sent : MineSweep(s)) \/ MineEmpty

SweepNext == SweepStep \/ Mine \/ RestartSweeper

SweepSpec == SweepInit /\ [][SweepNext]_sweepVars

(***************************************************************************)
(* Properties                                                              *)
(***************************************************************************)
SweepTypeOK ==
    /\ blocks.height \in 0 .. LastHeight
    /\ pending.txs \subseteq stored.sweeps
    /\ build.pc \in {"idle", "rounds", "boards", "broadcast", "clear"}

(* "Sweep VTXOs before connectors": as long as no transaction of the tree   *)
(* is mined, a sweep takes connectors of a round only when its tree output  *)
(* was swept deeply, whatever crashes and sweeps came before.                *)
ConnectorsLast ==
    \A s \in blocks.sent : \A r \in Range(SweepRounds) :
        s.ins \cap ConnectorPoints(r) # {} /\ ~IsMined(r.tree[1]) =>
            \E m \in SweptBy(r.root) : m[2] <= s.tip - SweepDeep + 1

(* A round or a board that is recorded as swept has its output spent.        *)
SweptIsSpent ==
    /\ \A r \in stored.rounds : Spent(r.root)
    /\ \A b \in stored.boards : Spent(b.anchor)

(* is_swept expects a transaction for every entry: "broken: utxo but no tx". *)
PendingIndexed == \A e \in pending.utxo : e[2] \in pending.txs

(* A sweep that was broadcast and is neither settled nor forgotten in the   *)
(* database is watched by the process, across a restart.                     *)
SweepsWatched ==
    \A s \in stored.sweeps \ (stored.confirmed \cup stored.abandoned) :
        s \in pending.txs \/ (build.pc = "broadcast" /\ build.tx = s)

(* "Purge all sweeps sweeping the given utxo": the inputs gathered are not   *)
(* spent by a transaction of the tree that was mined before the sweep began. *)
SpentPurged ==
    \A p \in build.sweeps : \A r \in Range(SweepRounds) : \A t \in Range(r.tree) :
        t.spends = p /\ IsMined(t) => Height(t) > build.tip

(* A sweep that is confirmed is not abandoned.                               *)
ConfirmedNotAbandoned == \A m \in blocks.sweeps : m[1] \notin stored.abandoned

(* Connectors of a round that is recorded as swept are spent.                *)
ConnectorsSwept ==
    \A r \in stored.rounds : \A p \in ConnectorPoints(r) : Exists(p) => Spent(p)
=============================================================================
