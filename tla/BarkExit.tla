----------------------------- MODULE BarkExit ------------------------------
(***************************************************************************)
(* Unilateral exits of the wallet (bark/src/exit/).  A vtxo is exited by a *)
(* path of transactions that each spend the one before; every one of them  *)
(* pays no fee and is broadcast in a package with a child that spends its  *)
(* fee anchor.  The child is made by the wallet or by another party that   *)
(* exits through the same transaction.                                     *)
(* The functions of Exit run under its write lock, so they interleave with *)
(* the chain and with crashes, not with each other.  They work on cached   *)
(* statuses that only sync refreshes.                                      *)
(***************************************************************************)
EXTENDS Integers, Sequences, FiniteSets

CONSTANTS
    ExitVtxos,      \* the vtxos
    ExitPath,       \* ExitPath[v]: their exit transactions, from the root
    ExitModes,      \* the scenarios
    ExitDelta,      \* vtxo.exit_delta
    Deeply,         \* DEEPLY_CONFIRMED
    ExitHeights,    \* heights are unsigned: arithmetic is modulo ExitHeights
    MaxExitFaults   \* faults in one behaviour

ASSUME ExitAssumption ==
    /\ \A v \in ExitVtxos : ExitPath[v] # <<>>
    /\ ExitDelta \in Nat \ {0} /\ Deeply \in Nat /\ ExitHeights \in Nat \ {0} /\ MaxExitFaults \in Nat

VARIABLES
    scene,          \* the scenario: first, last: heights; faults; reorgs
    chain,          \* blocks, where the transactions are, and the children
    mgr,            \* ExitTransactionManager
    exits,          \* Exit.exit_vtxos
    disk,           \* the rows of exits and children, and the on-chain wallet
    task            \* the function of Exit that holds the lock

exitVars == <<scene, chain, mgr, exits, disk, task>>

ExitTxs == UNION {{ExitPath[v][i] : i \in 1 .. Len(ExitPath[v])} : v \in ExitVtxos}

(* The transaction that claims the output of an exit *)
ClaimTx(v) == <<"claim", v>>

Tracked == ExitTxs \cup {ClaimTx(v) : v \in ExitVtxos}

(* vtxo.point().txid *)
LastTx(v) == ExitPath[v][Len(ExitPath[v])]

(* A path's first transaction spends the chain anchor, which is confirmed.  *)
Parents(t) ==
    {ExitPath[v][i - 1] : <<v, i>> \in {<<w, j>> \in ExitVtxos \X (2 .. 9) :
                                          j <= Len(ExitPath[w]) /\ ExitPath[w][j] = t}}

(* A BlockRef: height and branch *)
Heights == 1 .. ExitHeights - 1
(* A TxStatus is a pair: a BlockRef, or one of these                        *)
NotTracked == <<-2, 0>>
NotFound == <<-1, 0>>
Mempool == <<0, 0>>

IsBlock(s) == s[1] > 0

BlockRef(h) == <<h, chain.branch[h]>>

(* The wallet's child, and one of another party with a low or high fee rate *)
Children == {"wallet", "low", "high"}

(* What the chain source says of a transaction *)
NetStatus(t) == IF chain.place[t] \in Heights THEN BlockRef(chain.place[t]) ELSE <<chain.place[t], 0>>

OnChain(t) == chain.place[t] \in Heights

(* txs_spending_inputs: a spend of t's output in the mempool or in a block  *)
(* from block_scan_start on; t is followed by at most one spend of it.      *)
TxsSpendingInputs(t, block_scan_start) ==
    LET s == NetStatus(t) IN IF IsBlock(s) /\ s[1] < block_scan_start THEN NotFound ELSE s

NoChild == [child |-> "none", origin |-> <<"none", <<>>>>]

(* init: the exits that is_initialized                                      *)
Untracked == [status |-> [t \in Tracked |-> NotTracked], pkg |-> [t \in ExitTxs |-> NoChild], init |-> {}]

(* ExitState: the statuses of its transactions while it is processing, the  *)
(* block that matters to it afterwards, and the last block that was scanned *)
NoExit == [st |-> "none", txs |-> <<>>, block |-> <<>>, scanned |-> <<>>]

NewStart == [NoExit EXCEPT !.st = "start"]

(* ExitState::new_processing *)
NewProcessing(e, v) ==
    [e EXCEPT !.st = "processing", !.block = <<>>, !.scanned = <<>>,
              !.txs = [i \in 1 .. Len(ExitPath[v]) |-> [s |-> "verify", b |-> <<>>]]]

NewAwaitingDelta(e, b) == [e EXCEPT !.st = "awaiting", !.txs = <<>>, !.block = b]

NewClaimable(e, b, scanned) == [e EXCEPT !.st = "claimable", !.block = b, !.scanned = scanned]

NewClaimInProgress(e) == [e EXCEPT !.st = "claiming", !.scanned = <<>>]

NewClaimed(e, b) == [e EXCEPT !.st = "claimed", !.block = b, !.scanned = <<>>]

(* Faulty variant: one block less than the lock time. *)
ClaimableHeightEarly(e) == e.block[1] + ExitDelta - 1

(* new_awaiting_delta: confirmed_block.height + wait_delta                  *)
ClaimableHeight(e) == e.block[1] + ExitDelta

NoTask == [pc |-> "idle", kind |-> "none", tip |-> 0, todo |-> {}, cur |-> "none",
           from |-> 0, i |-> 0, txs |-> <<>>]

ExitInit ==
    /\ scene \in ExitModes
    /\ chain = [tip |-> scene.first, branch |-> [h \in Heights |-> 0], place |-> [t \in Tracked |-> -1],
                child |-> [t \in ExitTxs |-> "none"], reorgs |-> 0, faults |-> 0]
    /\ mgr = Untracked
    /\ exits = [v \in ExitVtxos |-> NoExit]
    /\ disk = [exits |-> [v \in ExitVtxos |-> NoExit], child |-> [t \in ExitTxs |-> NoChild], wallet |-> [t \in ExitTxs |-> "none"]]
    /\ task = NoTask

(* The rows that outlive the process *)
StoreExitVtxoEntry(d, v, e) == [d EXCEPT !.exits[v] = e]
StoreExitChildTx(d, t, pkg) == [d EXCEPT !.child[t] = pkg]
StoreSignedP2aCpfp(d, t, child) == [d EXCEPT !.wallet[t] = child]

MayFault(f) == f \in scene.faults /\ chain.faults < MaxExitFaults

CountFault(c) == [c EXCEPT !.faults = @ + 1]

(***************************************************************************)
(* The network                                                             *)
(***************************************************************************)

(* v3 transactions with an unconfirmed parent of their own are not relayed. *)
ParentsMined(t) == \A p \in Parents(t) : OnChain(p)

(* A transaction follows what it spends: the parent in the path, and the    *)
(* exit for as long as the relative lock time asks of a claim.              *)
Consistent(place) ==
    /\ \A t \in ExitTxs : \A p \in Parents(t) :
         /\ place[p] = -1 => place[t] = -1
         /\ place[p] = 0 => place[t] \in {-1, 0}
    /\ \A v \in ExitVtxos : LET c == place[ClaimTx(v)]
                                l == place[LastTx(v)] IN
         c # -1 => l \in Heights /\ (c \in Heights => l + ExitDelta <= c)

(* A transaction that leaves the mempool takes its child along.             *)
Settle(c) == [c EXCEPT !.child = [t \in ExitTxs |-> IF c.place[t] = -1 THEN "none" ELSE @[t]]]

(* A block with any of the transactions of the mempool                      *)
MineBlock ==
    /\ chain.tip < scene.last
    /\ \E mined \in SUBSET {t \in Tracked : chain.place[t] = 0} :
         chain' = [chain EXCEPT !.tip = @ + 1,
                     !.place = [t \in Tracked |-> IF t \in mined THEN chain.tip + 1 ELSE @[t]]]
    /\ Consistent(chain'.place)
    /\ UNCHANGED <<scene, mgr, exits, disk, task>>

(* The last block is replaced by two.  Its transactions are mined again,    *)
(* return to the mempool or are dropped.                                    *)
Reorganise ==
    /\ chain.reorgs < scene.reorgs
    /\ chain.tip < scene.last
    /\ LET out == {t \in Tracked : chain.place[t] \in {chain.tip, 0}} IN
       \E to \in [out -> {-1, 0, chain.tip + 1}] :
         chain' = Settle([chain EXCEPT !.tip = @ + 1, !.reorgs = @ + 1,
                     !.branch = [h \in Heights |-> IF h >= chain.tip THEN 1 ELSE @[h]],
                     !.place = [t \in Tracked |-> IF t \in out THEN to[t] ELSE @[t]]])
    /\ Consistent(chain'.place)
    /\ UNCHANGED <<scene, mgr, exits, disk, task>>

(* The mempool drops a package or a claim.                                  *)
Evict ==
    /\ MayFault("evict")
    /\ \E t \in Tracked : /\ chain.place[t] = 0
                          /\ chain' = Settle(CountFault([chain EXCEPT !.place[t] = -1]))
    /\ Consistent(chain'.place)
    /\ UNCHANGED <<scene, mgr, exits, disk, task>>

(* Another party broadcasts an exit transaction, or replaces the child with *)
(* one that pays more.                                                      *)
OtherBroadcasts ==
    /\ MayFault("other")
    /\ \E t \in ExitTxs, c \in {"low", "high"} :
         /\ ~OnChain(t) /\ ParentsMined(t)
         /\ chain.place[t] = -1 \/ (c = "high" /\ chain.child[t] # "high")
         /\ chain' = CountFault([chain EXCEPT !.place[t] = 0, !.child[t] = c])
    /\ UNCHANGED <<scene, mgr, exits, disk, task>>

Network == MineBlock \/ Reorganise \/ Evict \/ OtherBroadcasts

(***************************************************************************)
(* ExitTransactionManager                                                  *)
(***************************************************************************)

(* The block that an origin says its child was confirmed in                 *)
Origin(kind, b) == <<kind, b>>
ConfirmedIn(o) == o[2]

(* find_child_locally: in the on-chain wallet, which may not have seen its   *)
(* confirmation yet, or in the database.                                     *)
FindChildLocally(t) ==
    IF disk.wallet[t] # "none"
      THEN {[child |-> disk.wallet[t], origin |-> Origin("wallet", b)] :
              b \in {<<>>} \cup (IF OnChain(t) /\ chain.child[t] = disk.wallet[t] THEN {NetStatus(t)} ELSE {})}
      ELSE {disk.child[t]}

(* track_exit_tx: the status is that of a child known locally               *)
TrackedStatus(pkg) ==
    IF pkg = NoChild THEN NotFound ELSE IF ConfirmedIn(pkg.origin) # <<>> THEN ConfirmedIn(pkg.origin) ELSE Mempool

(* track_vtxo_exits of some vtxos: the possible results                      *)
TrackVtxoExits(m, vtxos) ==
    LET new == {t \in ExitTxs : m.status[t] = NotTracked /\ \E v \in vtxos : \E i \in 1 .. Len(ExitPath[v]) : ExitPath[v][i] = t}
    IN {[m EXCEPT !.init = @ \cup vtxos,
                  !.pkg = [t \in ExitTxs |-> IF t \in new THEN found[t] ELSE @[t]],
                  !.status = [t \in Tracked |-> IF t \in new THEN TrackedStatus(found[t]) ELSE @[t]]] :
          found \in {f \in [new -> UNION {FindChildLocally(t) : t \in new}] :
                       \A t \in new : f[t] \in FindChildLocally(t)}}

(* broadcast_package reaches the network: the exit transaction is not mined *)
(* and its input is.  A child in the mempool is replaced.                   *)
Accepted(t) == ~OnChain(t) /\ ParentsMined(t)

BroadcastPackage(t) ==
    chain' = [chain EXCEPT !.place[t] = 0, !.child[t] = mgr.pkg[t].child]

(* sync_no_progress: exits that are not initialised, then the tip           *)
SyncBegin(k) ==
    /\ task.pc = "idle"
    /\ k \in scene.callers
    /\ \E v \in ExitVtxos : exits[v].st # "none"
    /\ task' = [NoTask EXCEPT !.pc = "tip", !.kind = k]
    /\ mgr' \in TrackVtxoExits(mgr, {v \in ExitVtxos : exits[v].st # "none"} \ mgr.init)
    /\ UNCHANGED <<scene, chain, exits, disk>>

SyncTip ==
    /\ task.pc = "tip"
    /\ task' = [task EXCEPT !.pc = "keys", !.tip = chain.tip,
                            !.todo = {t \in Tracked : mgr.status[t] # NotTracked}]
    /\ UNCHANGED <<scene, chain, mgr, exits, disk>>

(* "deeply confirmed": a subtraction of unsigned heights                    *)
DeeplyConfirmed(s) == IsBlock(s) /\ s[1] <= (task.tip - Deeply) % ExitHeights

(* One key of the status map: skipped, updated, broadcast again, or looked  *)
(* at for its child.                                                        *)
SyncKey(t) ==
    /\ task.pc = "keys" /\ t \in task.todo
    /\ LET s    == NetStatus(t)
           next == [task EXCEPT !.todo = @ \ {t}] IN
       \/ /\ DeeplyConfirmed(mgr.status[t])
          /\ task' = next /\ UNCHANGED <<chain, mgr>>
       \/ /\ ~DeeplyConfirmed(mgr.status[t]) /\ t \notin ExitTxs
          /\ mgr' = [mgr EXCEPT !.status[t] = s]
          /\ task' = next /\ UNCHANGED chain
       \/ /\ ~DeeplyConfirmed(mgr.status[t]) /\ t \in ExitTxs /\ s # NotFound
          /\ task' = [next EXCEPT !.pc = "child", !.cur = t, !.from = IF IsBlock(s) THEN s[1] ELSE task.tip]
          /\ UNCHANGED <<chain, mgr>>
       \/ /\ ~DeeplyConfirmed(mgr.status[t]) /\ t \in ExitTxs /\ s = NotFound
          /\ \/ /\ mgr.pkg[t] = NoChild
                /\ mgr' = [mgr EXCEPT !.status[t] = NotFound] /\ UNCHANGED chain
             \/ /\ mgr.pkg[t] # NoChild /\ Accepted(t)
                /\ BroadcastPackage(t)
                /\ mgr' = [mgr EXCEPT !.status[t] = Mempool]
             \/ /\ mgr.pkg[t] # NoChild /\ ~Accepted(t)
                /\ UNCHANGED <<chain, mgr>>
          /\ task' = next
    /\ UNCHANGED <<scene, exits, disk>>

(* update_child_from_network: what spends the anchor in the mempool or from *)
(* block from on.  The child of another party is stored.                    *)
SyncChild ==
    /\ task.pc = "child"
    /\ LET t     == task.cur
           s     == NetStatus(t)
           seen  == chain.child[t]
           found == TxsSpendingInputs(t, task.from) # NotFound
           own   == mgr.pkg[t].child = seen /\ mgr.pkg[t].origin[1] = "wallet"
           b     == IF IsBlock(s) THEN s ELSE <<>>
           other == [child |-> seen, origin |-> Origin(IF IsBlock(s) THEN "block" ELSE "mempool", b)] IN
       \/ /\ ~found
          /\ mgr' = [mgr EXCEPT !.status[t] = NotFound] /\ disk' = disk
       \/ /\ found /\ own
          /\ mgr' = [mgr EXCEPT !.status[t] = s, !.pkg[t].origin = Origin("wallet", b)] /\ disk' = disk
       \/ /\ found /\ ~own
          /\ mgr' = [mgr EXCEPT !.status[t] = s, !.pkg[t] = other]
          /\ disk' = StoreExitChildTx(disk, t, other)
    /\ task' = [task EXCEPT !.pc = "keys", !.cur = "none", !.from = 0]
    /\ UNCHANGED <<scene, chain, exits>>

(* requires_network_update                                                  *)
RequiresNetworkUpdate(e) ==
    \/ e.st = "processing" /\ \A i \in DOMAIN e.txs : e.txs[i].s \in {"sent", "confirmed"}
    \/ e.st \in {"awaiting", "claimable", "claiming"}

(* Every key is done; run_exits goes on after an error of sync_no_progress, *)
(* sync does not.                                                           *)
ToProgress ==
    [task EXCEPT !.pc = "exits",
       !.todo = {v \in mgr.init : task.kind = "daemon" \/ RequiresNetworkUpdate(exits[v])}]

SyncEnd ==
    /\ task.pc = "keys"
    /\ task.todo = {}
    /\ task' = ToProgress
    /\ UNCHANGED <<scene, chain, mgr, exits, disk>>

SyncFails ==
    /\ task.pc \in {"tip", "keys", "child"}
    /\ MayFault("query")
    /\ chain' = CountFault(chain)
    /\ task' = IF task.kind = "daemon" THEN [ToProgress EXCEPT !.cur = "none", !.from = 0] ELSE NoTask
    /\ UNCHANGED <<scene, mgr, exits, disk>>

(***************************************************************************)
(* ExitVtxo::progress                                                      *)
(***************************************************************************)

(* get_exit_tx_status and get_exit_child_status                             *)
GetExitTxStatus(t) ==
    LET pkg == mgr.pkg[t]
        s   == mgr.status[t] IN
    CASE pkg = NoChild -> [s |-> "sign", b |-> <<>>]
      [] pkg # NoChild /\ s = NotFound -> [s |-> "broadcast", b |-> <<>>]
      [] pkg # NoChild /\ s = Mempool /\ pkg.origin[1] = "block" -> [s |-> "internal", b |-> <<>>]
      [] pkg # NoChild /\ s = Mempool /\ pkg.origin[1] = "mempool" /\ pkg.child = "low" -> [s |-> "replace", b |-> <<>>]
      [] pkg # NoChild /\ s = Mempool /\ (pkg.origin[1] = "wallet" \/ (pkg.origin[1] = "mempool" /\ pkg.child # "low")) ->
           [s |-> "sent", b |-> <<>>]
      [] OTHER -> [s |-> "confirmed", b |-> s]

(* check_status_from_inputs                                                 *)
CheckStatusFromInputs(t) ==
    [s |-> IF \A p \in Parents(t) : IsBlock(mgr.status[p]) THEN "sign" ELSE "inputs", b |-> <<>>]

(* ProgressStep::from_exit_state                                            *)
Continues(e) ==
    \/ e.st = "start"
    \/ e.st = "processing" /\ \E i \in DOMAIN e.txs : e.txs[i].s \in {"verify", "sign", "replace", "broadcast"}

(* update_state_if_newer, then the next iteration or the next exit          *)
Advance(v, e) ==
    /\ exits' = [exits EXCEPT ![v] = e]
    /\ disk' = StoreExitVtxoEntry(disk, v, e)
    /\ task' = [task EXCEPT !.i = 0, !.txs = <<>>,
                  !.pc = IF task.kind = "daemon" /\ Continues(e) THEN "step" ELSE "exits",
                  !.cur = IF task.kind = "daemon" /\ Continues(e) THEN v ELSE "none"]

(* An error ends the progress of this exit; e is the state to be committed. *)
Fail(v, e) ==
    /\ exits' = [exits EXCEPT ![v] = e]
    /\ disk' = StoreExitVtxoEntry(disk, v, e)
    /\ task' = [task EXCEPT !.pc = "exits", !.cur = "none", !.i = 0, !.txs = <<>>]

ProgressExit ==
    /\ task.pc = "exits"
    /\ \E v \in task.todo : task' = [task EXCEPT !.pc = "step", !.cur = v, !.todo = @ \ {v}]
    /\ UNCHANGED <<scene, chain, mgr, exits, disk>>

ProgressEnd ==
    /\ task.pc = "exits"
    /\ task.todo = {}
    /\ task' = NoTask
    /\ UNCHANGED <<scene, chain, mgr, exits, disk>>

At(st) == task.pc = "step" /\ exits[task.cur].st = st

(* A query to the chain source or the wallet's balance stops the step.      *)
StepFails ==
    /\ task.pc = "step"
    /\ exits[task.cur].st # "claimed"
    /\ MayFault(IF exits[task.cur].st = "start" THEN "funds" ELSE "query")
    /\ chain' = CountFault(chain)
    /\ Fail(task.cur, exits[task.cur])
    /\ UNCHANGED <<scene, mgr>>

StepStart ==
    /\ At("start")
    /\ Advance(task.cur, NewProcessing(exits[task.cur], task.cur))
    /\ UNCHANGED <<scene, chain, mgr>>

StepProcessing ==
    /\ At("processing")
    /\ task' = [task EXCEPT !.pc = "tx", !.i = 1, !.txs = exits[task.cur].txs]
    /\ UNCHANGED <<scene, chain, mgr, exits, disk>>

TxAt == ExitPath[task.cur][task.i]

InTx == task.pc = "tx" /\ task.i <= Len(task.txs)

TxDone(status) == [task EXCEPT !.pc = "tx", !.i = @ + 1, !.txs[task.i] = status]

(* The transactions done so far are committed with the error.               *)
FailTx == Fail(task.cur, [exits[task.cur] EXCEPT !.txs = task.txs])

(* progress_exit_tx without a package to make or to broadcast               *)
TxCheck ==
    /\ InTx
    /\ LET old == task.txs[task.i].s
           new == IF old \in {"verify", "inputs"} THEN CheckStatusFromInputs(TxAt) ELSE GetExitTxStatus(TxAt) IN
       /\ ~(old \in {"sign", "replace", "broadcast"} /\ new.s = old)
       /\ \/ new.s # "internal" /\ task' = TxDone(new) /\ UNCHANGED <<exits, disk>>
          \/ new.s = "internal" /\ FailTx
    /\ UNCHANGED <<scene, chain, mgr>>

(* set_wallet_child_tx *)
SetWalletChildTx(t) ==
    mgr' = [mgr EXCEPT !.status[t] = NotFound, !.pkg[t] = [child |-> "wallet", origin |-> Origin("wallet", <<>>)]]

(* create_exit_cpfp_tx and set_wallet_child_tx                              *)
TxMakePackage ==
    /\ InTx
    /\ task.txs[task.i].s \in {"sign", "replace"}
    /\ GetExitTxStatus(TxAt).s = task.txs[task.i].s
    /\ \/ /\ SetWalletChildTx(TxAt)
          /\ task' = TxDone([s |-> "broadcast", b |-> <<>>])
          /\ UNCHANGED <<chain, exits, disk>>
       \/ /\ MayFault("funds")
          /\ chain' = CountFault(chain)
          /\ FailTx
          /\ UNCHANGED mgr
    /\ UNCHANGED scene

(* broadcast_package                                                        *)
TxBroadcast ==
    /\ InTx
    /\ task.txs[task.i].s = "broadcast"
    /\ GetExitTxStatus(TxAt).s = "broadcast"
    /\ \/ /\ Accepted(TxAt)
          /\ BroadcastPackage(TxAt)
          /\ mgr' = [mgr EXCEPT !.status[TxAt] = Mempool]
          /\ task' = [task EXCEPT !.pc = "store"]
          /\ UNCHANGED <<exits, disk>>
       \/ /\ ~Accepted(TxAt)
          /\ FailTx
          /\ UNCHANGED <<chain, mgr>>
    /\ UNCHANGED scene

(* store_signed_p2a_cpfp, then get_exit_child_status                        *)
TxStore ==
    /\ task.pc = "store"
    /\ LET new == GetExitTxStatus(TxAt)
           e   == [exits[task.cur] EXCEPT !.txs = task.txs]
           d   == StoreSignedP2aCpfp(disk, TxAt, mgr.pkg[TxAt].child) IN
       \/ /\ new.s # "internal"
          /\ disk' = d
          /\ task' = TxDone(new)
          /\ UNCHANGED exits
       \/ /\ new.s = "internal"
          /\ disk' = StoreExitVtxoEntry(d, task.cur, e)
          /\ exits' = [exits EXCEPT ![task.cur] = e]
          /\ task' = [task EXCEPT !.pc = "exits", !.cur = "none", !.i = 0, !.txs = <<>>]
    /\ UNCHANGED <<scene, chain, mgr>>

(* All transactions looked at: the latest of their blocks if they are       *)
(* confirmed                                                                *)
TxsEnd ==
    /\ task.pc = "tx"
    /\ task.i > Len(task.txs)
    /\ LET e == exits[task.cur]
           blocks == {task.txs[i].b : i \in DOMAIN task.txs} IN
       IF \A i \in DOMAIN task.txs : task.txs[i].s = "confirmed"
         THEN \E b \in blocks : /\ \A c \in blocks : c[1] <= b[1]
                                /\ Advance(task.cur, NewAwaitingDelta(e, b))
         ELSE Advance(task.cur, [e EXCEPT !.txs = task.txs])
    /\ UNCHANGED <<scene, chain, mgr>>

(* Faulty variant: the exit's confirmation is not looked at again. *)
StepAwaitingDeltaBlind ==
    /\ At("awaiting")
    /\ LET e == exits[task.cur] IN
       Advance(task.cur, IF IsBlock(mgr.status[LastTx(task.cur)]) /\ chain.tip >= ClaimableHeight(e)
                           THEN NewClaimable(e, BlockRef(ClaimableHeight(e)), <<>>) ELSE e)
    /\ UNCHANGED <<scene, chain, mgr>>

(* ExitAwaitingDeltaState                                                   *)
StepAwaitingDelta ==
    /\ At("awaiting")
    /\ LET v == task.cur
           e == exits[v] IN
       Advance(v, CASE ~IsBlock(mgr.status[LastTx(v)]) -> NewProcessing(e, v)
                    [] IsBlock(mgr.status[LastTx(v)]) /\ chain.tip >= ClaimableHeight(e) ->
                         NewClaimable(e, BlockRef(ClaimableHeight(e)), <<>>)
                    [] OTHER -> e)
    /\ UNCHANGED <<scene, chain, mgr>>

(* ExitClaimableState: the block is looked at again, then the spends of the *)
(* exit in the mempool and from the last scanned block on                   *)
StepClaimable ==
    /\ At("claimable")
    /\ LET v     == task.cur
           e     == exits[v]
           start == IF e.scanned # <<>> /\ BlockRef(e.scanned[1]) = e.scanned THEN e.scanned[1] ELSE e.block[1]
           s     == TxsSpendingInputs(ClaimTx(v), start) IN
       Advance(v, CASE BlockRef(e.block[1]) # e.block -> NewClaimable(e, BlockRef(e.block[1]), <<>>)
                    [] BlockRef(e.block[1]) = e.block /\ IsBlock(s) -> NewClaimed(e, s)
                    [] BlockRef(e.block[1]) = e.block /\ s = Mempool -> NewClaimInProgress(e)
                    [] OTHER -> NewClaimable(e, e.block, BlockRef(chain.tip)))
    /\ UNCHANGED <<scene, chain, mgr>>

(* ExitClaimInProgressState: tx_status asks the network only once           *)
StepClaimInProgress ==
    /\ At("claiming")
    /\ LET v == task.cur
           e == exits[v]
           c == ClaimTx(v)
           s == IF mgr.status[c] = NotTracked THEN NetStatus(c) ELSE mgr.status[c] IN
       /\ mgr' = [mgr EXCEPT !.status[c] = s]
       /\ Advance(v, CASE IsBlock(s) -> NewClaimed(e, s)
                       [] s = Mempool -> e
                       [] s = NotFound -> NewClaimable(e, e.block, <<>>))
    /\ UNCHANGED <<scene, chain>>

StepClaimed ==
    /\ At("claimed")
    /\ Advance(task.cur, exits[task.cur])
    /\ UNCHANGED <<scene, chain, mgr>>

Progress ==
    \/ ProgressExit \/ ProgressEnd \/ StepFails \/ StepStart \/ StepProcessing
    \/ TxCheck \/ TxMakePackage \/ TxBroadcast \/ TxStore \/ TxsEnd
    \/ StepAwaitingDelta \/ StepClaimable \/ StepClaimInProgress \/ StepClaimed

Sync == (\E k \in {"daemon", "sync"} : SyncBegin(k)) \/ SyncTip \/ (\E t \in Tracked : SyncKey(t)) \/ SyncChild \/ SyncEnd \/ SyncFails

(* start_exit_for_vtxos                                                     *)
StartExit(v) ==
    /\ task.pc = "idle"
    /\ v \in scene.vtxos
    /\ exits[v] = NoExit
    /\ exits' = [exits EXCEPT ![v] = NewStart]
    /\ disk' = StoreExitVtxoEntry(disk, v, NewStart)
    /\ UNCHANGED <<scene, chain, mgr, task>>

(* drain_exits and the broadcast of its transaction, which the network      *)
(* accepts when the next block may contain it                               *)
DrainExits(v) ==
    /\ task.pc = "idle"
    /\ exits[v].st = "claimable"
    /\ chain.place[ClaimTx(v)] = -1
    /\ OnChain(LastTx(v)) /\ chain.place[LastTx(v)] + ExitDelta <= chain.tip + 1
    /\ chain' = [chain EXCEPT !.place[ClaimTx(v)] = 0]
    /\ UNCHANGED <<scene, mgr, exits, disk, task>>

(* The process stops; Exit::load reads and initialises the stored exits.    *)
Restart ==
    /\ MayFault("crash")
    /\ chain' = CountFault(chain)
    /\ exits' = disk.exits
    /\ mgr' \in TrackVtxoExits(Untracked, {v \in ExitVtxos : disk.exits[v] # NoExit})
    /\ task' = NoTask
    /\ UNCHANGED <<scene, disk>>

ExitNext == Network \/ Sync \/ Progress \/ (\E v \in ExitVtxos : StartExit(v) \/ DrainExits(v)) \/ Restart

ExitSpec == ExitInit /\ [][ExitNext]_exitVars

(* The daemon runs run_exits again and again: the lock is granted in turn.  *)
(* A call goes on, and the user claims what is claimable.                   *)
ExitFairSpec ==
    /\ ExitSpec
    /\ WF_exitVars(Sync \/ Progress) /\ SF_exitVars(SyncBegin("daemon"))
    /\ \A v \in ExitVtxos : WF_exitVars(DrainExits(v))

(***************************************************************************)
(* Properties                                                              *)
(***************************************************************************)
Places == {-1, 0} \cup Heights
BlockRefs == Heights \X {0, 1}
TxStatuses == [s : {"verify", "inputs", "sign", "replace", "broadcast", "sent", "confirmed"}, b : {<<>>} \cup BlockRefs]

ExitTypeOK ==
    /\ scene \in ExitModes
    /\ chain.tip \in Heights /\ chain.place \in [Tracked -> Places]
    /\ chain.child \in [ExitTxs -> Children \cup {"none"}]
    /\ mgr.status \in [Tracked -> {NotTracked, NotFound, Mempool} \cup BlockRefs]
    /\ mgr.init \subseteq ExitVtxos
    /\ \A t \in ExitTxs : mgr.pkg[t].child \in Children \cup {"none"}
    /\ \A v \in ExitVtxos : /\ exits[v].st \in {"none", "start", "processing", "awaiting", "claimable", "claiming", "claimed"}
                            /\ exits[v].st = "processing" <=> exits[v].txs # <<>>
                            /\ \A i \in DOMAIN exits[v].txs : exits[v].txs[i] \in TxStatuses

(* The relative lock time of the exit is over.                              *)
Matured(v) == OnChain(LastTx(v)) /\ chain.place[LastTx(v)] + ExitDelta <= chain.tip

(* As long as no block was replaced, an exit that is reported claimable is  *)
(* confirmed and its lock time is over, whoever broadcast its transactions  *)
(* and whatever statuses a restart took from the wallet or the database.    *)
ClaimableMatured ==
    chain.reorgs = 0 => \A v \in ExitVtxos : exits[v].st \in {"claimable", "claiming", "claimed"} => Matured(v)

(* The same for an exit reported as claimed: a claim was mined.             *)
ClaimedMined ==
    chain.reorgs = 0 => \A v \in ExitVtxos : exits[v].st = "claimed" => OnChain(ClaimTx(v))

(* Without faults and reorganisations the wallet broadcasts a package only  *)
(* when the network takes it: the input is mined and the transaction not.   *)
PackagesAccepted ==
    chain.reorgs = 0 /\ chain.faults = 0 /\ InTx /\ task.txs[task.i].s = "broadcast"
      /\ GetExitTxStatus(TxAt).s = "broadcast" => Accepted(TxAt)

(* A child that is in the mempool never has an origin in a block:           *)
(* "TxStatus was {:?} when origin is {}, this should never happen"          *)
(* (get_exit_tx_status), as long as no block was replaced.                  *)
OriginFits == chain.reorgs = 0 => \A t \in ExitTxs : GetExitTxStatus(t).s # "internal"

(* The chain stays as it is.                                                *)
QuietChain == chain.tip = scene.last

(* A started exit whose transactions are mined becomes claimable once its   *)
(* lock time is over, also after replaced children, restarts, failed        *)
(* queries and a reorganisation.                                            *)
ExitMatures ==
    \A v \in ExitVtxos :
      exits[v].st # "none" /\ QuietChain /\ Matured(v) ~> exits[v].st \in {"claimable", "claiming", "claimed"}

(* A transaction of a started exit that may be broadcast is in the mempool  *)
(* some time, also after an eviction or a reorganisation has dropped it.    *)
ExitsBroadcast ==
    \A t \in ExitTxs :
      (\E v \in ExitVtxos : exits[v].st # "none" /\ \E i \in 1 .. Len(ExitPath[v]) : ExitPath[v][i] = t) /\ ParentsMined(t)
        ~> chain.place[t] # -1 \/ ~ParentsMined(t)

(* A mined claim is noticed.                                                *)
ClaimsSeen ==
    \A v \in ExitVtxos : OnChain(ClaimTx(v)) /\ QuietChain ~> exits[v].st = "claimed"

(* An exit that waits for its lock time while its last transaction is no    *)
(* longer mined goes back to broadcasting.                                  *)
Recovers ==
    \A v \in ExitVtxos : exits[v].st = "awaiting" /\ QuietChain /\ ~OnChain(LastTx(v)) ~> exits[v].st # "awaiting"

(* An exit that was started goes on (exit/progress), whatever the chain     *)
(* does: it is broadcast, matures, is seen claimed, and starts again when   *)
(* a block is replaced.                                                     *)
ExitsProgress == ExitMatures /\ ExitsBroadcast /\ ClaimsSeen /\ Recovers

(***************************************************************************)
(* Properties that a reorganisation violates; see README.                  *)
(***************************************************************************)

(* OriginFits whatever happens to the chain                                 *)
OriginAlwaysFits == \A t \in ExitTxs : GetExitTxStatus(t).s # "internal"

(* Recovers for a claimable exit                                            *)
ClaimableRecovers ==
    \A v \in ExitVtxos : exits[v].st = "claimable" /\ QuietChain /\ ~OnChain(LastTx(v)) ~> exits[v].st # "claimable"
=============================================================================
