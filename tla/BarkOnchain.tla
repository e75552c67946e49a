----------------------------- MODULE BarkOnchain -----------------------------
(***************************************************************************)
(* The wallet's on-chain side (bark/src/onchain/bdk.rs, chain.rs): a BDK   *)
(* wallet in memory whose changes are staged and then persisted, and the   *)
(* node it sends to and syncs from (bitcoind).  The wallet is used under a *)
(* write lock, so one operation runs at a time; a crash may end it between *)
(* any two awaits, and the wallet is then loaded from what was persisted.  *)
(***************************************************************************)
EXTENDS Naturals, Sequences, FiniteSets

CONSTANTS
    Deposits,       \* transactions of others that pay the wallet
    Sends,          \* transactions of the wallet, in the order it makes them
    StartHeight,    \* the birthday given to initial_wallet_scan
    PersistEvery,   \* 10,000 in inner_sync_bitcoind
    MaxBlocks,      \* bound: height of the chain
    MaxAddresses,   \* bound: addresses revealed
    OnchainCrashes  \* bound: stops of the process

ASSUME OnchainAssumption ==
    /\ StartHeight \in Nat /\ PersistEvery \in Nat \ {0}
    /\ MaxBlocks \in Nat /\ MaxAddresses \in Nat /\ OnchainCrashes \in Nat

VARIABLES
    nodeChain,  \* the chain: <<{transactions}, ...>>
    pool,       \* the node's mempool
    mem,        \* the wallet in memory: [cp, txs, conf, next]
    disk,       \* the changeset stored in the database
    inputOf,    \* inputOf[t]: the deposit that the send t takes as its input
    scanned,    \* initial_wallet_scan was done
    revealed,   \* addresses given to callers: <<index, ...>>
    op,         \* the running operation: [pc, tx, count, todo]
    stops

onchainVars == <<nodeChain, pool, mem, disk, inputOf, scanned, revealed, op, stops>>

NoOp == [pc |-> "idle", tx |-> "none", count |-> 0, todo |-> {}]
EmptyWallet == [cp |-> 0, txs |-> {}, conf |-> {}, next |-> 0]
Txs == Deposits \cup Sends
Mined == UNION {nodeChain[h] : h \in DOMAIN nodeChain}

OnchainTypeOK ==
    /\ Len(nodeChain) <= MaxBlocks /\ Mined \subseteq Txs /\ pool \subseteq Txs
    /\ \A w \in {mem, disk} :
           /\ w.cp \in 0..MaxBlocks /\ w.next \in 0..MaxAddresses
           /\ w.txs \subseteq Txs /\ w.conf \subseteq w.txs
    /\ inputOf \in [Sends -> Deposits \cup {"none"}]
    /\ scanned \in BOOLEAN /\ stops \in 0..OnchainCrashes
    /\ op.pc \in {"idle", "broadcast", "blocks", "rebroadcast"}

OnchainInit ==
    /\ nodeChain = <<>> /\ pool = {}
    /\ mem = EmptyWallet /\ disk = EmptyWallet
    /\ inputOf = [t \in Sends |-> "none"]
    /\ scanned = FALSE /\ revealed = <<>> /\ op = NoOp /\ stops = 0

-----------------------------------------------------------------------------
Fails == op' = NoOp /\ UNCHANGED disk

(* OnchainWallet::persist after the wallet became w: the staged changes are *)
(* stored at once, or stay staged.                                          *)
Persist(w) == mem' = w /\ disk' = w

(* address: the revealed index is persisted before it is returned. *)
Address ==
    /\ op = NoOp /\ mem.next < MaxAddresses
    /\ LET w == [mem EXCEPT !.next = @ + 1] IN
           \/ Persist(w) /\ revealed' = Append(revealed, mem.next)
           \/ mem' = w /\ UNCHANGED <<disk, revealed>>
    /\ UNCHANGED <<nodeChain, pool, inputOf, scanned, op, stops>>

(* Outputs the wallet takes as inputs: not spent by a transaction it knows. *)
Available(w) ==
    {d \in Deposits \cap w.txs : \A t \in Sends \cap w.txs : inputOf[t] # d}

(* finish_tx and store_signed_p2a_cpfp: the signed transaction is applied   *)
(* as unconfirmed and persisted; when that fails the caller gets an error.  *)
FinishTx(t) ==
    LET w == [mem EXCEPT !.txs = @ \cup {t}] IN
    \/ Persist(w) /\ op' = [NoOp EXCEPT !.pc = "broadcast", !.tx = t]
    \/ mem' = w /\ Fails

(* prepare_tx, prepare_drain_tx or the building of a CPFP child, then       *)
(* finish_tx.                                                               *)
SendOnchain(t) ==
    /\ op = NoOp
    /\ inputOf[t] = "none"
    /\ \E d \in Available(mem) : inputOf' = [inputOf EXCEPT ![t] = d]
    /\ FinishTx(t)
    /\ UNCHANGED <<nodeChain, pool, scanned, revealed, stops>>

(* The node takes a transaction unless it is mined or its input is spent. *)
Accepted(t) ==
    /\ t \notin Mined
    /\ \A o \in Sends \cap (pool \cup Mined) : inputOf[o] = inputOf[t] => o = t

(* broadcast_tx: accepted, refused, or accepted with the answer lost. *)
BroadcastTx(t) == pool' \in {pool} \cup (IF Accepted(t) THEN {pool \cup {t}} ELSE {})

Broadcast ==
    /\ op.pc = "broadcast"
    /\ BroadcastTx(op.tx)
    /\ op' = NoOp
    /\ UNCHANGED <<nodeChain, mem, disk, inputOf, scanned, revealed, stops>>

-----------------------------------------------------------------------------
(* initial_wallet_scan starts one block before the birthday. *)
ScanStart == IF StartHeight > 0 THEN StartHeight - 1 ELSE 0

InitialWalletScan ==
    /\ op = NoOp /\ ~scanned
    /\ ScanStart <= Len(nodeChain)
    /\ mem' = [mem EXCEPT !.cp = ScanStart]
    /\ op' = [NoOp EXCEPT !.pc = "blocks"]
    /\ UNCHANGED <<nodeChain, pool, disk, inputOf, scanned, revealed, stops>>

SyncStarts ==
    /\ op = NoOp /\ scanned
    /\ op' = [NoOp EXCEPT !.pc = "blocks"]
    /\ UNCHANGED <<nodeChain, pool, mem, disk, inputOf, scanned, revealed, stops>>

(* inner_sync_bitcoind: the next block is applied, and the wallet persisted *)
(* every so many blocks.                                                    *)
ApplyBlock ==
    /\ op.pc = "blocks" /\ mem.cp < Len(nodeChain)
    /\ LET new == nodeChain[mem.cp + 1]
           w == [mem EXCEPT !.cp = @ + 1, !.txs = @ \cup new, !.conf = @ \cup new]
           next == [op EXCEPT !.count = @ + 1] IN
           IF next.count % PersistEvery = 0
             THEN \/ Persist(w) /\ op' = next
                  \/ mem' = w /\ Fails
             ELSE mem' = w /\ op' = next /\ UNCHANGED disk
    /\ UNCHANGED <<nodeChain, pool, inputOf, scanned, revealed, stops>>

(* The end of inner_sync_bitcoind: at the node's tip, unconfirmed           *)
(* transactions that its mempool lacks are evicted; its mempool is applied  *)
(* and the wallet persisted.  What is still unconfirmed and was not seen is *)
(* rebroadcast.                                                             *)
ApplyMempool ==
    /\ op.pc = "blocks"
    /\ \E atTip \in {TRUE, FALSE} :
       LET unseen == mem.txs \ (mem.conf \cup pool)
           w == [mem EXCEPT !.txs = (@ \ (IF atTip THEN unseen ELSE {})) \cup pool] IN
       /\ atTip = (mem.cp = Len(nodeChain))
       /\ \/ Persist(w) /\ scanned' = TRUE
             /\ op' = [op EXCEPT !.pc = "rebroadcast", !.todo = w.txs \ (w.conf \cup pool)]
          \/ mem' = w /\ Fails /\ UNCHANGED scanned
    /\ UNCHANGED <<nodeChain, pool, inputOf, revealed, stops>>

(* rebroadcast_txs: an error is only logged. *)
RebroadcastTxs ==
    /\ op.pc = "rebroadcast"
    /\ IF op.todo = {}
         THEN op' = NoOp /\ UNCHANGED pool
         ELSE \E t \in op.todo :
                  /\ IF t \in Sends THEN BroadcastTx(t) ELSE UNCHANGED pool
                  /\ op' = [op EXCEPT !.todo = @ \ {t}]
    /\ UNCHANGED <<nodeChain, mem, disk, inputOf, scanned, revealed, stops>>

-----------------------------------------------------------------------------
(* The environment: deposits arrive, the node forgets, a block is mined,    *)
(* the process stops and load_or_create reads what was persisted.           *)
DepositSeen(d) ==
    /\ d \notin pool \cup Mined
    /\ pool' = pool \cup {d}
    /\ UNCHANGED <<nodeChain, mem, disk, inputOf, scanned, revealed, op, stops>>

PoolForgets(t) ==
    /\ t \in pool \cap Sends
    /\ pool' = pool \ {t}
    /\ UNCHANGED <<nodeChain, mem, disk, inputOf, scanned, revealed, op, stops>>

OnchainBlock ==
    /\ Len(nodeChain) < MaxBlocks
    /\ \E S \in SUBSET pool :
           /\ nodeChain' = Append(nodeChain, S)
           /\ pool' = pool \ S
    /\ UNCHANGED <<mem, disk, inputOf, scanned, revealed, op, stops>>

LoadOrCreate ==
    /\ stops < OnchainCrashes
    /\ op # NoOp \/ mem # disk
    /\ stops' = stops + 1
    /\ mem' = disk /\ op' = NoOp
    /\ UNCHANGED <<nodeChain, pool, disk, inputOf, scanned, revealed>>

OnchainNext ==
    \/ Address \/ Broadcast \/ InitialWalletScan \/ SyncStarts \/ ApplyBlock
    \/ ApplyMempool \/ RebroadcastTxs \/ OnchainBlock \/ LoadOrCreate
    \/ \E t \in Sends : SendOnchain(t) \/ PoolForgets(t)
    \/ \E d \in Deposits : DepositSeen(d)

-----------------------------------------------------------------------------
(* A transaction of the wallet that is in the mempool or the chain is in   *)
(* the stored wallet, whenever the process stops: its input is not taken   *)
(* for another payment.                                                    *)
BroadcastRemembered == Sends \cap (pool \cup Mined) \subseteq disk.txs

(* No address index is given to two callers, also after a restart. *)
AddressesFresh == \A i, j \in DOMAIN revealed : revealed[i] = revealed[j] => i = j

(* Every deposit in a block from the birthday to the stored checkpoint is  *)
(* in the stored wallet, however often the scan was interrupted.           *)
ScanComplete ==
    scanned => \A h \in DOMAIN nodeChain :
                   StartHeight <= h /\ h <= disk.cp => nodeChain[h] \subseteq disk.txs

(* The comment of rebroadcast_txs: a sync offers every unconfirmed         *)
(* transaction of the wallet to the node.                                  *)
UnsentKept ==
    [][\A t \in Sends : t \in disk.txs => t \in disk'.txs]_onchainVars
=============================================================================
