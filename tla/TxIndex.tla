------------------------------- MODULE TxIndex -------------------------------
(***************************************************************************)
(* The server's view of the chain: the block index and the transaction      *)
(* index (server/src/txindex/mod.rs, block.rs), kept up to date by one task *)
(* that polls bitcoind, and the nursery that broadcasts transactions        *)
(* (server/src/txindex/broadcast.rs).                                       *)
(*                                                                          *)
(* bitcoind is the environment: its best block moves to any longer branch   *)
(* of a fixed tree of blocks.  An index entry is a weak reference to an     *)
(* object that lives while a caller holds it; an object is named by the     *)
(* caller that created it.                                                  *)
(***************************************************************************)
EXTENDS Naturals, Sequences, Functions

CONSTANTS
    Blocks,         \* all blocks that may be mined
    Base,           \* the deep tip the index starts from
    Parent,         \* Parent[b], for b # Base
    Path,           \* Path[b]: the chain that ends in b, from Base on
    TxsOf,          \* TxsOf[b]: the transactions block b confirms
    Txs,
    Callers,        \* tasks that ask the index for a transaction
    TxOf,           \* TxOf[c]: the one c asks for
    Getters,        \* the callers that use get, the others use the nursery
    Stored,         \* transactions in table bitcoin_transaction at start
    RpcFails,       \* whether send_raw_transaction may fail
    NULL

ASSUME BlocksAssumption ==
    /\ Base \in Blocks
    /\ Parent \in [Blocks \ {Base} -> Blocks]
    /\ Path \in [Blocks -> Seq(Blocks)]
    /\ Path[Base] = <<Base>>
    /\ \A b \in Blocks \ {Base} : Path[b] = Append(Path[Parent[b]], b)
    /\ TxsOf \in [Blocks -> SUBSET Txs]
    /\ TxOf \in [Callers -> Txs]
    /\ Getters \subseteq Callers
    /\ Stored \subseteq Txs
    /\ RpcFails \in BOOLEAN
    /\ NULL \notin Callers \cup Blocks
    /\ {"unseen", "mempool"} \cap Blocks = {}

(* A chain confirms a transaction once. *)
ASSUME TxsAssumption ==
    \A b \in Blocks : \A x, y \in Range(Path[b]) : x # y => TxsOf[x] \cap TxsOf[y] = {}

VARIABLES
    tip,        \* bitcoind: best block
    left,       \* bitcoind: the blocks that have dropped out of its chain
    returned,   \* bitcoind: whether one of those has come back
    mempool,    \* bitcoind: its mempool
    blocks,     \* BlockIndex.blocks
    db,         \* table bitcoin_transaction
    tx_map,     \* tx_map[t]: the object the index refers to, or NULL
    status,     \* status[o]: TxStatus of object o; a block is ConfirmedIn
    call,       \* call[c]: where caller c is
    seen,       \* seen[c]: the status c read from bitcoind and has not used yet
    holds,      \* holds[c]: the object c has, or NULL
    tracked,    \* objects inserted while the index was up to date
    upd,        \* where the update task is
    height,     \* next height update_blocks asks for
    new_blocks, \* blocks it fetched, highest first
    snapshot,   \* the mempool it read
    queue       \* transactions sent to the nursery task

tipVars == <<tip, left, returned>>
chainVars == <<tipVars, mempool>>
updVars == <<upd, height, new_blocks, snapshot>>
callVars == <<call, seen, holds>>
vars == <<chainVars, blocks, db, tx_map, status, callVars, tracked, updVars, queue>>

-----------------------------------------------------------------------------

Last(s) == s[Len(s)]
Front(s) == SubSeq(s, 1, Len(s) - 1)

Confirmed(b) == UNION {TxsOf[x] : x \in Range(Path[b])}

Statuses == {"unseen", "mempool"} \cup Blocks

(* bitcoind's tx_status *)
TxStatus(t) ==
    IF t \in Confirmed(tip)
      THEN CHOOSE x \in Range(Path[tip]) : t \in TxsOf[x]
      ELSE IF t \in mempool THEN "mempool" ELSE "unseen"

(* Upgrading the weak reference fails once nobody holds the object. *)
Live(o) == \E c \in Callers : holds[c] = o
Slot(t) == IF tx_map[t] # NULL /\ Live(tx_map[t]) THEN tx_map[t] ELSE NULL

TypeOK ==
    /\ tip \in Blocks
    /\ left \subseteq Blocks
    /\ returned \in BOOLEAN
    /\ mempool \subseteq Txs
    /\ blocks \in Seq(Blocks) /\ blocks # <<>>
    /\ db \subseteq Txs
    /\ tx_map \in [Txs -> Callers \cup {NULL}]
    /\ status \in [Callers -> Statuses]
    /\ call \in [Callers -> {"idle", "miss", "read", "insert", "done"}]
    /\ seen \in [Callers -> Statuses]
    /\ holds \in [Callers -> Callers \cup {NULL}]
    /\ tracked \subseteq Callers
    /\ upd \in {"idle", "fetch", "apply", "poll", "mempool"}
    /\ height \in Nat
    /\ new_blocks \in Seq(Blocks)
    /\ snapshot \subseteq Txs
    /\ queue \subseteq Txs

Init ==
    /\ tip = Base
    /\ left = {}
    /\ returned = FALSE
    /\ mempool = {}
    /\ blocks = <<Base>>
    /\ db = Stored
    /\ tx_map = [t \in Txs |-> NULL]
    /\ status = [c \in Callers |-> "unseen"]
    /\ call = [c \in Callers |-> "idle"]
    /\ seen = [c \in Callers |-> "unseen"]
    /\ holds = [c \in Callers |-> NULL]
    /\ tracked = {}
    /\ upd = "idle"
    /\ height = 0
    /\ new_blocks = <<>>
    /\ snapshot = {}
    /\ queue = {}

-----------------------------------------------------------------------------

(* bitcoind switches to a longer chain; transactions that drop out of the   *)
(* chain may come back to the mempool.                                      *)
NewTip(b) ==
    /\ Len(Path[b]) > Len(Path[tip])
    /\ tip' = b
    /\ left' = left \cup (Range(Path[tip]) \ Range(Path[b]))
    /\ returned' = (returned \/ Range(Path[b]) \cap left # {})
    /\ \E back \in SUBSET (Confirmed(tip) \ Confirmed(b)) :
          mempool' = (mempool \cup back) \ Confirmed(b)
    /\ UNCHANGED <<blocks, db, tx_map, status, callVars, tracked, updVars, queue>>

(* Someone else broadcasts one of the transactions, or it is evicted. *)
MempoolChanges(t) ==
    /\ t \notin Confirmed(tip)
    /\ mempool' = IF t \in mempool THEN mempool \ {t} ELSE mempool \cup {t}
    /\ UNCHANGED <<tipVars, blocks, db, tx_map, status, callVars, tracked, updVars, queue>>

-----------------------------------------------------------------------------

(* Nothing of the index lags behind bitcoind. *)
UpToDate == upd = "idle" /\ Last(blocks) = tip

(* A new object for caller c takes the place of its transaction. *)
NewObject(c) ==
    /\ status' = [status EXCEPT ![c] = seen[c]]
    /\ tx_map' = [tx_map EXCEPT ![TxOf[c]] = c]
    /\ holds' = [holds EXCEPT ![c] = c]
    /\ tracked' = IF UpToDate /\ seen[c] = TxStatus(TxOf[c])
                    THEN tracked \cup {c} ELSE tracked \ {c}

Reuse(c) ==
    /\ holds' = [holds EXCEPT ![c] = Slot(TxOf[c])]
    /\ UNCHANGED <<status, tx_map, tracked>>

(* TxIndex::register: the transaction is stored, its status is read. *)
Register(c) ==
    /\ c \notin Getters
    /\ call[c] = "idle"
    /\ db' = db \cup {TxOf[c]}
    /\ seen' = [seen EXCEPT ![c] = TxStatus(TxOf[c])]
    /\ call' = [call EXCEPT ![c] = "read"]
    /\ UNCHANGED <<chainVars, blocks, tx_map, status, holds, tracked, updVars, queue>>

(* TxIndexData::register_as, under the write lock, and TxNursery's          *)
(* inner_broadcast.                                                         *)
RegisterAs(c) ==
    /\ c \notin Getters
    /\ call[c] = "read"
    /\ IF Slot(TxOf[c]) # NULL THEN Reuse(c) ELSE NewObject(c)
    /\ call' = [call EXCEPT ![c] = "done"]
    /\ seen' = [seen EXCEPT ![c] = "unseen"]
    /\ queue' = queue \cup {TxOf[c]}
    /\ UNCHANGED <<chainVars, blocks, db, updVars>>

(* TxIndex::get *)
Get(c) ==
    /\ c \in Getters
    /\ call[c] = "idle"
    /\ IF Slot(TxOf[c]) # NULL
         THEN Reuse(c) /\ call' = [call EXCEPT ![c] = "done"]
         ELSE /\ call' = [call EXCEPT ![c] = "miss"]
              /\ UNCHANGED <<tx_map, status, holds, tracked>>
    /\ UNCHANGED <<chainVars, blocks, db, seen, updVars, queue>>

(* database_to_index: an unknown transaction is None. *)
DatabaseToIndex(c) ==
    /\ call[c] = "miss"
    /\ IF TxOf[c] \in db
         THEN /\ seen' = [seen EXCEPT ![c] = TxStatus(TxOf[c])]
              /\ call' = [call EXCEPT ![c] = "read"]
         ELSE /\ call' = [call EXCEPT ![c] = "idle"]
              /\ UNCHANGED seen
    /\ UNCHANGED <<chainVars, blocks, db, tx_map, status, holds, tracked, updVars, queue>>

(* get_or_insert looks under the read lock ... *)
GetOrInsert(c) ==
    /\ c \in Getters
    /\ call[c] = "read"
    /\ IF Slot(TxOf[c]) # NULL
         THEN /\ Reuse(c)
              /\ call' = [call EXCEPT ![c] = "done"]
              /\ seen' = [seen EXCEPT ![c] = "unseen"]
         ELSE /\ call' = [call EXCEPT ![c] = "insert"]
              /\ UNCHANGED <<tx_map, status, holds, tracked, seen>>
    /\ UNCHANGED <<chainVars, blocks, db, updVars, queue>>

(* ... and inserts under the write lock, without looking again. *)
Insert(c) ==
    /\ call[c] = "insert"
    /\ NewObject(c)
    /\ call' = [call EXCEPT ![c] = "done"]
    /\ seen' = [seen EXCEPT ![c] = "unseen"]
    /\ UNCHANGED <<chainVars, blocks, db, updVars, queue>>

(* The caller drops its handle. *)
DropTx(c) ==
    /\ call[c] = "done"
    /\ call' = [call EXCEPT ![c] = "idle"]
    /\ holds' = [holds EXCEPT ![c] = NULL]
    /\ UNCHANGED <<chainVars, blocks, db, tx_map, status, seen, tracked, updVars, queue>>

-----------------------------------------------------------------------------

(* BlockIndex::would_accept: the block's parent is where it should be. *)
WouldAccept(b) ==
    LET h == Len(Path[b]) IN
    /\ h > 1
    /\ h <= Len(blocks) + 1
    /\ blocks[h - 1] = Parent[b]

(* Faulty variant of try_insert: the parent is not compared. *)
CanInsertHeight(b) == Len(Path[b]) > 1 /\ Len(Path[b]) <= Len(blocks) + 1

(* BlockIndex::try_insert refuses what does not connect, ignores what it    *)
(* has, and drops the blocks the new one replaces.                          *)
CanInsert(b) ==
    LET h == Len(Path[b]) IN
    /\ h > 1
    /\ h <= Len(blocks) + 1
    /\ blocks[h - 1] = Parent[b]

TryInsert(b) ==
    LET h == Len(Path[b]) IN
    IF h <= Len(blocks) /\ blocks[h] = b
      THEN blocks
      ELSE Append(SubSeq(blocks, 1, h - 1), b)

(* process_block, for the object o of transaction t. *)
BlockStatus(b, t, o) ==
    CASE t \in TxsOf[b] -> b
      [] /\ t \notin TxsOf[b]
         /\ status[o] \in Blocks
         /\ Len(Path[status[o]]) >= Len(Path[b]) -> "mempool"
      [] OTHER -> status[o]

(* process_mempool: update_mempool, update_not_in_mempool. *)
MempoolStatus(t, o) ==
    CASE t \in snapshot -> "mempool"
      [] t \notin snapshot /\ status[o] = "mempool" -> "unseen"
      [] OTHER -> status[o]

(* The indexed objects get their new status. *)
UpdateStatus(new) ==
    status' = [o \in Callers |-> IF Slot(TxOf[o]) = o THEN new[o] ELSE status[o]]

(* drop_weak_refs, and update_blocks up to the loop. *)
UpdateStart ==
    /\ upd = "idle"
    /\ tx_map' = [t \in Txs |-> Slot(t)]
    /\ upd' = IF tip = Last(blocks) THEN "poll" ELSE "fetch"
    /\ height' = IF tip = Last(blocks) THEN 0 ELSE Len(Path[tip])
    /\ new_blocks' = <<>>
    /\ UNCHANGED <<chainVars, blocks, db, status, callVars, tracked, snapshot, queue>>

(* Faulty variant: only bitcoind's tip is fetched. *)
FetchBlockTip ==
    /\ upd = "fetch"
    /\ upd' = "apply"
    /\ new_blocks' = <<tip>>
    /\ height' = 0
    /\ UNCHANGED <<chainVars, blocks, db, tx_map, status, callVars, tracked, snapshot, queue>>

(* One get_block_hash and get_block_info of update_blocks; an unknown       *)
(* height ends it with an error.                                            *)
FetchBlock ==
    /\ upd = "fetch"
    /\ IF height > Len(Path[tip])
         THEN upd' = "poll" /\ new_blocks' = <<>> /\ height' = 0
         ELSE LET b == Path[tip][height] IN
              /\ new_blocks' = Append(new_blocks, b)
              /\ IF WouldAccept(b) \/ height = 1
                   THEN upd' = "apply" /\ height' = 0
                   ELSE upd' = "fetch" /\ height' = height - 1
    /\ UNCHANGED <<chainVars, blocks, db, tx_map, status, callVars, tracked, snapshot, queue>>

(* Faulty variant of process_block: what is confirmed stays as it is. *)
ProcessBlockKeeps ==
    /\ upd = "apply"
    /\ LET b == Last(new_blocks) IN
       IF CanInsert(b)
         THEN /\ blocks' = TryInsert(b)
              /\ UpdateStatus([o \in Callers |->
                     IF TxOf[o] \in TxsOf[b] /\ status[o] \notin Blocks THEN b ELSE status[o]])
              /\ new_blocks' = Front(new_blocks)
              /\ upd' = IF new_blocks' = <<>> THEN "poll" ELSE "apply"
         ELSE /\ upd' = "poll"
              /\ new_blocks' = <<>>
              /\ UNCHANGED <<blocks, status>>
    /\ UNCHANGED <<chainVars, db, tx_map, callVars, tracked, height, snapshot, queue>>

(* TxIndexData::process_block on the lowest fetched block; an error ends    *)
(* update_blocks.                                                           *)
ProcessBlock ==
    /\ upd = "apply"
    /\ LET b == Last(new_blocks) IN
       IF CanInsert(b)
         THEN /\ blocks' = TryInsert(b)
              /\ UpdateStatus([o \in Callers |-> BlockStatus(b, TxOf[o], o)])
              /\ new_blocks' = Front(new_blocks)
              /\ upd' = IF new_blocks' = <<>> THEN "poll" ELSE "apply"
         ELSE /\ upd' = "poll"
              /\ new_blocks' = <<>>
              /\ UNCHANGED <<blocks, status>>
    /\ UNCHANGED <<chainVars, db, tx_map, callVars, tracked, height, snapshot, queue>>

(* update_mempool reads the mempool ... *)
PollMempool ==
    /\ upd = "poll"
    /\ snapshot' = mempool
    /\ upd' = "mempool"
    /\ UNCHANGED <<chainVars, blocks, db, tx_map, status, callVars, tracked, height,
                   new_blocks, queue>>

(* ... and process_mempool applies it. *)
ProcessMempool ==
    /\ upd = "mempool"
    /\ UpdateStatus([o \in Callers |-> MempoolStatus(TxOf[o], o)])
    /\ upd' = "idle"
    /\ snapshot' = {}
    /\ UNCHANGED <<chainVars, blocks, db, tx_map, callVars, tracked, height, new_blocks, queue>>

-----------------------------------------------------------------------------

(* The nursery receives t and looks it up: only an unseen one is sent.      *)
(* Process.broadcast, the list of the rebroadcast timer, is created empty   *)
(* and nothing is ever added to it, so the timer's ticks change nothing.    *)
IndexedStatus(t) == IF Slot(t) # NULL THEN status[Slot(t)] ELSE TxStatus(t)

Broadcast(t) ==
    /\ t \in queue
    /\ queue' = queue \ {t}
    /\ mempool' = IF IndexedStatus(t) = "unseen" /\ t \notin Confirmed(tip)
                    THEN mempool \cup {t} ELSE mempool
    /\ UNCHANGED <<tipVars, blocks, db, tx_map, status, callVars, tracked, updVars>>

(* send_raw_transaction fails: a warning is logged. *)
BroadcastFails(t) ==
    /\ RpcFails
    /\ t \in queue
    /\ IndexedStatus(t) = "unseen"
    /\ queue' = queue \ {t}
    /\ UNCHANGED <<chainVars, blocks, db, tx_map, status, callVars, tracked, updVars>>

-----------------------------------------------------------------------------

Update == UpdateStart \/ FetchBlock \/ ProcessBlock \/ PollMempool \/ ProcessMempool

Call(c) ==
    \/ Register(c)
    \/ RegisterAs(c)
    \/ Get(c)
    \/ DatabaseToIndex(c)
    \/ GetOrInsert(c)
    \/ Insert(c)
    \/ DropTx(c)

Next ==
    \/ \E b \in Blocks : NewTip(b)
    \/ \E t \in Txs : MempoolChanges(t)
    \/ Update
    \/ \E c \in Callers : Call(c)
    \/ \E t \in Txs : Broadcast(t) \/ BroadcastFails(t)

Spec == Init /\ [][Next]_vars

(* The update task's timer keeps ticking, the nursery keeps receiving, and  *)
(* sending does not fail for ever if it is tried for ever.                  *)
Fairness ==
    /\ WF_vars(Update)
    /\ \A t \in Txs : WF_vars(Broadcast(t) \/ BroadcastFails(t))
    /\ \A t \in Txs : SF_vars(Broadcast(t))

FairSpec == Spec /\ Fairness

-----------------------------------------------------------------------------

(* The block index is always one chain from its first block on, whatever    *)
(* chains bitcoind's answers to update_blocks came from.                    *)
IndexLinked ==
    /\ blocks[1] = Base
    /\ \A i \in 2 .. Len(blocks) : blocks[i] # Base /\ Parent[blocks[i]] = blocks[i - 1]

(* A transaction that entered the index while it was up to date is never    *)
(* ConfirmedIn a block that the index does not have or that does not have   *)
(* it, however often bitcoind reorganises; and each time the index is up to *)
(* date again it is ConfirmedIn the block of the best chain that has it,    *)
(* provided that bitcoind has not come back to a branch it left.            *)
TrackedConfirmed ==
    \A c \in tracked :
        Slot(TxOf[c]) = c =>
            /\ status[c] \in Blocks => status[c] \in Range(blocks) /\ TxOf[c] \in TxsOf[status[c]]
            /\ UpToDate /\ ~returned /\ TxOf[c] \in Confirmed(tip) => status[c] = TxStatus(TxOf[c])

(* The block index catches up with bitcoind. *)
IndexCatchesUp == <>[](Last(blocks) = tip)

-----------------------------------------------------------------------------

(* "If the transaction was in a higher block it has been evicted" (mod.rs): *)
(* without the proviso of TrackedConfirmed.                                 *)
EvictedOnly ==
    UpToDate =>
        \A c \in tracked : Slot(TxOf[c]) = c /\ TxOf[c] \in Confirmed(tip) => status[c] \in Blocks

(* TxStatus::Unseen, "We have not seen this tx yet.": an up to date index   *)
(* does not say so of a transaction in the chain.                           *)
UnseenNotConfirmed ==
    UpToDate =>
        \A t \in Txs : Slot(t) # NULL /\ status[Slot(t)] = "unseen" => t \notin Confirmed(tip)

(* get_or_insert, "Get a tx from the index or insert when not present.": an *)
(* object that is in use stays in the index.                                *)
InsertWhenNotPresent ==
    [][\A t \in Txs :
          (Slot(t) # NULL /\ \E c \in Callers : holds'[c] = Slot(t)) => tx_map'[t] = Slot(t)]_vars

(* TxNursery::broadcast_tx, "Adds the transaction to TxIndex and ensures it *)
(* will be broadcast".                                                      *)
BroadcastEnsured ==
    \A t \in Txs : t \in queue ~> (t \in mempool \/ t \in Confirmed(tip))
=============================================================================
