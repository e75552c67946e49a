---------------------------- MODULE BarkWallet -----------------------------
(***************************************************************************)
(* The state that the calls of a wallet share (bark/src/lib.rs, persist/): *)
(* its database, what the server and the chain hold, and the place of every*)
(* call.  A call is one invocation of a method of Wallet; calls overlap    *)
(* because the daemon, the user and the REST server use one Wallet.        *)
(* Every database statement and every await is a step of its own.          *)
(***************************************************************************)
EXTENDS WalletVtxos, Integers

CONSTANTS
    Calls,          \* the calls
    Owned,          \* vtxos the wallet has at the start
    Packages,       \* arkoor packages of one vtxo, sent to the wallet
    Modes,          \* the scenarios: which calls run, and which faults occur
    BoardExpiry,    \* vtxo_expiry_delta
    MaxFaults       \* faults in one behaviour

ASSUME WalletAssumption == BoardExpiry \in Nat /\ MaxFaults \in Nat

VARIABLES
    mode,           \* the scenario
    db,             \* the wallet's database
    net,            \* the server, the chain and the faults so far
    call            \* the place and the local variables of every call

walletVars == <<mode, db, net, call>>

(* A vtxo is named by its kind and by the call that makes it.               *)
Made == {"change", "board", "htlc", "revoked", "recv", "claim"}

Vtxos == (Made \X Calls) \cup ({"own"} \X Owned) \cup ({"oor"} \X Packages)

None == <<"none", "none">>

Statuses == {"none", "pending", "successful", "failed", "canceled"}

(* LightningSend: its state ("paid" has a preimage, "given_up" is finished  *)
(* without) and the call that made it, which names its HTLCs and movement.  *)
NoSend == [st |-> "none", by |-> None]

SendRow == {NoSend} \cup [st : {"open", "paid", "given_up"}, by : Calls]

(* LightningReceive *)
ReceiveRow == [htlcs : SUBSET Vtxos, move : Calls \cup {None},
               revealed : BOOLEAN, finished : BOOLEAN]

NewReceive == [htlcs |-> {}, move |-> None, revealed |-> FALSE, finished |-> FALSE]

(* tip is the height read by the call, todo the rows it has still to handle,*)
(* cur the one it handles, copy the LightningReceive it has loaded.         *)
Idle == [pc |-> "idle", ins |-> {}, tip |-> 0, todo |-> {}, cur |-> None, copy |-> NewReceive]

OneShot == {"send", "board", "pay", "join"}
Repeated == {"boards", "oors", "check", "claim"}

(* The wallet has some vtxos, and boards that were made by an earlier run   *)
(* and wait in the mempool.                                                 *)
Init ==
    /\ mode \in Modes
    /\ db = [vtxos  |-> [v \in Vtxos |-> IF v \in {"own"} \X mode.own THEN "spendable"
                                         ELSE IF v \in {"board"} \X mode.boards THEN "locked" ELSE "absent"],
             moves  |-> [m \in Calls \cup Packages |-> IF m \in mode.boards THEN "pending" ELSE "none"],
             boards |-> mode.boards,
             sends  |-> [c \in Calls |-> NoSend],
             recv   |-> NewReceive,
             exits  |-> {}]
    /\ net = [spent |-> {}, made |-> {"own"} \X mode.own, ins |-> [c \in Calls |-> {}],
              mailbox |-> mode.packages, tip |-> 0,
              chain |-> [c \in Calls |-> IF c \in mode.boards THEN 0 ELSE -1],
              expiry |-> [c \in Calls |-> BoardExpiry],
              pay |-> [c \in Calls |-> "none"], payBy |-> [c \in Calls |-> None],
              recv |-> "created", recvTip |-> 0, given |-> {}, exiting |-> {}, faults |-> 0]
    /\ call = [c \in Calls |-> Idle]

Kind(c) == mode.kinds[c]

Running(c) == call[c].pc \notin {"idle", "ok", "err", "panic"}

(* A call returns: a one-shot call is over, a repeated one may start again. *)
Ended(c, how) ==
    [call EXCEPT ![c] = IF Kind(c) \in OneShot \/ how = "panic"
                          THEN [Idle EXCEPT !.pc = how] ELSE Idle]

End(c, how) == call' = Ended(c, how)

Goto(c, pc) == call' = [call EXCEPT ![c].pc = pc]

At(c, kind, pc) == Kind(c) = kind /\ call[c].pc = pc

MayFail(fault) == fault \in mode.faults /\ net.faults < MaxFaults

Faulted(n) == [n EXCEPT !.faults = @ + 1]

(* A statement on the vtxo table and where the call goes on Ok and on Err.  *)
WriteVtxos(c, res, next) ==
    /\ db' = [db EXCEPT !.vtxos = res.tab]
    /\ IF res.ok THEN Goto(c, next) ELSE End(c, "err")
    /\ UNCHANGED <<mode, net>>

(* new_movement, new_movement_with_update: a row with status Pending        *)
NewMovement(d, m) == [d EXCEPT !.moves[m] = "pending"]

(* new_finished_movement *)
NewFinishedMovement(d, m, status) == [d EXCEPT !.moves[m] = status]

(* finish_movement, finish_movement_with_update: whatever the status was    *)
FinishMovement(d, m, status) == [d EXCEPT !.moves[m] = status]

(* store_pending_board *)
StorePendingBoard(d, c) == [d EXCEPT !.boards = @ \cup {c}]

(* remove_pending_board: no row is no error                                 *)
RemovePendingBoard(d, c) == [d EXCEPT !.boards = @ \ {c}]

(* store_new_pending_lightning_send: payment_hash is UNIQUE                 *)
MayStoreSend(d, h) == d.sends[h].st = "none"

StoreNewPendingLightningSend(d, h, c) == [d EXCEPT !.sends[h] = [st |-> "open", by |-> c]]

(* finish_lightning_send: an UPDATE, so no row is no error                  *)
FinishLightningSend(d, h, st) ==
    [d EXCEPT !.sends[h].st = IF @ = "none" THEN @ ELSE st]

RemoveLightningSend(d, h) == [d EXCEPT !.sends[h] = NoSend]

SetPreimageRevealed(d) == [d EXCEPT !.recv.revealed = TRUE]

UpdateLightningReceive(d, vs, m) == [d EXCEPT !.recv.htlcs = vs, !.recv.move = m]

FinishPendingLightningReceive(d) == [d EXCEPT !.recv.finished = TRUE]

(* select_vtxos_to_cover: spendable vtxos, which it does not lock.  Amounts *)
(* are abstracted to the number of vtxos that the payment needs.            *)
SelectVtxosToCover(n) ==
    {S \in SUBSET VtxosByState(db.vtxos, {"spendable"}) : Cardinality(S) = n}

(* derive_store_next_keypair reads the last index and inserts the next one; *)
(* idx is UNIQUE, so of two calls that read the same index one may fail.    *)
KeyIndexTaken(c) == \E o \in Calls \ {c} : call[o].pc = "key"

(* start_exit_for_vtxos: the row of the exit is stored before the vtxo is   *)
(* marked, so a vtxo that is spent already leaves a row behind.             *)
StartExitForVtxos(c, vs, next) ==
    LET new == vs \ net.exiting
        res == MarkVtxosAsSpent(db.vtxos, new) IN
    /\ db' = [db EXCEPT !.exits = @ \cup new, !.vtxos = res.tab]
    /\ IF res.ok THEN net' = [net EXCEPT !.exiting = @ \cup new] /\ Goto(c, next)
                 ELSE net' = net /\ End(c, "err")

(* The server gives its signature for a spend of ins, once.                 *)
ServerUnspent(ins) == ins \subseteq net.made \ net.spent

ServerSpends(n, ins, outs) == [n EXCEPT !.spent = @ \cup ins, !.made = @ \cup outs]

(* The process stops: what the calls had in memory is lost.  Exits are      *)
(* loaded from their rows.                                                  *)
Crash ==
    /\ MayFail("crash")
    /\ \E c \in Calls : Running(c)
    /\ call' = [c \in Calls |-> IF ~Running(c) THEN call[c]
                                ELSE IF Kind(c) \in OneShot THEN [Idle EXCEPT !.pc = "err"] ELSE Idle]
    /\ net' = Faulted([net EXCEPT !.exiting = db.exits])
    /\ UNCHANGED <<mode, db>>

(* A new block                                                              *)
NewBlock ==
    /\ net.tip < mode.blocks
    /\ net' = [net EXCEPT !.tip = @ + 1]
    /\ UNCHANGED <<mode, db, call>>

TypeOK ==
    /\ mode \in Modes
    /\ db.vtxos \in [Vtxos -> VtxoStates]
    /\ db.moves \in [Calls \cup Packages -> Statuses]
    /\ db.boards \subseteq Calls
    /\ db.sends \in [Calls -> SendRow]
    /\ db.recv \in ReceiveRow
    /\ net.made \cup net.spent \cup net.exiting \cup db.exits \subseteq Vtxos
    /\ net.tip \in 0 .. mode.blocks
    /\ net.faults \in 0 .. MaxFaults
    /\ \A c \in Calls : call[c].ins \subseteq Vtxos
=============================================================================
