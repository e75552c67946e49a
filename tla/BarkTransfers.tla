--------------------------- MODULE BarkTransfers ----------------------------
(***************************************************************************)
(* The wallet's payments without lightning: out-of-round payments          *)
(* (bark/src/arkoor.rs), the arkoor mailbox (sync_oors in bark/src/lib.rs) *)
(* and boards (bark/src/lib.rs).                                           *)
(***************************************************************************)
EXTENDS BarkWallet

(* send_arkoor_payment up to the request: the change key is derived, inputs *)
(* are selected and stay spendable.                                         *)
SendStart(c) ==
    /\ At(c, "send", "idle")
    /\ Goto(c, "key")
    /\ UNCHANGED <<mode, db, net>>

SendSelect(c) ==
    /\ At(c, "send", "key")
    /\ \/ \E ins \in SelectVtxosToCover(mode.needs[c]) :
            call' = [call EXCEPT ![c].pc = "cosign", ![c].ins = ins]
       \/ /\ SelectVtxosToCover(mode.needs[c]) = {} \/ KeyIndexTaken(c)
          /\ End(c, "err")
    /\ UNCHANGED <<mode, db, net>>

(* create_checkpointed_arkoor: the request to the server.  The server marks *)
(* the inputs as spent before it answers; the answer may be lost.           *)
SendCosign(c) ==
    /\ At(c, "send", "cosign")
    /\ LET signed == [ServerSpends(net, call[c].ins, {<<"change", c>>}) EXCEPT !.ins[c] = call[c].ins] IN
       \/ ServerUnspent(call[c].ins) /\ net' = signed /\ Goto(c, "new_move")
       \/ ServerUnspent(call[c].ins) /\ MayFail("lost") /\ net' = Faulted(signed) /\ End(c, "err")
       \/ ~ServerUnspent(call[c].ins) /\ net' = net /\ End(c, "err")
    /\ UNCHANGED <<mode, db>>

(* new_guarded_movement_with_update, then the package is posted; an error   *)
(* of the post is only logged.                                              *)
SendNewMovement(c) ==
    /\ At(c, "send", "new_move")
    /\ db' = NewMovement(db, c)
    /\ Goto(c, "post")
    /\ UNCHANGED <<mode, net>>

SendPost(c) ==
    /\ At(c, "send", "post")
    /\ Goto(c, "mark")
    /\ UNCHANGED <<mode, db, net>>

(* A failed statement drops the guard, which sets OnDropStatus::Failed.     *)
SendMarkSpent(c) ==
    /\ At(c, "send", "mark")
    /\ LET res == MarkVtxosAsSpent(db.vtxos, call[c].ins) IN
       IF res.ok THEN WriteVtxos(c, res, "store")
       ELSE /\ db' = FinishMovement([db EXCEPT !.vtxos = res.tab], c, "failed")
            /\ End(c, "err")
            /\ UNCHANGED <<mode, net>>

SendStoreChange(c) ==
    /\ At(c, "send", "store")
    /\ WriteVtxos(c, StoreVtxos(db.vtxos, {<<"change", c>>}, "spendable"), "finish")

SendFinish(c) ==
    /\ At(c, "send", "finish")
    /\ db' = FinishMovement(db, c, "successful")
    /\ End(c, "ok")
    /\ UNCHANGED <<mode, net>>

SendArkoorPayment(c) ==
    \/ SendStart(c) \/ SendSelect(c) \/ SendCosign(c) \/ SendNewMovement(c) \/ SendPost(c)
    \/ SendMarkSpent(c) \/ SendStoreChange(c) \/ SendFinish(c)

(* sync_oors, sync_arkoor_for_pubkeys: empty_arkoor_mailbox hands out every *)
(* package once.                                                            *)
OorsEmpty(c) ==
    /\ At(c, "oors", "idle")
    /\ net.mailbox # {}
    /\ \/ /\ net' = [net EXCEPT !.mailbox = {}, !.made = @ \cup ({"oor"} \X net.mailbox)]
          /\ call' = [call EXCEPT ![c].pc = "package", ![c].todo = net.mailbox]
       \/ /\ MayFail("lost")
          /\ net' = Faulted([net EXCEPT !.mailbox = {}, !.made = @ \cup ({"oor"} \X net.mailbox)])
          /\ UNCHANGED call
    /\ UNCHANGED <<mode, db>>

(* validate_vtxo looks its chain anchor up; a vtxo that fails, or that the  *)
(* table has, is skipped.  The rest of the package is stored.               *)
OorsStore(c) ==
    /\ At(c, "oors", "package")
    /\ \E p \in call[c].todo :
         LET new == {v \in {<<"oor", p>>} : db.vtxos[v] = "absent"} IN
         \/ /\ db' = [db EXCEPT !.vtxos = StoreVtxos(@, new, "spendable").tab]
            /\ call' = [call EXCEPT ![c].pc = "received", ![c].cur = p]
            /\ UNCHANGED net
         \/ /\ MayFail("lookup")
            /\ net' = Faulted(net)
            /\ call' = [call EXCEPT ![c].pc = "received", ![c].cur = p]
            /\ UNCHANGED db
    /\ UNCHANGED mode

OorsMovement(c) ==
    /\ At(c, "oors", "received")
    /\ db' = NewFinishedMovement(db, call[c].cur, "successful")
    /\ IF call[c].todo = {call[c].cur} THEN End(c, "ok")
       ELSE call' = [call EXCEPT ![c].pc = "package", ![c].todo = @ \ {call[c].cur}, ![c].cur = None]
    /\ UNCHANGED <<mode, net>>

SyncOors(c) == OorsEmpty(c) \/ OorsStore(c) \/ OorsMovement(c)

(***************************************************************************)
(* Boards: board makes a vtxo and the transaction that funds it,           *)
(* sync_pending_boards registers it with the server once it is confirmed,  *)
(* or gives it up.                                                         *)
(***************************************************************************)
CONSTANTS
    RequiredConfs,  \* required_board_confirmations
    HeightRange     \* heights are unsigned: arithmetic is modulo HeightRange

ASSUME BoardAssumption ==
    RequiredConfs \in Nat /\ HeightRange \in Nat \ {0}

BoardVtxo(c) == <<"board", c>>

(* board: key, tip, funding transaction and the server's cosignature.  The  *)
(* expiry is counted from the tip that is read here.                        *)
BoardStart(c) ==
    /\ At(c, "board", "idle")
    /\ call' = [call EXCEPT ![c].pc = "key", ![c].tip = net.tip]
    /\ UNCHANGED <<mode, db, net>>

BoardCosign(c) ==
    /\ At(c, "board", "key")
    /\ \/ net' = [net EXCEPT !.expiry[c] = call[c].tip + BoardExpiry] /\ Goto(c, "new_move")
       \/ KeyIndexTaken(c) /\ net' = net /\ End(c, "err")
    /\ UNCHANGED <<mode, db>>

BoardNewMovement(c) ==
    /\ At(c, "board", "new_move")
    /\ db' = NewMovement(db, c)
    /\ Goto(c, "store")
    /\ UNCHANGED <<mode, net>>

BoardStoreVtxo(c) ==
    /\ At(c, "board", "store")
    /\ WriteVtxos(c, StoreVtxos(db.vtxos, {BoardVtxo(c)}, "locked"), "pending")

(* finish_tx signs the funding transaction, then store_pending_board        *)
BoardStorePending(c) ==
    /\ At(c, "board", "pending")
    /\ \/ db' = StorePendingBoard(db, c) /\ net' = net /\ Goto(c, "broadcast")
       \/ MayFail("sign") /\ db' = db /\ net' = Faulted(net) /\ End(c, "err")
    /\ UNCHANGED mode

(* chain[c] is the height of the block that holds the funding transaction,  *)
(* 0 for the mempool and -1 when it is not known.                           *)
BoardBroadcast(c) ==
    /\ At(c, "board", "broadcast")
    /\ \/ net' = [net EXCEPT !.chain[c] = 0] /\ End(c, "ok")
       \/ MayFail("lost") /\ net' = Faulted(net) /\ End(c, "err")
    /\ UNCHANGED <<mode, db>>

BoardCall(c) ==
    \/ BoardStart(c) \/ BoardCosign(c) \/ BoardNewMovement(c) \/ BoardStoreVtxo(c)
    \/ BoardStorePending(c) \/ BoardBroadcast(c)

(* A block with a board's funding transaction                               *)
BoardConfirmed ==
    /\ net.tip < mode.blocks
    /\ \E c \in Calls : /\ net.chain[c] = 0
                        /\ net' = [net EXCEPT !.tip = @ + 1, !.chain[c] = net.tip + 1]
    /\ UNCHANGED <<mode, db, call>>

(* sync_pending_boards: the tip, then pending_boards, which lists the ids   *)
(* and reads the row of every id with expect.                               *)
SyncBoardsTip(c) ==
    /\ At(c, "boards", "idle")
    /\ db.boards # {}
    /\ call' = [call EXCEPT ![c].pc = "ids", ![c].tip = net.tip]
    /\ UNCHANGED <<mode, db, net>>

PendingBoardIds(c) ==
    /\ At(c, "boards", "ids")
    /\ IF db.boards = {} THEN End(c, "ok")
       ELSE call' = [call EXCEPT ![c].pc = "rows", ![c].todo = db.boards]
    /\ UNCHANGED <<mode, db, net>>

PendingBoardRows(c) ==
    /\ At(c, "boards", "rows")
    /\ IF call[c].todo \subseteq db.boards THEN Goto(c, "next") ELSE End(c, "panic")
    /\ UNCHANGED <<mode, db, net>>

(* current_height - (block_ref.height - 1)                                  *)
Confirmations(tip, height) == (tip - (height - 1)) % HeightRange

BoardExpired(b, tip) == net.expiry[b] < tip + RequiredConfs

(* tx_status of the board's funding transaction.  An error counts as not    *)
(* found.                                                                   *)
TxStatus(c) ==
    /\ At(c, "boards", "next")
    /\ IF call[c].todo = {} THEN End(c, "ok") /\ net' = net
       ELSE \E b \in call[c].todo :
         LET left   == [call EXCEPT ![c].todo = @ \ {b}, ![c].cur = b]
             lost   == BoardExpired(b, call[c].tip)
             confs  == IF net.chain[b] = 0 THEN 0 ELSE Confirmations(call[c].tip, net.chain[b]) IN
         \/ /\ net.chain[b] >= 0
            /\ call' = [left EXCEPT ![c].pc = IF confs >= RequiredConfs THEN "register" ELSE "next"]
            /\ net' = net
         \/ /\ net.chain[b] < 0
            /\ call' = [left EXCEPT ![c].pc = IF lost THEN "fail_move" ELSE "next"]
            /\ net' = net
         \/ /\ MayFail("lookup")
            /\ call' = [left EXCEPT ![c].pc = IF lost THEN "fail_move" ELSE "next"]
            /\ net' = Faulted(net)
    /\ UNCHANGED <<mode, db>>

(* register_board: the server accepts a board that is deep enough, also     *)
(* when it has it already.  Every error is only logged by the caller.       *)
ServerRegisters(b) ==
    net.chain[b] > 0 /\ net.tip - net.chain[b] + 1 >= RequiredConfs

RegisterRequest(c) ==
    /\ At(c, "boards", "register")
    /\ LET b == call[c].cur IN
       \/ /\ ServerRegisters(b)
          /\ net' = [net EXCEPT !.made = @ \cup {BoardVtxo(b)}]
          /\ Goto(c, "reg_state")
       \/ ~ServerRegisters(b) /\ net' = net /\ Goto(c, "next")
       \/ /\ ServerRegisters(b)
          /\ MayFail("lost")
          /\ net' = Faulted([net EXCEPT !.made = @ \cup {BoardVtxo(b)}])
          /\ Goto(c, "next")
    /\ UNCHANGED <<mode, db>>

(* update_vtxo_state_checked(Spendable, UNSPENT_STATES): a locked vtxo too  *)
RegisterState(c) ==
    /\ At(c, "boards", "reg_state")
    /\ LET res == UpdateVtxoStateChecked(db.vtxos, BoardVtxo(call[c].cur), "spendable", UnspentStates) IN
       /\ db' = [db EXCEPT !.vtxos = res.tab]
       /\ Goto(c, IF res.ok THEN "reg_move" ELSE "next")
    /\ UNCHANGED <<mode, net>>

RegisterMovement(c) ==
    /\ At(c, "boards", "reg_move")
    /\ IF call[c].cur \in db.boards
         THEN db' = FinishMovement(db, call[c].cur, "successful") /\ Goto(c, "reg_remove")
         ELSE db' = db /\ Goto(c, "next")
    /\ UNCHANGED <<mode, net>>

RegisterRemove(c) ==
    /\ At(c, "boards", "reg_remove")
    /\ db' = RemovePendingBoard(db, call[c].cur)
    /\ Goto(c, "next")
    /\ UNCHANGED <<mode, net>>

(* The board expired before it was confirmed: three statements; an error of *)
(* the second ends the whole sync.                                          *)
FailMovement(c) ==
    /\ At(c, "boards", "fail_move")
    /\ db' = FinishMovement(db, call[c].cur, "failed")
    /\ Goto(c, "fail_spent")
    /\ UNCHANGED <<mode, net>>

FailMarkSpent(c) ==
    /\ At(c, "boards", "fail_spent")
    /\ WriteVtxos(c, MarkVtxosAsSpent(db.vtxos, {BoardVtxo(call[c].cur)}), "fail_remove")

FailRemove(c) ==
    /\ At(c, "boards", "fail_remove")
    /\ db' = RemovePendingBoard(db, call[c].cur)
    /\ Goto(c, "next")
    /\ UNCHANGED <<mode, net>>

SyncPendingBoards(c) ==
    \/ SyncBoardsTip(c) \/ PendingBoardIds(c) \/ PendingBoardRows(c) \/ TxStatus(c)
    \/ RegisterRequest(c) \/ RegisterState(c) \/ RegisterMovement(c) \/ RegisterRemove(c)
    \/ FailMovement(c) \/ FailMarkSpent(c) \/ FailRemove(c)
=============================================================================
