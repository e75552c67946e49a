--------------------------- MODULE BarkLightning ----------------------------
(***************************************************************************)
(* Lightning payments and receives of the wallet (bark/src/lightning/).    *)
(* pay is make_lightning_payment, check is check_lightning_payment, called *)
(* by the daemon for every open payment and by the user.  The server's side *)
(* is in LnPayment and LnReceive; here it answers from net.pay and net.recv. *)
(***************************************************************************)
EXTENDS BarkWallet

CONSTANTS
    HtlcExpiry,     \* htlc_expiry of the HTLC vtxos
    ExitHeight      \* their expiry less vtxo_refresh_expiry_threshold

ASSUME SendAssumption == HtlcExpiry \in Nat /\ ExitHeight \in Nat

Htlc(c) == <<"htlc", c>>

(* make_lightning_payment: refused when the payment hash has a row          *)
PayStart(c) ==
    /\ At(c, "pay", "idle")
    /\ IF MayStoreSend(db, mode.hash[c]) THEN Goto(c, "key") ELSE End(c, "err")
    /\ UNCHANGED <<mode, db, net>>

PaySelect(c) ==
    /\ At(c, "pay", "key")
    /\ \/ \E ins \in SelectVtxosToCover(mode.needs[c]) :
            call' = [call EXCEPT ![c].pc = "cosign", ![c].ins = ins]
       \/ /\ SelectVtxosToCover(mode.needs[c]) = {} \/ KeyIndexTaken(c)
          /\ End(c, "err")
    /\ UNCHANGED <<mode, db, net>>

(* request_lightning_pay_htlc_cosign, then validate_vtxo of the HTLCs       *)
PayCosign(c) ==
    /\ At(c, "pay", "cosign")
    /\ LET outs   == {Htlc(c), <<"change", c>>}
           signed == [ServerSpends(net, call[c].ins, outs) EXCEPT !.ins[c] = call[c].ins] IN
       \/ ServerUnspent(call[c].ins) /\ net' = signed /\ Goto(c, "new_move")
       \/ /\ ServerUnspent(call[c].ins)
          /\ MayFail("lost") \/ MayFail("lookup")
          /\ net' = Faulted(signed) /\ End(c, "err")
       \/ ~ServerUnspent(call[c].ins) /\ net' = net /\ End(c, "err")
    /\ UNCHANGED <<mode, db>>

PayNewMovement(c) ==
    /\ At(c, "pay", "new_move")
    /\ db' = NewMovement(db, c)
    /\ Goto(c, "store")
    /\ UNCHANGED <<mode, net>>

PayStoreHtlcs(c) ==
    /\ At(c, "pay", "store")
    /\ WriteVtxos(c, StoreVtxos(db.vtxos, {Htlc(c)}, "locked"), "mark")

(* As if the inputs were not marked *)
PayMarkNone(c) == At(c, "pay", "mark") /\ Goto(c, "get_tx") /\ UNCHANGED <<mode, db, net>>

PayMarkSpent(c) ==
    /\ At(c, "pay", "mark")
    /\ WriteVtxos(c, MarkVtxosAsSpent(db.vtxos, call[c].ins), "get_tx")

(* The change vtxo is validated against its chain anchor and stored.        *)
PayStoreChange(c) ==
    /\ At(c, "pay", "get_tx")
    /\ \/ WriteVtxos(c, StoreVtxos(db.vtxos, {<<"change", c>>}, "spendable"), "row")
       \/ MayFail("lookup") /\ net' = Faulted(net) /\ End(c, "err") /\ UNCHANGED <<mode, db>>

PayStoreRow(c) ==
    /\ At(c, "pay", "row")
    /\ IF MayStoreSend(db, mode.hash[c])
         THEN db' = StoreNewPendingLightningSend(db, mode.hash[c], c) /\ Goto(c, "initiate")
         ELSE db' = db /\ End(c, "err")
    /\ UNCHANGED <<mode, net>>

(* initiate_lightning_payment: the server starts the payment, once          *)
PayInitiate(c) ==
    /\ At(c, "pay", "initiate")
    /\ LET h    == mode.hash[c]
           open == net.pay[h] \in {"none", "failed"} /\ Htlc(c) \notin net.spent IN
       \/ open /\ net' = [net EXCEPT !.pay[h] = "open", !.payBy[h] = c] /\ End(c, "ok")
       \/ ~open /\ net' = net /\ End(c, "err")
       \/ MayFail("lost") /\ net' = Faulted(net) /\ End(c, "err")
    /\ UNCHANGED <<mode, db>>

MakeLightningPayment(c) ==
    \/ PayStart(c) \/ PaySelect(c) \/ PayCosign(c) \/ PayNewMovement(c) \/ PayStoreHtlcs(c)
    \/ PayMarkSpent(c) \/ PayStoreChange(c) \/ PayStoreRow(c) \/ PayInitiate(c)

(* The lightning network settles the payment, which makes its HTLC vtxos    *)
(* the server's, or fails it before they expire.                            *)
PaymentEnds ==
    \E h \in Calls :
      /\ net.pay[h] = "open"
      /\ \/ /\ net.tip <= HtlcExpiry
            /\ net' = [net EXCEPT !.pay[h] = "paid", !.spent = @ \cup {Htlc(net.payBy[h])}]
         \/ net' = [net EXCEPT !.pay[h] = "failed"]
      /\ UNCHANGED <<mode, db, call>>

(* check_lightning_payment: the row is loaded once; cur is the call that    *)
(* made it.                                                                 *)
CheckStart(c) ==
    /\ At(c, "check", "idle")
    /\ db.sends[mode.hash[c]].st \in {"open", "given_up"}
    /\ call' = [call EXCEPT ![c].pc = "status", ![c].cur = db.sends[mode.hash[c]].by]
    /\ UNCHANGED <<mode, db, net>>

(* As if a failed payment were revoked after its expiry only *)
CheckStatusLate(c) ==
    /\ At(c, "check", "status")
    /\ call' = [call EXCEPT ![c].tip = net.tip,
                            ![c].pc = IF net.pay[mode.hash[c]] = "paid" THEN "paid"
                                      ELSE IF net.tip > HtlcExpiry THEN "revoke" ELSE "over"]
    /\ UNCHANGED <<mode, db, net>>

(* The server's answer, or none, and the tip                                *)
CheckStatus(c) ==
    /\ At(c, "check", "status")
    /\ LET st == net.pay[mode.hash[c]] IN
       \E answer \in {st} \cup (IF MayFail("lost") THEN {"none"} ELSE {}) :
         /\ net' = IF answer = st THEN net ELSE Faulted(net)
         /\ call' = [call EXCEPT ![c].tip = net.tip,
                                 ![c].pc = IF answer = "paid" THEN "paid"
                                           ELSE IF answer = "failed" \/ net.tip > HtlcExpiry THEN "revoke"
                                           ELSE "over"]
    /\ UNCHANGED <<mode, db>>

CheckPending(c) ==
    /\ At(c, "check", "over")
    /\ End(c, "ok")
    /\ UNCHANGED <<mode, db, net>>

(* process_lightning_send_server_preimage: three statements                 *)
PaidRow(c) ==
    /\ At(c, "check", "paid")
    /\ db' = FinishLightningSend(db, mode.hash[c], "paid")
    /\ Goto(c, "paid_mark")
    /\ UNCHANGED <<mode, net>>

PaidMarkSpent(c) ==
    /\ At(c, "check", "paid_mark")
    /\ WriteVtxos(c, MarkVtxosAsSpent(db.vtxos, {Htlc(call[c].cur)}), "paid_move")

PaidMovement(c) ==
    /\ At(c, "check", "paid_move")
    /\ db' = FinishMovement(db, call[c].cur, "successful")
    /\ End(c, "ok")
    /\ UNCHANGED <<mode, net>>

(* revoke_bolt11_payment of the server: not when the payment succeeded, nor *)
(* while it is open before the expiry, nor twice.                           *)
ServerRevokes(c) ==
    LET st == net.pay[mode.hash[c]] IN
    /\ Htlc(call[c].cur) \notin net.spent
    /\ st \in {"none", "failed"} \/ (st = "open" /\ net.tip > HtlcExpiry)

(* process_lightning_revocation: the server's cosignature, then the         *)
(* movement, the new vtxo, the HTLCs and the row.  An error of any step     *)
(* leads to exiting when the vtxos are about to expire.                     *)
Unrevoked(c) ==
    IF call[c].tip > ExitHeight THEN Goto(c, "exit") ELSE End(c, "err")

(* As if a refused revocation were taken for a granted one *)
RevokeUnchecked(c) ==
    /\ At(c, "check", "revoke")
    /\ Goto(c, "rev_move")
    /\ UNCHANGED <<mode, db, net>>

RevokeCosign(c) ==
    /\ At(c, "check", "revoke")
    /\ LET by      == call[c].cur
           revoked == [ServerSpends(net, {Htlc(by)}, {<<"revoked", by>>})
                         EXCEPT !.pay[mode.hash[c]] = "failed"] IN
       \/ ServerRevokes(c) /\ net' = revoked /\ Goto(c, "rev_move")
       \/ ServerRevokes(c) /\ MayFail("lost") /\ net' = Faulted(revoked) /\ Unrevoked(c)
       \/ ~ServerRevokes(c) /\ net' = net /\ Unrevoked(c)
    /\ UNCHANGED <<mode, db>>

RevokeMovement(c) ==
    /\ At(c, "check", "rev_move")
    /\ db' = FinishMovement(db, call[c].cur, "failed")
    /\ Goto(c, "rev_store")
    /\ UNCHANGED <<mode, net>>

RevokeStore(c) ==
    /\ At(c, "check", "rev_store")
    /\ LET res == StoreVtxos(db.vtxos, {<<"revoked", call[c].cur>>}, "spendable") IN
       /\ db' = [db EXCEPT !.vtxos = res.tab]
       /\ IF res.ok THEN Goto(c, "rev_mark") ELSE Unrevoked(c)
    /\ UNCHANGED <<mode, net>>

RevokeMarkSpent(c) ==
    /\ At(c, "check", "rev_mark")
    /\ LET res == MarkVtxosAsSpent(db.vtxos, {Htlc(call[c].cur)}) IN
       /\ db' = [db EXCEPT !.vtxos = res.tab]
       /\ IF res.ok THEN Goto(c, "rev_row") ELSE Unrevoked(c)
    /\ UNCHANGED <<mode, net>>

RevokeRow(c) ==
    /\ At(c, "check", "rev_row")
    /\ db' = RemoveLightningSend(db, mode.hash[c])
    /\ End(c, "ok")
    /\ UNCHANGED <<mode, net>>

(* start_exit_for_vtxos, the movement and finish_lightning_send(None)       *)
ExitHtlcs(c) ==
    /\ At(c, "check", "exit")
    /\ StartExitForVtxos(c, {Htlc(call[c].cur)}, "exit_move")
    /\ UNCHANGED mode

ExitMovement(c) ==
    /\ At(c, "check", "exit_move")
    /\ db' = FinishMovement(db, call[c].cur, "failed")
    /\ Goto(c, "exit_row")
    /\ UNCHANGED <<mode, net>>

ExitRow(c) ==
    /\ At(c, "check", "exit_row")
    /\ db' = FinishLightningSend(db, mode.hash[c], "given_up")
    /\ End(c, "err")
    /\ UNCHANGED <<mode, net>>

CheckLightningPayment(c) ==
    \/ CheckStart(c) \/ CheckStatus(c) \/ CheckPending(c)
    \/ PaidRow(c) \/ PaidMarkSpent(c) \/ PaidMovement(c)
    \/ RevokeCosign(c) \/ RevokeMovement(c) \/ RevokeStore(c) \/ RevokeMarkSpent(c) \/ RevokeRow(c)
    \/ ExitHtlcs(c) \/ ExitMovement(c) \/ ExitRow(c)

(***************************************************************************)
(* Receives: one invoice, for which the daemon and the user call           *)
(* try_claim_lightning_receive.                                            *)
(***************************************************************************)
CONSTANT
    ClaimDelta      \* blocks between htlc_expiry - safe_exit_margin and the
                    \* height at which the claim was prepared

ASSUME ReceiveAssumption == ClaimDelta \in Nat

(* The payment arrives at the server; it is canceled before its HTLCs time  *)
(* out, unless it was settled.                                              *)
PayerPays ==
    /\ net.recv = "created"
    /\ \E c \in Calls : Kind(c) = "claim"
    /\ net' = [net EXCEPT !.recv = "accepted"]
    /\ UNCHANGED <<mode, db, call>>

ServerCancels ==
    /\ net.recv \in {"accepted", "ready"}
    /\ net.tip > net.recvTip + ClaimDelta
    /\ net' = [net EXCEPT !.recv = "canceled"]
    /\ UNCHANGED <<mode, db, call>>

(* check_lightning_receive: the row is loaded; a row with HTLCs needs no    *)
(* request.                                                                 *)
ReceiveLoad(c) ==
    /\ At(c, "claim", "idle")
    /\ ~db.recv.finished
    /\ call' = [call EXCEPT ![c].pc = IF db.recv.htlcs = {} THEN "status" ELSE "claim_key",
                            ![c].copy = db.recv, ![c].tip = net.tip]
    /\ UNCHANGED <<mode, db, net>>

ReceiveStatus(c) ==
    /\ At(c, "claim", "status")
    /\ \/ net.recv \in {"accepted", "ready"} /\ Goto(c, "key")
       \/ net.recv = "canceled" /\ Goto(c, "drop")
       \/ net.recv \in {"created", "settled"} /\ End(c, "ok")
    /\ UNCHANGED <<mode, db, net>>

(* prepare_lightning_receive_claim with a key of this call.  The server     *)
(* gives HTLC vtxos once; asked again it returns the same ones, which the   *)
(* wallet refuses because their key is not the one of this request.         *)
PrepareClaim(c) ==
    /\ At(c, "claim", "key")
    /\ LET ready == [net EXCEPT !.recv = "ready", !.recvTip = call[c].tip,
                                !.given = {<<"recv", c>>}, !.made = @ \cup {<<"recv", c>>}] IN
       \/ net.recv = "accepted" /\ net' = ready /\ Goto(c, "recv_move")
       \/ /\ net.recv = "accepted"
          /\ MayFail("lost") \/ MayFail("lookup")
          /\ net' = Faulted(ready) /\ End(c, "err")
       \/ net.recv # "accepted" /\ net' = net /\ End(c, "err")
       \/ KeyIndexTaken(c) /\ net' = net /\ End(c, "err")
    /\ UNCHANGED <<mode, db>>

ReceiveMovement(c) ==
    /\ At(c, "claim", "recv_move")
    /\ IF call[c].copy.move = None
         THEN db' = NewMovement(db, c) /\ call' = [call EXCEPT ![c].pc = "recv_store", ![c].copy.move = c]
         ELSE db' = db /\ Goto(c, "recv_store")
    /\ UNCHANGED <<mode, net>>

ReceiveStore(c) ==
    /\ At(c, "claim", "recv_store")
    /\ WriteVtxos(c, StoreVtxos(db.vtxos, {<<"recv", c>>}, "locked"), "recv_row")

ReceiveRowUpdate(c) ==
    /\ At(c, "claim", "recv_row")
    /\ db' = UpdateLightningReceive(db, {<<"recv", c>>}, call[c].copy.move)
    /\ call' = [call EXCEPT ![c].pc = "claim_key", ![c].copy.htlcs = {<<"recv", c>>}]
    /\ UNCHANGED <<mode, net>>

CheckLightningReceive(c) ==
    \/ ReceiveLoad(c) \/ ReceiveStatus(c) \/ PrepareClaim(c)
    \/ ReceiveMovement(c) \/ ReceiveStore(c) \/ ReceiveRowUpdate(c)

(* claim_lightning_receive: the database notes that the preimage leaves the *)
(* wallet, the copy of the row in memory does not.                          *)
ClaimReveal(c) ==
    /\ At(c, "claim", "claim_key")
    /\ \/ db' = SetPreimageRevealed(db) /\ Goto(c, "claim")
       \/ KeyIndexTaken(c) /\ db' = db /\ Goto(c, "failed")
    /\ UNCHANGED <<mode, net>>

(* claim_lightning_receive of the server settles the invoice and cosigns,   *)
(* once.  validate_vtxo of the outputs may fail too.                        *)
ServerClaims(c) == net.recv = "ready" /\ call[c].copy.htlcs \subseteq net.given \ net.spent

ClaimRequest(c) ==
    /\ At(c, "claim", "claim")
    /\ LET settled == [ServerSpends(net, call[c].copy.htlcs, {<<"claim", c>>})
                         EXCEPT !.recv = "settled", !.ins[c] = call[c].copy.htlcs] IN
       \/ ServerClaims(c) /\ net' = settled /\ Goto(c, "claim_store")
       \/ /\ ServerClaims(c)
          /\ MayFail("lost") \/ MayFail("lookup")
          /\ net' = Faulted(settled) /\ Goto(c, "failed")
       \/ ~ServerClaims(c) /\ net' = net /\ Goto(c, "failed")
    /\ UNCHANGED <<mode, db>>

ClaimStore(c) ==
    /\ At(c, "claim", "claim_store")
    /\ db' = [db EXCEPT !.vtxos = StoreVtxos(@, {<<"claim", c>>}, "spendable").tab]
    /\ Goto(c, "claim_mark")
    /\ UNCHANGED <<mode, net>>

ClaimMarkSpent(c) ==
    /\ At(c, "claim", "claim_mark")
    /\ LET res == MarkVtxosAsSpent(db.vtxos, call[c].copy.htlcs) IN
       /\ db' = [db EXCEPT !.vtxos = res.tab]
       /\ Goto(c, IF res.ok THEN "claim_move" ELSE "failed")
    /\ UNCHANGED <<mode, net>>

ClaimMovement(c) ==
    /\ At(c, "claim", "claim_move")
    /\ db' = FinishMovement(db, call[c].copy.move, "successful")
    /\ Goto(c, "claim_row")
    /\ UNCHANGED <<mode, net>>

ClaimRow(c) ==
    /\ At(c, "claim", "claim_row")
    /\ db' = FinishPendingLightningReceive(db)
    /\ End(c, "ok")
    /\ UNCHANGED <<mode, net>>

ClaimLightningReceive(c) ==
    \/ ClaimReveal(c) \/ ClaimRequest(c) \/ ClaimStore(c)
    \/ ClaimMarkSpent(c) \/ ClaimMovement(c) \/ ClaimRow(c)

(* try_claim_lightning_receive after a failed claim: nothing yet when there *)
(* is time left                                                             *)
ClaimFailed(c) ==
    /\ At(c, "claim", "failed")
    /\ IF net.tip > net.recvTip + ClaimDelta THEN Goto(c, "drop") ELSE End(c, "err")
    /\ UNCHANGED <<mode, db, net>>

(* exit_or_cancel_lightning_receive, on the copy: exit when the preimage is *)
(* out, else give the HTLC vtxos up.                                        *)
DropReceive(c) ==
    /\ At(c, "claim", "drop")
    /\ LET copy == call[c].copy IN
       \/ /\ copy.htlcs # {} /\ copy.revealed
          /\ StartExitForVtxos(c, copy.htlcs, "drop_failed")
          /\ UNCHANGED mode
       \/ /\ copy.htlcs # {} /\ ~copy.revealed
          /\ WriteVtxos(c, MarkVtxosAsSpent(db.vtxos, copy.htlcs), "drop_canceled")
       \/ /\ copy.htlcs = {}
          /\ Goto(c, IF copy.revealed /\ copy.move # None THEN "drop_canceled" ELSE "drop_row")
          /\ UNCHANGED <<mode, db, net>>

DropMovement(c) ==
    /\ Kind(c) = "claim"
    /\ call[c].pc \in {"drop_failed", "drop_canceled"}
    /\ db' = FinishMovement(db, call[c].copy.move,
                            IF call[c].pc = "drop_failed" THEN "failed" ELSE "canceled")
    /\ Goto(c, "drop_row")
    /\ UNCHANGED <<mode, net>>

DropRow(c) ==
    /\ At(c, "claim", "drop_row")
    /\ db' = FinishPendingLightningReceive(db)
    /\ End(c, "err")
    /\ UNCHANGED <<mode, net>>

ExitOrCancelLightningReceive(c) == DropReceive(c) \/ DropMovement(c) \/ DropRow(c)

TryClaimLightningReceive(c) ==
    \/ CheckLightningReceive(c) \/ ClaimLightningReceive(c)
    \/ ClaimFailed(c) \/ ExitOrCancelLightningReceive(c)
=============================================================================
