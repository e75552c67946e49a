------------------------------ MODULE LnReceive ------------------------------
(***************************************************************************)
(* Receiving a lightning payment through the server: the hold invoice, its  *)
(* HTLC subscription, the claim by the receiving user (server/src/ln/mod.rs)*)
(* and the monitor that accepts and cancels (ln/cln/node.rs).  The payer is *)
(* either somewhere on the lightning network or another user of the server, *)
(* whose payment the manager turns over without CLN (ln/cln/mod.rs).        *)
(* One payment hash.  A status is written without looking at the one it     *)
(* replaces (store_lightning_htlc_subscription_status), except when the     *)
(* HTLC vtxos are stored.                                                   *)
(***************************************************************************)
EXTENDS Naturals, Sequences

CONSTANTS
    Requests,       \* the receiver's calls that may be under way together
    ReceiveModes,   \* what may happen in a behaviour:
                    \*   intra: another user of the server may pay the invoice
                    \*   cancelFails: the manager may fail to cancel the hold invoice
                    \*   expires: the invoice may expire
                    \*   timeouts: receive_htlc_forward_timeout may pass
                    \*   blocks: blocks may arrive while HTLCs are held
                    \*   subs: how many subscriptions the receiver makes
    MaxSubs         \* bound on subs

VARIABLES
    receiveMode,
    subs,       \* rows of lightning_htlc_subscription, oldest first
    hold,       \* the invoice in the hold plugin
    overdue,    \* its HTLCs are held for longer than the timeout
    unfit,      \* its HTLCs expire too soon for the tip
    invoiceExpired,    \* the invoice is invoiceExpired
    attempt,    \* the open or last payment attempt of the other user
    payer,      \* that user's HTLC: "none", "held", "revoked"
    mgr,        \* the manager's start_payment
    watch,        \* the monitor's process_htlc_subscriptions
    req,        \* req[c]: where the receiver's call c is
    given,      \* given[i]: sets of HTLC vtxos handed out for subscription i
    claimed     \* a claim was cosigned

network == <<overdue, unfit, invoiceExpired>>
intra == <<attempt, payer, mgr>>
receiver == <<req, given, claimed>>
moved == <<subs, hold, network, intra, watch, receiver>>
receiveVars == <<receiveMode, moved>>

-----------------------------------------------------------------------------

Statuses == {"created", "accepted", "htlcs-ready", "settled", "canceled"}
NoTask == [pc |-> "idle"]
Has(status) == \E i \in DOMAIN subs : subs[i] = status

ReceiveInit ==
    /\ receiveMode \in ReceiveModes
    /\ subs = <<>>
    /\ hold = "none"
    /\ overdue = FALSE /\ unfit = FALSE /\ invoiceExpired = FALSE
    /\ attempt = "none"
    /\ payer = "none"
    /\ mgr = NoTask
    /\ watch = NoTask
    /\ req = [c \in Requests |-> NoTask]
    /\ given = [i \in 1 .. MaxSubs |-> 0]
    /\ claimed = FALSE

(* store_lightning_htlc_subscription_status *)
StoreStatus(i, status) == subs' = [subs EXCEPT ![i] = status]

(* start_lightning_receive, generate_invoice: a new subscription with a new *)
(* or an injected hold invoice.                                             *)
StartReceive ==
    /\ Len(subs) < receiveMode.subs /\ mgr = NoTask
    /\ ~Has("settled") /\ ~Has("accepted") /\ ~Has("created")
    /\ hold \in {"none", "cancelled"}
    /\ ~invoiceExpired
    /\ hold' = "unpaid"
    /\ subs' = Append(subs, "created")
    /\ UNCHANGED <<network, intra, watch, receiver>>

-----------------------------------------------------------------------------
(* The lightning network and time *)

NetworkPays ==
    /\ hold = "unpaid" /\ ~invoiceExpired
    /\ hold' = "accepted"
    /\ overdue' = FALSE /\ unfit' = FALSE
    /\ UNCHANGED <<subs, invoiceExpired, intra, watch, receiver>>

TimeoutPasses ==
    /\ receiveMode.timeouts /\ hold = "accepted" /\ ~overdue
    /\ overdue' = TRUE
    /\ UNCHANGED <<subs, hold, unfit, invoiceExpired, intra, watch, receiver>>

BlocksArrive ==
    /\ receiveMode.blocks /\ hold = "accepted" /\ ~unfit
    /\ unfit' = TRUE
    /\ UNCHANGED <<subs, hold, overdue, invoiceExpired, intra, watch, receiver>>

InvoiceExpires ==
    /\ receiveMode.expires /\ subs # <<>> /\ ~invoiceExpired
    /\ invoiceExpired' = TRUE
    /\ UNCHANGED <<subs, hold, overdue, unfit, intra, watch, receiver>>

-----------------------------------------------------------------------------
(* The manager: a payment by another user of the server *)

(* start_payment stores the attempt and finds the subscription. *)
PayIntra ==
    /\ receiveMode.intra /\ attempt = "none" /\ mgr = NoTask /\ subs # <<>>
    /\ payer' = "held"
    /\ IF subs[Len(subs)] = "created"
         THEN attempt' = "open" /\ mgr' = [pc |-> "accept", sub |-> Len(subs)]
         ELSE attempt' = "failed" /\ UNCHANGED mgr
    /\ UNCHANGED <<subs, hold, network, watch, receiver>>

(* set_created_subscription_to_accepted stores the status ... *)
AcceptIntra ==
    /\ mgr.pc = "accept"
    /\ StoreStatus(mgr.sub, "accepted")
    /\ mgr' = [mgr EXCEPT !.pc = "cancel"]
    /\ UNCHANGED <<hold, network, attempt, payer, watch, receiver>>

(* Faulty variant: the hold invoice stays. *)
CancelIntraSkipped ==
    /\ mgr.pc = "cancel"
    /\ mgr' = NoTask
    /\ UNCHANGED <<subs, hold, network, attempt, payer, watch, receiver>>

(* ... and cancels the hold invoice; when that fails so does the attempt.   *)
CancelIntra ==
    /\ mgr.pc = "cancel"
    /\ mgr' = NoTask
    /\ \/ /\ hold # "paid"
          /\ hold' = "cancelled"
          /\ UNCHANGED attempt
       \/ /\ receiveMode.cancelFails \/ hold = "paid"
          /\ attempt' = IF attempt = "open" THEN "failed" ELSE attempt
          /\ UNCHANGED hold
    /\ UNCHANGED <<subs, network, payer, watch, receiver>>

(* revoke_bolt11_payment *)
RevokeIntra ==
    /\ payer = "held" /\ attempt = "failed" /\ mgr = NoTask
    /\ payer' = "revoked"
    /\ UNCHANGED <<subs, hold, network, attempt, mgr, watch, receiver>>

-----------------------------------------------------------------------------
(* The monitor: process_htlc_subscriptions *)

(* get_open_lightning_htlc_subscriptions, latest first *)
ListSubscriptions ==
    /\ watch = NoTask
    /\ \E i \in DOMAIN subs : subs[i] \notin {"settled", "canceled"}
    /\ watch' = [pc |-> "next",
               todo |-> SelectSeq([i \in DOMAIN subs |->
                    LET j == Len(subs) + 1 - i IN [sub |-> j, status |-> subs[j]]],
                    LAMBDA r : r.status \notin {"settled", "canceled"})]
    /\ UNCHANGED <<subs, hold, network, intra, receiver>>

(* What is done for a listed subscription, from the hold plugin's list. *)
Decide(r) ==
    IF hold = "accepted"
      THEN IF r.status = "accepted" /\ overdue THEN "cancel"
           ELSE IF unfit THEN "unfit"
           ELSE IF r.status = "created" THEN "accept" ELSE "skip"
      ELSE IF invoiceExpired THEN "cancel" ELSE "skip"

CheckSubscription ==
    /\ watch.pc = "next"
    /\ watch' = IF watch.todo = <<>> THEN NoTask
              ELSE IF Decide(Head(watch.todo)) = "skip" THEN [watch EXCEPT !.todo = Tail(@)]
              ELSE [watch EXCEPT !.pc = Decide(Head(watch.todo))]
    /\ UNCHANGED <<subs, hold, network, intra, receiver>>

MonNext == watch' = [pc |-> "next", todo |-> Tail(watch.todo)]

StoreChecked ==
    /\ watch.pc \in {"accept", "unfit"}
    /\ StoreStatus(Head(watch.todo).sub, IF watch.pc = "accept" THEN "accepted" ELSE "canceled")
    /\ MonNext
    /\ UNCHANGED <<hold, network, intra, receiver>>

(* cancel_invoice_and_htlc_subscription: the plugin refuses to cancel a     *)
(* paid invoice, and the error stops the monitor ...                        *)
CancelHold ==
    /\ watch.pc = "cancel"
    /\ IF hold = "paid"
         THEN watch' = NoTask /\ UNCHANGED hold
         ELSE watch' = [watch EXCEPT !.pc = "canceled"] /\ hold' = "cancelled"
    /\ UNCHANGED <<subs, network, intra, receiver>>

(* ... then the status is stored ... *)
StoreCanceled ==
    /\ watch.pc = "canceled"
    /\ StoreStatus(Head(watch.todo).sub, "canceled")
    /\ watch' = [watch EXCEPT !.pc = "fail"]
    /\ UNCHANGED <<hold, network, intra, receiver>>

(* ... and an open attempt fails. *)
FailAttempt ==
    /\ watch.pc = "fail"
    /\ attempt' = IF attempt = "open" THEN "failed" ELSE attempt
    /\ MonNext
    /\ UNCHANGED <<subs, hold, network, payer, mgr, receiver>>

-----------------------------------------------------------------------------
(* The receiver's calls *)

Go(c, pc) == req' = [req EXCEPT ![c].pc = pc]
Return(c) == req' = [req EXCEPT ![c] = NoTask]

(* prepare_lightning_claim, up to the vtxos from the pool. *)
Prepare(c) ==
    /\ req[c] = NoTask /\ subs # <<>>
    /\ subs[Len(subs)] = "accepted"
    /\ req' = [req EXCEPT ![c] = [pc |-> "htlcs", sub |-> Len(subs)]]
    /\ UNCHANGED <<subs, hold, network, intra, watch, given, claimed>>

(* update_lightning_htlc_subscription_with_htlcs; the vtxos of a call that  *)
(* fails here are not handed out.                                           *)
StoreHtlcs(c) ==
    /\ req[c].pc = "htlcs"
    /\ Return(c)
    /\ \/ /\ subs[req[c].sub] = "accepted"
          /\ StoreStatus(req[c].sub, "htlcs-ready")
          /\ given' = [given EXCEPT ![req[c].sub] = @ + 1]
       \/ UNCHANGED <<subs, given>>
    /\ UNCHANGED <<hold, network, intra, watch, claimed>>

(* claim_lightning_receive: the receiver reveals the preimage. *)
Claim(c) ==
    /\ req[c] = NoTask /\ subs # <<>> /\ given[Len(subs)] > 0 /\ ~claimed
    /\ subs[Len(subs)] = "htlcs-ready"
    /\ req' = [req EXCEPT ![c] = [pc |-> "settle", sub |-> Len(subs)]]
    /\ UNCHANGED <<subs, hold, network, intra, watch, given, claimed>>

(* ClnManager::settle_invoice looks for an open attempt ... *)
Settle(c) ==
    /\ req[c].pc = "settle"
    /\ Go(c, IF attempt = "open" THEN "attempt" ELSE "hold")
    /\ UNCHANGED <<subs, hold, network, intra, watch, given, claimed>>

(* Faulty variant: the attempt is left alone. *)
SettleAttemptSkipped(c) ==
    /\ req[c].pc = "attempt"
    /\ Go(c, "settled")
    /\ UNCHANGED <<subs, hold, network, intra, watch, given, claimed>>

(* ... gives it the preimage, or skips an attempt that is final by now ...  *)
SettleAttempt(c) ==
    /\ req[c].pc = "attempt"
    /\ attempt' = IF attempt = "open" THEN "succeeded" ELSE attempt
    /\ Go(c, "settled")
    /\ UNCHANGED <<subs, hold, network, payer, mgr, watch, given, claimed>>

(* ... or has the manager settle the hold invoice, unless its node is       *)
(* offline or refuses.                                                      *)
SettleHold(c) ==
    /\ req[c].pc = "hold" /\ mgr = NoTask
    /\ \/ hold \in {"accepted", "paid"} /\ hold' = "paid" /\ Go(c, "settled")
       \/ Return(c) /\ UNCHANGED hold
    /\ UNCHANGED <<subs, network, intra, watch, given, claimed>>

StoreSettled(c) ==
    /\ req[c].pc = "settled"
    /\ StoreStatus(req[c].sub, "settled")
    /\ Go(c, "cosign")
    /\ UNCHANGED <<hold, network, intra, watch, given, claimed>>

(* cosign_oor_package_with_builder, once for the HTLC vtxos. *)
Cosign(c) ==
    /\ req[c].pc = "cosign"
    /\ claimed' = TRUE
    /\ Return(c)
    /\ UNCHANGED <<subs, hold, network, intra, watch, given>>

-----------------------------------------------------------------------------

Network == NetworkPays \/ TimeoutPasses \/ BlocksArrive \/ InvoiceExpires

ReceiveManager == PayIntra \/ AcceptIntra \/ CancelIntra

ReceiveMonitor ==
    \/ ListSubscriptions
    \/ CheckSubscription
    \/ StoreChecked
    \/ CancelHold
    \/ StoreCanceled
    \/ FailAttempt

Receiver(c) ==
    \/ Prepare(c)
    \/ StoreHtlcs(c)
    \/ Claim(c)
    \/ Settle(c)
    \/ SettleAttempt(c)
    \/ SettleHold(c)
    \/ StoreSettled(c)
    \/ Cosign(c)

ReceiveNext ==
    /\ UNCHANGED receiveMode
    /\ \/ StartReceive
       \/ Network
       \/ ReceiveManager
       \/ RevokeIntra
       \/ ReceiveMonitor
       \/ \E c \in Requests : Receiver(c)

ReceiveSpec == ReceiveInit /\ [][ReceiveNext]_receiveVars

ReceiveFairness == WF_moved(ReceiveManager) /\ WF_moved(ReceiveMonitor)

ReceiveFairSpec == ReceiveSpec /\ ReceiveFairness

-----------------------------------------------------------------------------
(* Properties *)

(* The rows and the positions of the tasks keep their types. *)
ReceiveTypeOK ==
    /\ subs \in Seq(Statuses) /\ Len(subs) <= MaxSubs
    /\ hold \in {"none", "unpaid", "accepted", "paid", "cancelled"}
    /\ attempt \in {"none", "open", "succeeded", "failed"}
    /\ payer \in {"none", "held", "revoked"}
    /\ given \in [1 .. MaxSubs -> Nat]

(* The server cosigns a claim only for a payment it was paid for: the hold  *)
(* invoice is settled, or the other user's attempt succeeded and with it    *)
(* the preimage that claims that user's HTLC is stored.                     *)
ClaimPaid == claimed => hold = "paid" \/ attempt = "succeeded"

(* Of two payers at the same time, one on the network and one at the        *)
(* server, only one pays.                                                   *)
CollectedOnce == ~(hold = "paid" /\ attempt = "succeeded")

(* While the receiver has HTLC vtxos that the preimage alone claims, the    *)
(* incoming payment is held or collected.  "If any HTLCs have been held ... *)
(* for too long (i.e. the receiving user has not prepared a claim) then we  *)
(* cancel the invoice and subscription."                                    *)
HtlcsBacked ==
    (\E i \in DOMAIN given : given[i] > 0) =>
        hold \in {"accepted", "paid"} \/ attempt \in {"open", "succeeded"}

(* A subscription is turned into one set of HTLC vtxos, however many calls  *)
(* of the receiver and reports of the monitor there are ("we already did    *)
(* this, let's fetch the vtxos and return them"); the payer is on the      *)
(* network.                                                                 *)
GivenOnce == ~receiveMode.intra => \A i \in DOMAIN given : given[i] <= 1

(* The subscription is canceled "after invoice_expiry or when the invoice   *)
(* is accepted (HTLCs are held) for longer than                             *)
(* receive_htlc_forward_timeout" and for no other reason once it was        *)
(* accepted.                                                                *)
CanceledForCause ==
    [][ \A i \in DOMAIN subs :
          subs[i] \in {"accepted", "htlcs-ready"} /\ subs'[i] = "canceled" =>
            invoiceExpired \/ overdue ]_receiveVars

(* HTLCs do not stay held for a receiver that prepares no claim: with the   *)
(* timeout over, the subscription does not stay accepted.                   *)
OverdueReleased ==
    \A i \in 1 .. MaxSubs :
        overdue /\ hold = "accepted" /\ Len(subs) >= i ~>
            ~overdue \/ hold # "accepted" \/ Len(subs) < i \/ subs[i] # "accepted"
=============================================================================
