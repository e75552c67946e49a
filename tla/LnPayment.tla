------------------------------ MODULE LnPayment ------------------------------
(***************************************************************************)
(* A lightning payment through the server: the RPC handlers (server/src/    *)
(* ln/mod.rs), the CLN manager that starts it and the task that calls xpay  *)
(* (ln/cln/mod.rs), the monitor of the CLN node (ln/cln/node.rs) and the    *)
(* rows they share without a common transaction (database/ln/mod.rs).       *)
(*                                                                          *)
(* One invoice, paid by one wallet: it sets up an HTLC, asks for the        *)
(* payment once, and sets up another HTLC only after it got the one before  *)
(* back.  CLN pays an invoice at most once.                                 *)
(***************************************************************************)
EXTENDS Integers, Sequences, FiniteSetsExt

CONSTANTS
    Htlcs,          \* the HTLC sets the wallet may use, one after the other
    XpayErrors,     \* xpay may return an error although CLN goes on
    Prompt,         \* xpay reaches CLN within invoice_recheck_delay
    Timely,         \* the monitor catches up before an HTLC expires
    MaxStops,       \* how often the monitor may stop with an RPC error
    MaxCrashes      \* how often the server may crash

ASSUME PayAssumption == IsFiniteSet(Htlcs)

VARIABLES
    htlc,       \* htlc[h]: "none", "cosigned", "initiated", "revoked"
    ctrl,       \* PaymentRequests on the way to the manager
    invoice,    \* row of lightning_invoice; ver stands for updated_at
    attempts,   \* rows of lightning_payment_attempt, oldest first
    task,       \* task[a]: handle_pay_invoice of attempt a
    pays,       \* CLN's pays, by created_index; updated is updated_index
    upd,        \* upd[u]: where updater u of an attempt is
    mon,        \* what the monitor is doing and has left to do
    index,      \* created_index and updated_index of the monitor, -1 for None
    stored,     \* the same in table lightning_node
    expired,    \* HTLCs whose htlc_expiry is below the tip
    payFaults      \* how often the monitor stopped and the server crashed

monitor == <<mon, index, stored, payFaults>>
payVars == <<htlc, ctrl, invoice, attempts, task, pays, upd, monitor, expired>>

-----------------------------------------------------------------------------

MaxAttempts == Cardinality(Htlcs)
Updaters == 0 .. MaxAttempts            \* 0 is the monitor
Final == {"succeeded", "failed"}        \* LightningPaymentStatus::is_final
Idle == [pc |-> "idle"]
Kinds == {"created", "updated"}         \* ListsendpaysIndex
Waiting == [job |-> "wait"]
Down == [job |-> "down"]

(* get_open_lightning_payment_attempt_by_payment_hash: the latest, 0 for    *)
(* none.                                                                    *)
OpenAttempt ==
    Max({0} \cup {a \in DOMAIN attempts : attempts[a].status \notin Final})

(* get_lightning_invoice_by_payment_hash joins the latest attempt. *)
LastStatus == IF attempts = <<>> THEN "none" ELSE attempts[Len(attempts)].status

Paid == \E p \in DOMAIN pays : pays[p].status = "complete"

(* CLN's counter of updates. *)
Updated == Max({0} \cup {pays[p].updated : p \in DOMAIN pays})

PayInit ==
    /\ htlc = [h \in Htlcs |-> "none"]
    /\ ctrl = {}
    /\ invoice = [known |-> FALSE, preimage |-> FALSE, ver |-> 0]
    /\ attempts = <<>>
    /\ task = [a \in 1 .. MaxAttempts |-> "none"]
    /\ pays = <<>>
    /\ upd = [u \in Updaters |-> Idle]
    /\ mon = Waiting
    /\ index = [k \in Kinds |-> -1]
    /\ stored = index
    /\ expired = {}
    /\ payFaults = [stops |-> 0, crashes |-> 0]

-----------------------------------------------------------------------------
(* The RPC handlers *)

(* request_lightning_pay_htlc_cosign *)
RequestCosign(h) ==
    /\ htlc[h] = "none"
    /\ \A g \in Htlcs : htlc[g] \in {"none", "revoked"}
    /\ ~invoice.preimage
    /\ OpenAttempt = 0
    /\ htlc' = [htlc EXCEPT ![h] = "cosigned"]
    /\ UNCHANGED <<ctrl, invoice, attempts, task, pays, upd, monitor, expired>>

(* initiate_lightning_payment, ClnManager::pay_invoice *)
Initiate(h) ==
    /\ htlc[h] = "cosigned"
    /\ h \notin expired
    /\ htlc' = [htlc EXCEPT ![h] = "initiated"]
    /\ ctrl' = ctrl \cup {h}
    /\ UNCHANGED <<invoice, attempts, task, pays, upd, monitor, expired>>

(* Faulty variant: the state of the payment is not looked at. *)
MayRevokeAnyway(h) == TRUE

(* revoke_bolt11_payment accepts unless the database says that the payment  *)
(* succeeded or, before the HTLC expires, that it is open.                  *)
MayRevoke(h) ==
    \/ ~invoice.known
    \/ LastStatus = "failed"
    \/ LastStatus = "succeeded" /\ ~invoice.preimage
    \/ LastStatus \notin Final /\ h \in expired

(* check_lightning_payment of the wallet asks for it when the server says   *)
(* that the payment failed, or after the HTLC's expiry.                     *)
ShouldRevoke(h) == LastStatus = "failed" \/ h \in expired

Revoke(h) ==
    /\ htlc[h] \in {"cosigned", "initiated"}
    /\ h \notin ctrl
    /\ ShouldRevoke(h)
    /\ MayRevoke(h)
    /\ htlc' = [htlc EXCEPT ![h] = "revoked"]
    /\ UNCHANGED <<ctrl, invoice, attempts, task, pays, upd, monitor, expired>>

(* The chain reaches the HTLC's expiry; the payment's own timelocks end     *)
(* htlc_expiry_delta blocks earlier.                                        *)
Expire(h) ==
    /\ htlc[h] \in {"cosigned", "initiated"}
    /\ h \notin expired
    /\ h \notin ctrl
    /\ \A a \in DOMAIN attempts : attempts[a].htlc = h => task[a] # "spawned"
    /\ \A p \in DOMAIN pays : pays[p].status # "pending"
    /\ Timely /\ Paid => LastStatus = "succeeded" /\ invoice.preimage
    /\ expired' = expired \cup {h}
    /\ UNCHANGED <<htlc, ctrl, invoice, attempts, task, pays, upd, monitor>>

-----------------------------------------------------------------------------
(* The CLN manager *)

(* start_payment without a node. *)
StartNoNode(h) ==
    /\ h \in ctrl
    /\ ctrl' = ctrl \ {h}
    /\ UNCHANGED <<htlc, invoice, attempts, task, pays, upd, monitor, expired>>

(* store_lightning_payment_attempt *)
StorePaymentAttempt(h) ==
    attempts' = Append(attempts, [status |-> "requested", ver |-> 0, htlc |-> h])

(* store_lightning_payment_start: the invoice, if it is new, and an attempt. *)
StorePaymentStart(h) ==
    /\ invoice' = [invoice EXCEPT !.known = TRUE]
    /\ StorePaymentAttempt(h)

(* start_payment: the attempt is stored, then the HTLC may turn out to      *)
(* expire too soon, or the task that calls xpay is spawned.                 *)
StartPayment(h) ==
    /\ h \in ctrl
    /\ ctrl' = ctrl \ {h}
    /\ StorePaymentStart(h)
    /\ \E t \in {"none", "spawned"} : task' = [task EXCEPT ![Len(attempts) + 1] = t]
    /\ UNCHANGED <<htlc, pays, upd, monitor, expired>>

(* call_xpay reaches CLN, which answers at once when it has paid the        *)
(* invoice or is paying it.                                                 *)
CallXpay(a) ==
    /\ task[a] = "spawned"
    /\ IF \A p \in DOMAIN pays : pays[p].status = "failed"
         THEN /\ pays' = Append(pays, [status |-> "pending", by |-> a, updated |-> 0])
              /\ task' = [task EXCEPT ![a] = "waiting"]
         ELSE /\ task' = [task EXCEPT ![a] = IF Paid THEN "done" ELSE "error"]
              /\ UNCHANGED pays
    /\ UNCHANGED <<htlc, ctrl, invoice, attempts, upd, monitor, expired>>

(* xpay returns. *)
XpayReturns(a) ==
    /\ \/ /\ task[a] = "waiting"
          /\ \E p \in DOMAIN pays :
                /\ pays[p].by = a
                /\ pays[p].status # "pending"
                /\ task' = [task EXCEPT ![a] = IF pays[p].status = "complete"
                                                 THEN "done" ELSE "error"]
       \/ /\ XpayErrors
          /\ task[a] \in {"spawned", "waiting"}
          /\ task' = [task EXCEPT ![a] = "error"]
    /\ UNCHANGED <<htlc, ctrl, invoice, attempts, pays, upd, monitor, expired>>

(* CLN resolves the payment. *)
ClnResolves(p) ==
    /\ pays[p].status = "pending"
    /\ \E s \in {"complete", "failed"} :
          pays' = [pays EXCEPT ![p] = [status |-> s, by |-> @.by, updated |-> Updated + 1]]
    /\ UNCHANGED <<htlc, ctrl, invoice, attempts, task, upd, monitor, expired>>

-----------------------------------------------------------------------------
(* verify_and_update_invoice, for updater u: it reads the invoice, updates  *)
(* the attempt and then the invoice, each only if updated_at did not change *)

Begin(u, a, status, verify) ==
    upd' = [upd EXCEPT ![u] =
        [pc |-> IF verify THEN "verify" ELSE "attempt",
         a |-> a, ver |-> attempts[a].ver, status |-> status, verify |-> verify, iver |-> 0]]

Done(u) == upd' = [upd EXCEPT ![u] = Idle]

(* The error of an updater: the task logs it, the monitor stops. *)
Fail(u) ==
    /\ Done(u)
    /\ mon' = IF u = 0 THEN Down ELSE mon

Verify(u) ==
    /\ upd[u].pc = "verify"
    /\ IF invoice.preimage \/ LastStatus \in Final
         THEN Done(u)
         ELSE upd' = [upd EXCEPT ![u] =
                [pc |-> "attempt", a |-> @.a, ver |-> @.ver, status |-> @.status,
                 verify |-> @.verify, iver |-> invoice.ver]]
    /\ UNCHANGED <<htlc, ctrl, invoice, attempts, task, pays, monitor, expired>>

(* A row of the attempts, written *)
Written(row, status) == [status |-> status, ver |-> row.ver + 1, htlc |-> row.htlc]

(* Faulty variant of update_lightning_payment_attempt_status: without the   *)
(* comparison of updated_at.                                                *)
UpdateAttemptAlways(u) ==
    /\ upd[u].pc = "attempt"
    /\ attempts' = [attempts EXCEPT ![upd[u].a] = Written(@, upd[u].status)]
    /\ IF upd[u].verify THEN upd' = [upd EXCEPT ![u].pc = "invoice"] ELSE Done(u)
    /\ UNCHANGED <<htlc, ctrl, invoice, task, pays, monitor, expired>>

(* update_lightning_payment_attempt_status; no row is an error. *)
UpdateAttempt(u) ==
    /\ upd[u].pc = "attempt"
    /\ IF attempts[upd[u].a].ver = upd[u].ver
         THEN /\ attempts' = [attempts EXCEPT ![upd[u].a] = Written(@, upd[u].status)]
              /\ IF upd[u].verify THEN upd' = [upd EXCEPT ![u].pc = "invoice"] ELSE Done(u)
              /\ UNCHANGED mon
         ELSE Fail(u) /\ UNCHANGED attempts
    /\ UNCHANGED <<htlc, ctrl, invoice, task, pays, index, stored, payFaults, expired>>

(* update_lightning_invoice; no row is not an error. *)
UpdateInvoice(u) ==
    /\ upd[u].pc = "invoice"
    /\ invoice' = IF invoice.ver = upd[u].iver
                    THEN [known |-> invoice.known, preimage |-> upd[u].status = "succeeded",
                          ver |-> invoice.ver + 1]
                    ELSE invoice
    /\ Done(u)
    /\ UNCHANGED <<htlc, ctrl, attempts, task, pays, monitor, expired>>

(* handle_pay_invoice after an error: the latest open attempt is set to     *)
(* submitted.                                                               *)
PayError(a) ==
    /\ task[a] = "error"
    /\ upd[a] = Idle
    /\ task' = [task EXCEPT ![a] = "done"]
    /\ IF OpenAttempt = 0 THEN UNCHANGED upd ELSE Begin(a, OpenAttempt, "submitted", TRUE)
    /\ UNCHANGED <<htlc, ctrl, invoice, attempts, pays, monitor, expired>>

-----------------------------------------------------------------------------
(* The monitor of the node *)

StatusOf(p) ==
    CASE pays[p].status = "pending" -> "submitted"
      [] pays[p].status = "complete" -> "succeeded"
      [] pays[p].status = "failed" -> "failed"

CounterOf(kind) == IF kind = "created" THEN Len(pays) ELSE Updated
IndexOf(kind, p) == IF kind = "created" THEN p ELSE pays[p].updated

(* listsendpays: the pays from start on, and their order by the index. *)
ListedFrom(kind, start) == {p \in DOMAIN pays : IndexOf(kind, p) >= start}

InOrder(kind, listed) ==
    CHOOSE s \in [1 .. Cardinality(listed) -> listed] :
        \A i, j \in DOMAIN s : i < j => IndexOf(kind, s[i]) < IndexOf(kind, s[j])

(* process_sendpay, once wait returns: the pays from index + 1 on, with     *)
(* their status now.  What it stores at the end is the largest              *)
(* updated_index, for both kinds.                                           *)
ListSendpays(kind) ==
    /\ mon.job = "wait"
    /\ CounterOf(kind) >= index[kind] + 1
    /\ LET start == index[kind] + 1
           listed == ListedFrom(kind, start)
           order == InOrder(kind, listed)
       IN mon' = [job |-> "sendpay", kind |-> kind,
                  todo |-> [i \in DOMAIN order |-> StatusOf(order[i])],
                  max |-> Max({start} \cup {pays[p].updated : p \in listed})]
    /\ UNCHANGED <<htlc, ctrl, invoice, attempts, task, pays, upd, index, stored, payFaults, expired>>

(* One of them, applied to whatever attempt is open; a pending pay counts   *)
(* only for an attempt that is just requested.                              *)
ProcessSendpay ==
    /\ mon.job = "sendpay"
    /\ upd[0] = Idle
    /\ mon.todo # <<>>
    /\ mon' = [mon EXCEPT !.todo = Tail(@)]
    /\ LET status == Head(mon.todo) IN
       IF \/ OpenAttempt = 0
          \/ status = "submitted" /\ attempts[OpenAttempt].status # "requested"
         THEN UNCHANGED upd
         ELSE Begin(0, OpenAttempt, status, TRUE)
    /\ UNCHANGED <<htlc, ctrl, invoice, attempts, task, pays, index, stored, payFaults, expired>>

(* store_lightning_payment_index *)
StorePaymentIndex(kind, i) == stored' = [stored EXCEPT ![kind] = i]

(* The end of process_sendpay: the index reaches the database only if it    *)
(* went beyond the start.                                                   *)
StoreIndex ==
    /\ mon.job = "sendpay"
    /\ upd[0] = Idle
    /\ mon.todo = <<>>
    /\ index' = [index EXCEPT ![mon.kind] = mon.max]
    /\ IF mon.max > index[mon.kind] + 1
         THEN StorePaymentIndex(mon.kind, mon.max) ELSE UNCHANGED stored
    /\ mon' = Waiting
    /\ UNCHANGED <<htlc, ctrl, invoice, attempts, task, pays, upd, payFaults, expired>>

(* process_payment_attempts lists the open attempts, latest first ... *)
PollAttempts ==
    /\ mon.job = "wait"
    /\ OpenAttempt # 0
    /\ mon' = [job |-> "poll",
               todo |-> {[a |-> a, ver |-> attempts[a].ver, status |-> attempts[a].status] :
                            a \in {b \in DOMAIN attempts : attempts[b].status \notin Final}}]
    /\ UNCHANGED <<htlc, ctrl, invoice, attempts, task, pays, upd, index, stored, payFaults, expired>>

(* Faulty variant: only attempts CLN was asked to pay are looked at. *)
RecheckSent(a) == task[a] = "waiting"

(* ... and skips those created less than invoice_recheck_delay ago. *)
Recheck(a) == Prompt => task[a] # "spawned"

(* ... asks CLN about the invoice: without a pay the attempt has failed,    *)
(* otherwise the latest pay decides.                                        *)
PollAttempt(r) ==
    /\ mon.job = "poll"
    /\ upd[0] = Idle
    /\ r \in mon.todo /\ \A q \in mon.todo : q.a <= r.a
    /\ mon' = [mon EXCEPT !.todo = @ \ {r}]
    /\ LET desired == IF pays = <<>> THEN "failed" ELSE StatusOf(Len(pays)) IN
       IF Recheck(r.a) /\ desired # r.status
         THEN upd' = [upd EXCEPT ![0] =
                [pc |-> IF pays = <<>> THEN "attempt" ELSE "verify", a |-> r.a, ver |-> r.ver,
                 status |-> desired, verify |-> pays # <<>>, iver |-> 0]]
         ELSE UNCHANGED upd
    /\ UNCHANGED <<htlc, ctrl, invoice, attempts, task, pays, index, stored, payFaults, expired>>

PollDone ==
    /\ mon.job = "poll"
    /\ upd[0] = Idle
    /\ mon.todo = {}
    /\ mon' = Waiting
    /\ UNCHANGED <<htlc, ctrl, invoice, attempts, task, pays, upd, index, stored, payFaults, expired>>

(* An RPC error stops the monitor ... *)
MonitorStops ==
    /\ mon # Down
    /\ upd[0] = Idle
    /\ payFaults.stops < MaxStops
    /\ payFaults' = [payFaults EXCEPT !.stops = @ + 1]
    /\ mon' = Down
    /\ UNCHANGED <<htlc, ctrl, invoice, attempts, task, pays, upd, index, stored, expired>>

(* ... and check_nodes starts it again from the stored indexes. *)
MonitorStarts ==
    /\ mon = Down
    /\ mon' = Waiting
    /\ index' = stored
    /\ UNCHANGED <<htlc, ctrl, invoice, attempts, task, pays, upd, stored, payFaults, expired>>

(* A crash of the server ends its tasks, wherever they are. *)
Crash ==
    /\ payFaults.crashes < MaxCrashes
    /\ payFaults' = [payFaults EXCEPT !.crashes = @ + 1]
    /\ ctrl' = {}
    /\ task' = [a \in DOMAIN task |-> IF task[a] = "none" THEN "none" ELSE "done"]
    /\ upd' = [u \in Updaters |-> Idle]
    /\ mon' = Down
    /\ UNCHANGED <<htlc, invoice, attempts, pays, index, stored, expired>>

-----------------------------------------------------------------------------

Update(u) == Verify(u) \/ UpdateAttempt(u) \/ UpdateInvoice(u)

Monitor ==
    \/ \E kind \in Kinds : ListSendpays(kind)
    \/ ProcessSendpay
    \/ StoreIndex
    \/ PollAttempts
    \/ mon.job = "poll" /\ \E r \in mon.todo : PollAttempt(r)
    \/ PollDone
    \/ MonitorStarts

Task(a) == CallXpay(a) \/ XpayReturns(a) \/ PayError(a)

Client(h) == RequestCosign(h) \/ Initiate(h) \/ Revoke(h) \/ Expire(h)

Manager(h) == StartNoNode(h) \/ StartPayment(h)

PayNext ==
    \/ \E h \in Htlcs : Client(h) \/ Manager(h)
    \/ \E a \in 1 .. MaxAttempts : Task(a)
    \/ \E p \in DOMAIN pays : ClnResolves(p)
    \/ \E u \in Updaters : Update(u)
    \/ Monitor
    \/ MonitorStops
    \/ Crash

PaySpec == PayInit /\ [][PayNext]_payVars

(* CLN resolves its payments and the manager, the tasks and the monitor go  *)
(* on; the monitor's interval keeps its polls from being starved.           *)
PayFairness ==
    /\ \A h \in Htlcs : WF_payVars(Manager(h))
    /\ \A a \in 1 .. MaxAttempts : WF_payVars(Task(a))
    /\ \A p \in 1 .. MaxAttempts : WF_payVars(p \in DOMAIN pays /\ ClnResolves(p))
    /\ \A u \in Updaters : WF_payVars(Update(u))
    /\ WF_payVars(Monitor)
    /\ SF_payVars(PollAttempts)

PayFairSpec == PaySpec /\ PayFairness

-----------------------------------------------------------------------------
(* Properties *)

(* The rows and the positions of the tasks keep their types. *)
PayTypeOK ==
    /\ htlc \in [Htlcs -> {"none", "cosigned", "initiated", "revoked"}]
    /\ ctrl \subseteq Htlcs /\ expired \subseteq Htlcs
    /\ invoice \in [known : BOOLEAN, preimage : BOOLEAN, ver : Nat]
    /\ attempts \in Seq([status : {"requested", "submitted"} \cup Final, ver : Nat, htlc : Htlcs])
    /\ Len(attempts) <= MaxAttempts
    /\ task \in [1 .. MaxAttempts -> {"none", "spawned", "waiting", "error", "done"}]
    /\ pays \in Seq([status : {"pending", "complete", "failed"}, by : 1 .. MaxAttempts,
                     updated : Nat])
    /\ \A u \in Updaters : upd[u].pc \in {"idle", "verify", "attempt", "invoice"}
    /\ mon.job \in {"wait", "sendpay", "poll", "down"}

(* The server is never left without an HTLC for a payment CLN made: when    *)
(* revoke_bolt11_payment gives an HTLC back, no payment for it completes.   *)
RevokedUnpaid == Paid => \E h \in Htlcs : htlc[h] = "initiated"

(* "The lightning node payment will either fail or succeed, updating the    *)
(* status to Failed or Succeeded respectively": an attempt is Failed only   *)
(* when CLN's payment for it failed or was never made.                      *)
FailedMeansFailed ==
    \A a \in DOMAIN attempts : attempts[a].status = "failed" =>
        \A p \in DOMAIN pays : pays[p].by = a => pays[p].status = "failed"

(* Once no update is under way, a Succeeded attempt has its preimage in the *)
(* invoice: get_payment_status takes its absence for an error and           *)
(* revoke_bolt11_payment then accepts the revocation.                       *)
SucceededHasPreimage ==
    (\A u \in Updaters : upd[u] = Idle) /\ LastStatus = "succeeded" => invoice.preimage

(* What an attempt or an invoice has finally become is never changed by a   *)
(* late update of another task (verify_and_update_invoice).                 *)
FinalStays ==
    [][ /\ \A a \in DOMAIN attempts :
             attempts[a].status \in Final => attempts'[a].status = attempts[a].status
        /\ invoice.preimage => invoice'.preimage ]_payVars

(* "The lightning node payment will either fail or succeed": no attempt     *)
(* stays open, whichever of the task, the events and the polls sees what    *)
(* became of it.                                                            *)
AttemptsEnd ==
    \A a \in 1 .. MaxAttempts :
        Len(attempts) >= a ~> Len(attempts) >= a /\ attempts[a].status \in Final
=============================================================================
