----------------------------- MODULE MCLightning -----------------------------
(***************************************************************************)
(* Lightning at the server: payments and receives, each in behaviours of   *)
(* its own.                                                                *)
(***************************************************************************)
EXTENDS LnPayment, LnReceive

CONSTANTS Parts, h1, h2, c1, c2

VARIABLE part   \* the part that moves

(* One or two HTLCs of the paying wallet. *)
OneHtlc == {h1}
TwoHtlcs == {h1, h2}

(* A payer on the network with every delay and fault, and another user of   *)
(* the server.                                                              *)
MCNetwork == [intra |-> FALSE, cancelFails |-> TRUE, expires |-> TRUE, timeouts |-> TRUE, blocks |-> TRUE, subs |-> 2]
MCIntra == [intra |-> TRUE, cancelFails |-> FALSE, expires |-> FALSE, timeouts |-> FALSE, blocks |-> FALSE, subs |-> 1]
MCReceives == {MCNetwork, MCIntra}

lightningVars == <<part, payVars, receiveVars>>

LightningInit ==
    /\ part \in Parts
    /\ PayInit /\ ReceiveInit
    /\ part # "receive" => receiveMode = MCNetwork

PayPart == part = "payment" /\ PayNext /\ UNCHANGED <<part, receiveVars>>
ReceivePart == part = "receive" /\ ReceiveNext /\ UNCHANGED <<part, payVars>>

LightningNext == PayPart \/ ReceivePart

(* The fairness of each part, where that part moves.                         *)
LightningSpec ==
    /\ LightningInit /\ [][LightningNext]_lightningVars
    /\ \A h \in Htlcs : WF_payVars(part = "payment" /\ Manager(h))
    /\ \A a \in 1 .. MaxAttempts : WF_payVars(part = "payment" /\ Task(a))
    /\ \A p \in 1 .. MaxAttempts : WF_payVars(part = "payment" /\ p \in DOMAIN pays /\ ClnResolves(p))
    /\ \A u \in Updaters : WF_payVars(part = "payment" /\ Update(u))
    /\ WF_payVars(part = "payment" /\ Monitor)
    /\ SF_payVars(part = "payment" /\ PollAttempts)
    /\ WF_moved(part = "receive" /\ ReceiveManager)
    /\ WF_moved(part = "receive" /\ ReceiveMonitor)

(* Each module's type invariant, and what the server's records say of its   *)
(* payments (ln/cln): an attempt is failed only if CLN's payment is, a      *)
(* claim is cosigned only when it is paid for, and a subscription gives     *)
(* HTLC vtxos once.                                                         *)
LightningSound ==
    /\ PayTypeOK /\ ReceiveTypeOK
    /\ FailedMeansFailed
    /\ ClaimPaid /\ GivenOnce

(* Nothing stays open: an attempt becomes final, and HTLCs that a receiver  *)
(* does not claim are given back.                                           *)
LightningEnds == AttemptsEnd /\ OverdueReleased
=============================================================================
