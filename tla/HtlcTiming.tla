------------------------------ MODULE HtlcTiming ------------------------------
(***************************************************************************)
(* The heights of a lightning payment that goes through an HTLC vtxo: the  *)
(* deltas the client asks for (bark/src/lightning/receive.rs), the checks  *)
(* of the server (server/src/ln) and the clauses of the HTLC output when   *)
(* it is claimed on chain. One payment, sent or received; both parties act *)
(* at every block, and transactions confirm within Confirm blocks.         *)
(*                                                                         *)
(* First the output policies of vtxos (lib/src/vtxo/policy,                *)
(* lib/src/lightning.rs and the taproots of lib/src/vtxo/mod.rs), which    *)
(* VtxoChains uses as well. A script is the set of keys of its key path,   *)
(* aggregated by musig, and the set of its clauses. A clause asks for a    *)
(* key, for a preimage where hash is not 0, for delta blocks since         *)
(* confirmation and for the chain to be past height.                       *)
(***************************************************************************)
EXTENDS Integers, Sequences, FiniteSets

CONSTANTS
    DeltaWidth,         \* 2^16: BlockDelta is a u16
    ExitDeltas,         \* vtxo_exit_delta
    HtlcExpiryDelta,    \* htlc_expiry_delta
    ExitMargin,         \* vtxo_exit_margin of the client
    RecvClaimDelta,     \* htlc_recv_claim_delta of the client
    SendExpiryDelta,    \* htlc_send_expiry_delta
    Confirm,            \* blocks until a transaction is confirmed
    MaxDelay,           \* blocks between acceptance and the claim's preparation
    HtlcKinds           \* subset of {"send", "recv"}

ASSUME PolicyAssumption == DeltaWidth \in Nat \ {0}

ASSUME TimingAssumption ==
    /\ ExitDeltas \subseteq Nat \ {0} /\ HtlcExpiryDelta \in Nat /\ ExitMargin \in Nat
    /\ RecvClaimDelta \in Nat /\ SendExpiryDelta \in Nat /\ Confirm \in Nat \ {0} /\ MaxDelay \in Nat

VARIABLES
    tip,        \* the height of the chain
    htlc,       \* the HTLC vtxo: its policy and where its exit and claims stand
    ln          \* the lightning HTLC: its expiry, and who knows the preimage

timeVars == <<tip, htlc, ln>>

-----------------------------------------------------------------------------
ServerKey == 0

(* Release builds wrap.                                                      *)
Delta(d) == d % DeltaWidth

Clause(key, hash, delta, height) == [key |-> key, hash |-> hash, delta |-> delta, height |-> height]

NewPubkey(user) == [kind |-> "pubkey", user |-> user, hash |-> 0, expiry |-> 0, delta |-> 0]
NewCheckpoint(user) == [NewPubkey(user) EXCEPT !.kind = "checkpoint"]
NewServerHtlcSend(user, hash, expiry) ==
    [NewPubkey(user) EXCEPT !.kind = "send", !.hash = hash, !.expiry = expiry]
NewServerHtlcRecv(user, hash, expiry, delta) ==
    [NewPubkey(user) EXCEPT !.kind = "recv", !.hash = hash, !.expiry = expiry, !.delta = delta]

(* The taproots the outputs are made with: exit_taproot, checkpoint_taproot, *)
(* server_htlc_send_taproot and server_htlc_receive_taproot.                  *)
Leaves(p, exitDelta, expiryHeight) ==
    CASE p.kind = "pubkey" -> {Clause(p.user, 0, exitDelta, 0)}
      [] p.kind = "checkpoint" -> {Clause(ServerKey, 0, 0, expiryHeight)}
      [] p.kind = "send" -> {Clause(ServerKey, p.hash, exitDelta, 0),
                             Clause(p.user, 0, Delta(2 * exitDelta), p.expiry)}
      [] p.kind = "recv" -> {Clause(ServerKey, 0, exitDelta, p.expiry),
                             Clause(p.user, p.hash, Delta(exitDelta + p.delta), 0)}

PolicyTaproot(p, exitDelta, expiryHeight) ==
    [keys |-> {p.user, ServerKey}, leaves |-> Leaves(p, exitDelta, expiryHeight)]

(* The clauses the policies list for whoever spends them.                    *)
PubkeyClauses(p, exitDelta) == {Clause(p.user, 0, exitDelta, 0)}
CheckpointClauses(p, expiryHeight) == {Clause(ServerKey, 0, 0, expiryHeight)}
ServerHtlcSendClauses(p, exitDelta) ==
    {Clause(ServerKey, p.hash, exitDelta, 0), Clause(p.user, 0, Delta(2 * exitDelta), p.expiry)}
ServerHtlcRecvClauses(p, exitDelta) ==
    {Clause(p.user, p.hash, Delta(p.delta + exitDelta), 0), Clause(ServerKey, 0, exitDelta, p.expiry)}

Clauses(p, exitDelta, expiryHeight) ==
    CASE p.kind = "pubkey" -> PubkeyClauses(p, exitDelta)
      [] p.kind = "checkpoint" -> CheckpointClauses(p, expiryHeight)
      [] p.kind = "send" -> ServerHtlcSendClauses(p, exitDelta)
      [] p.kind = "recv" -> ServerHtlcRecvClauses(p, exitDelta)

(* user_exit_clause: what a unilateral exit claims with.                     *)
UserExitClause(p, exitDelta) ==
    CASE p.kind = "pubkey" -> Clause(p.user, 0, exitDelta, 0)
      [] p.kind = "send" -> Clause(p.user, 0, Delta(2 * exitDelta), p.expiry)
      [] p.kind = "recv" -> Clause(p.user, p.hash, Delta(exitDelta + p.delta), 0)

(* The first block that may hold a spend by clause c of an output confirmed  *)
(* in block conf.                                                             *)
Opens(c, conf) ==
    LET absolute == IF c.height = 0 THEN 0 ELSE c.height + 1
    IN IF conf + c.delta > absolute THEN conf + c.delta ELSE absolute

-----------------------------------------------------------------------------
UserKey == 1
Hash == 7
PrepareClaimDelta == 2      \* LIGHTNING_PREPARE_CLAIM_DELTA
Never == -1

RequestedMinCltvDelta(exitDelta) ==
    exitDelta + HtlcExpiryDelta + ExitMargin + RecvClaimDelta + PrepareClaimDelta

(* start_lightning_receive                                                   *)
LnCltvDelta(exitDelta) == RequestedMinCltvDelta(exitDelta) + HtlcExpiryDelta

TimeInit ==
    /\ tip = 1
    /\ \E kind \in HtlcKinds, d \in ExitDeltas :
          htlc = [kind |-> kind, exitDelta |-> d, pc |-> "start", policy |-> NewPubkey(UserKey),
                  started |-> Never, conf |-> Never, by |-> "none"]
    /\ ln = [expiry |-> Never, accepted |-> Never, user |-> FALSE, server |-> FALSE]

(***************************************************************************)
(* Receiving                                                               *)
(***************************************************************************)
(* The payment arrives with the expiry the invoice asks for, or a block less *)
(* because one was mined on its way.                                          *)
PaymentAccepted ==
    /\ htlc.kind = "recv" /\ htlc.pc = "start"
    /\ \E lowest \in {tip + LnCltvDelta(htlc.exitDelta), tip + LnCltvDelta(htlc.exitDelta) - 1} :
          /\ lowest >= tip + LnCltvDelta(htlc.exitDelta) - 1
          /\ ln' = [ln EXCEPT !.expiry = lowest, !.accepted = tip, !.user = TRUE]
    /\ htlc' = [htlc EXCEPT !.pc = "accepted"]
    /\ UNCHANGED tip

MaxHtlcRecvExpiry == ln.expiry + HtlcExpiryDelta

(* check_lightning_receive of the client and prepare_lightning_claim.        *)
PrepareClaim ==
    /\ htlc.pc = "accepted"
    /\ LET requested == tip + RequestedMinCltvDelta(htlc.exitDelta)
       IN htlc' = IF requested > MaxHtlcRecvExpiry
                    THEN [htlc EXCEPT !.pc = "refused"]
                    ELSE [htlc EXCEPT !.pc = "held",
                            !.policy = NewServerHtlcRecv(UserKey, Hash, requested, HtlcExpiryDelta)]
    /\ UNCHANGED <<tip, ln>>

(* The client's claim fails and it exits once the margin is reached.          *)
SafeExitMargin == htlc.exitDelta + HtlcExpiryDelta + ExitMargin
AboutToExpire == tip > htlc.policy.expiry - SafeExitMargin

ExitReceive ==
    /\ htlc.kind = "recv" /\ htlc.pc = "held" /\ AboutToExpire
    /\ htlc' = [htlc EXCEPT !.pc = "exiting", !.started = tip]
    /\ UNCHANGED <<tip, ln>>

(***************************************************************************)
(* Sending                                                                 *)
(***************************************************************************)
RequestHtlcs ==
    /\ htlc.kind = "send" /\ htlc.pc = "start"
    /\ htlc' = [htlc EXCEPT !.pc = "cosigned",
                  !.policy = NewServerHtlcSend(UserKey, Hash, tip + SendExpiryDelta)]
    /\ UNCHANGED <<tip, ln>>

(* pay_invoice: the route may take until max_cltv_expiry_delta from now.      *)
PayInvoice ==
    /\ htlc.kind = "send" /\ htlc.pc = "cosigned"
    /\ IF htlc.policy.expiry < tip + HtlcExpiryDelta
         THEN htlc' = [htlc EXCEPT !.pc = "too soon"] /\ UNCHANGED ln
         ELSE /\ ln' = [ln EXCEPT !.expiry = tip + (htlc.policy.expiry - (tip + HtlcExpiryDelta)), !.accepted = tip]
              /\ htlc' = [htlc EXCEPT !.pc = "held"]
    /\ UNCHANGED tip

(* The payee reveals the preimage as long as its HTLC has not expired.       *)
PreimageReturned ==
    /\ htlc.kind = "send" /\ ln.expiry # Never /\ ~ln.server /\ tip <= ln.expiry
    /\ ln' = [ln EXCEPT !.server = TRUE]
    /\ UNCHANGED <<tip, htlc>>

(* The sender may exit whenever it likes.                                     *)
ExitSend ==
    /\ htlc.kind = "send" /\ htlc.pc = "held"
    /\ htlc' = [htlc EXCEPT !.pc = "exiting", !.started = tip]
    /\ UNCHANGED <<tip, ln>>

(***************************************************************************)
(* On chain                                                                *)
(***************************************************************************)
Claims(key) == {c \in PolicyTaproot(htlc.policy, htlc.exitDelta, 0).leaves : c.key = key}
Opening(key) == LET c == CHOOSE c \in Claims(key) : TRUE IN Opens(c, htlc.conf)

Able(key) ==
    /\ htlc.conf # Never /\ tip + 1 >= Opening(key)
    /\ \A c \in Claims(key) : c.hash # 0 => IF key = ServerKey THEN ln.server ELSE ln.user

(* The next block, with the exit or a claim that is due in it.               *)
BlockMined ==
    /\ htlc.pc \notin {"claimed", "refused", "too soon"}
    /\ htlc.pc = "accepted" => tip < ln.accepted + MaxDelay
    /\ htlc.pc = "start" => FALSE
    /\ htlc.pc = "cosigned" => tip <= htlc.policy.expiry
    /\ htlc.pc = "held" => IF htlc.kind = "recv" THEN ~AboutToExpire ELSE tip <= htlc.policy.expiry
    /\ htlc.pc = "exiting" => tip + 1 < htlc.started + Confirm
    /\ tip' = tip + 1
    /\ UNCHANGED <<htlc, ln>>

ExitConfirms ==
    /\ htlc.pc = "exiting"
    /\ tip' = tip + 1
    /\ htlc' = [htlc EXCEPT !.pc = "onchain", !.conf = tip + 1]
    /\ UNCHANGED ln

(* Whoever is able to claims, and is confirmed within Confirm blocks.        *)
Claim(key, who) ==
    /\ htlc.pc = "onchain" /\ Able(key)
    /\ tip' = tip + 1
    /\ htlc' = [htlc EXCEPT !.pc = "claimed", !.by = who]
    /\ ln' = IF who = "user" /\ htlc.kind = "recv" THEN [ln EXCEPT !.server = TRUE] ELSE ln

(* No block passes a claim that had its chance Confirm blocks ago.           *)
Overdue(key) == Able(key) /\ tip + 1 >= Opening(key) + Confirm - 1

MineOnchain ==
    /\ htlc.pc = "onchain"
    /\ ~Overdue(ServerKey) /\ ~Overdue(UserKey)
    /\ Able(ServerKey) \/ Able(UserKey) \/ tip < Opening(UserKey)
    /\ tip' = tip + 1
    /\ UNCHANGED <<htlc, ln>>

TimeNext ==
    \/ PaymentAccepted \/ PrepareClaim \/ ExitReceive
    \/ RequestHtlcs \/ PayInvoice \/ PreimageReturned \/ ExitSend
    \/ (htlc.pc # "onchain" /\ BlockMined) \/ ExitConfirms \/ MineOnchain
    \/ Claim(ServerKey, "server") \/ Claim(UserKey, "user")

TimeSpec == TimeInit /\ [][TimeNext]_timeVars

(***************************************************************************)
(* Properties                                                              *)
(***************************************************************************)
TimeTypeOK ==
    /\ htlc.pc \in {"start", "accepted", "refused", "cosigned", "too soon", "held", "exiting", "onchain", "claimed"}
    /\ htlc.by \in {"none", "user", "server"}

(* A receiver that exits at the margin claims before the server's clause     *)
(* opens, if exit and claim confirm within the margin.                        *)
ReceiverFirst ==
    htlc.kind = "recv" => /\ htlc.by # "server"
                          /\ htlc.conf # Never => Opening(UserKey) + Confirm - 1 < Opening(ServerKey)

(* A server that was given the preimage takes a sent HTLC before its sender. *)
PaidNotRefunded == htlc.kind = "send" /\ htlc.by = "user" => ~ln.server

(* The clauses listed for spending an HTLC are those its output commits to.  *)
ClausesCommitted ==
    LET p == htlc.policy
    IN /\ Clauses(p, htlc.exitDelta, 0) = Leaves(p, htlc.exitDelta, 0)
       /\ UserExitClause(p, htlc.exitDelta) \in Leaves(p, htlc.exitDelta, 0)

(* "The number of blocks to keep between Lightning and Ark HTLCs expiries":  *)
(* a lightning HTLC that is received outlives the HTLC vtxo given for it by   *)
(* htlc_expiry_delta blocks.                                                   *)
ExpiriesApart ==
    htlc.kind = "recv" /\ htlc.pc \in {"held", "exiting", "onchain", "claimed"} =>
        ln.expiry >= htlc.policy.expiry + HtlcExpiryDelta

(* The server learns a preimage that is revealed on chain before the         *)
(* lightning HTLC it received expires.                                        *)
PreimageInTime ==
    htlc.kind = "recv" /\ htlc.by = "user" => tip < ln.expiry
=============================================================================
