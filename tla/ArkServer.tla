------------------------------ MODULE ArkServer ------------------------------
(***************************************************************************)
(* The part of captaind that decides who spends a vtxo: the round           *)
(* coordinator (server/src/round/mod.rs), the arkoor cosign requests that   *)
(* run beside it (server/src/lib.rs, server/src/arkoor.rs), the flux lock   *)
(* they share (VtxoFlux) and the tables they write (VtxoTable).             *)
(*                                                                          *)
(* An await in the code is a boundary between two actions here: whatever    *)
(* another task does may happen there.  Checks whose outcome depends only   *)
(* on the caller's data or on the chain (ownership proofs, amounts, exit    *)
(* status, partial signatures) are free choices of the environment.         *)
(***************************************************************************)
EXTENDS VtxoTable, FiniteSets

CONSTANTS
    Boards,         \* vtxos that boards may register
    Payments,       \* possible round participations (RoundInput::RegisterPayment)
    Inputs,         \* Inputs[p]: the vtxos p offers
    Offboards,      \* participations with offboards only, hence no cosigner
    RoundOut,       \* RoundOut[p]: the vtxos p gets in the round's tree
    MaxOutputs,     \* RoundData.max_output_vtxos
    Requests,       \* possible arkoor cosign requests
    Checkpointed,   \* those served by arkoor.rs, the others by lib.rs
    ReqInputs,      \* ReqInputs[r]: the vtxos r asks to spend
    Spends,         \* Spends[r]: the spends recorded for r
    TxOut,          \* TxOut[t]: the vtxos arkoor transaction t creates
    Faults,         \* which of FaultKinds the environment may inject
    MaxRounds,      \* bound on round_seq
    MaxCrashes      \* bound on process restarts

FaultKinds == {"wallet", "broadcast", "db", "hangup"}

VARIABLES flux, held

(* The guards: the round's OwnedVtxoFluxLock, the guard local to            *)
(* process_payment, and one local to each arkoor request.                   *)
RoundGuard == "locked_inputs"
PaymentGuard == "lock"
Holders == {RoundGuard, PaymentGuard} \cup Requests

INSTANCE VtxoFlux

VARIABLES
    pc,         \* where the coordinator is
    seq,        \* round_seq
    attempt,    \* attempt_seq
    allowed,    \* allowed_inputs (all vtxos in the first attempt)
    registered, \* payments registered in this attempt
    current,    \* payment that process_payment is working on, or NULL
    sigs,       \* payments whose cosigner gave its tree signatures
    forfeits,   \* inputs whose forfeit signatures were received
    roundTxs,   \* round transactions handed to the network
    rpc,        \* rpc[r]: where the arkoor request r is
    cosigned,   \* spends the server gave its signature for
    crashes     \* number of restarts so far

coordVars == <<pc, seq, attempt, allowed, registered, current, sigs, forfeits>>
vars == <<flux, held, known, oor, forfeit, rounds, coordVars, roundTxs, rpc,
          cosigned, crashes>>

-----------------------------------------------------------------------------

(* Constants *)

ASSUME PaymentAssumption ==
    /\ Inputs \in [Payments -> (SUBSET Vtxos) \ {{}}]
    /\ RoundOut \in [Payments -> SUBSET Vtxos]
    /\ Offboards \subseteq Payments
    /\ NULL \notin Payments
    /\ Boards \subseteq Vtxos
    /\ MaxOutputs \in Nat

ASSUME RequestAssumption ==
    /\ Checkpointed \subseteq Requests
    /\ ReqInputs \in [Requests -> SUBSET Vtxos]
    /\ Spends \in [Requests -> SUBSET Spend]
    /\ TxOut \in [Txids -> SUBSET Vtxos]
    /\ \A r \in Requests : \A s1, s2 \in Spends[r] :
          s1.vtxo = s2.vtxo => s1 = s2
    /\ \A r \in Requests \ Checkpointed :
          {s.vtxo : s \in Spends[r]} = ReqInputs[r]
    /\ \A r \in Checkpointed :
          /\ ReqInputs[r] \subseteq {s.vtxo : s \in Spends[r]}
          /\ {s.vtxo : s \in Spends[r]} \ ReqInputs[r]
                \subseteq UNION {TxOut[s.txid] : s \in Spends[r]}
    /\ RoundGuard \notin Requests /\ PaymentGuard \notin Requests

ASSUME BoundAssumption ==
    /\ IsFiniteSet(Vtxos)
    /\ Faults \subseteq FaultKinds
    /\ MaxRounds \in Nat
    /\ MaxCrashes \in Nat

(* The vtxos a request creates. *)
NewVtxos(r) == UNION {TxOut[s.txid] : s \in Spends[r]}

CoordStates == {"sleep", "start", "attempt", "collect", "check", "verify",
                "construct", "sigtree", "forfeits", "finish", "persist", "halted"}

RpcStates == {"idle", "fetched", "locked", "marked"}

TypeOK ==
    /\ FluxTypeOK
    /\ TableTypeOK
    /\ pc \in CoordStates
    /\ seq \in Nat
    /\ attempt \in Nat
    /\ allowed \subseteq Vtxos
    /\ registered \subseteq Payments
    /\ current \in IF pc \in {"check", "verify"} THEN Payments ELSE {NULL}
    /\ sigs \subseteq Payments
    /\ forfeits \subseteq Vtxos
    /\ roundTxs \subseteq [seq : Nat, attempt : Nat, inputs : SUBSET Vtxos]
    /\ rpc \in [Requests -> RpcStates]
    /\ cosigned \subseteq Spend
    /\ crashes \in Nat

Init ==
    /\ FluxInit
    /\ TableInit
    /\ pc = "start"
    /\ seq = 0
    /\ attempt = 0
    /\ allowed = Vtxos
    /\ registered = {}
    /\ current = NULL
    /\ sigs = {}
    /\ forfeits = {}
    /\ roundTxs = {}
    /\ rpc = [r \in Requests |-> "idle"]
    /\ cosigned = {}
    /\ crashes = 0

-----------------------------------------------------------------------------

(* CollectingPayments.all_inputs *)
AllInputs == UNION {Inputs[p] : p \in registered}

(* The payments whose outputs go into the tree, one cosigner each. *)
Cosigners == registered \ Offboards

(* Leaving perform_round: the round's state, and with it its guards, is     *)
(* dropped.                                                                 *)
EndRound(next) ==
    /\ pc' = next
    /\ attempt' = 0
    /\ allowed' = Vtxos
    /\ registered' = {}
    /\ sigs' = {}
    /\ forfeits' = {}
    /\ Release(RoundGuard)
    /\ UNCHANGED <<seq, current>>

(* A new CollectingPayments for the next attempt, or RoundResult::Abandoned *)
(* when no input is left (need_new_round).                                  *)
Restart(ok) ==
    IF ok = {}
      THEN EndRound("start")
      ELSE /\ pc' = "attempt"
           /\ attempt' = attempt + 1
           /\ allowed' = ok
           /\ registered' = {}
           /\ sigs' = {}
           /\ forfeits' = {}
           /\ UNCHANGED <<seq, current, flux, held>>

-----------------------------------------------------------------------------

(* run_round_coordinator: increment the sequence number and enter           *)
(* perform_round; from "sleep" the interval has passed or an administrator  *)
(* triggered the round.                                                     *)
StartRound ==
    /\ pc \in {"sleep", "start"}
    /\ seq < MaxRounds
    /\ pc' = "attempt"
    /\ seq' = seq + 1
    /\ UNCHANGED <<attempt, allowed, registered, current, sigs, forfeits,
                   flux, held, tableVars, roundTxs, rpc, cosigned, crashes>>

(* The top of the 'attempt loop: the vtxos locked in a previous attempt are *)
(* released, then RoundEvent::Attempt invites the participants.             *)
StartAttempt ==
    /\ pc = "attempt"
    /\ pc' = "collect"
    /\ Release(RoundGuard)
    /\ UNCHANGED <<seq, attempt, allowed, registered, current, sigs, forfeits,
                   tableVars, roundTxs, rpc, cosigned, crashes>>

(* validate_payment_data *)
ValidPaymentData(p) ==
    /\ p \notin registered
    /\ p \in Offboards \/ Cardinality(Cosigners) < MaxOutputs
    /\ Inputs[p] \cap AllInputs = {}
    /\ Inputs[p] \subseteq allowed

(* process_payment up to the database query: the inputs are put in flux.    *)
LockPayment(p) ==
    /\ pc = "collect"
    /\ ValidPaymentData(p)
    /\ Lock(PaymentGuard, Inputs[p])
    /\ pc' = "check"
    /\ current' = p
    /\ UNCHANGED <<seq, attempt, allowed, registered, sigs, forfeits,
                   tableVars, roundTxs, rpc, cosigned, crashes>>

(* check_fetch_round_input_vtxos finds every input, unspent. *)
CheckPayment ==
    /\ pc = "check"
    /\ Found(Inputs[current])
    /\ \A v \in Inputs[current] : IsSpendable(v)
    /\ pc' = "verify"
    /\ UNCHANGED <<seq, attempt, allowed, registered, current, sigs, forfeits,
                   flux, held, tableVars, roundTxs, rpc, cosigned, crashes>>

(* An input is unknown or spent, or one of the later checks fails: the      *)
(* guard is dropped and the error goes back to the caller.                  *)
RefusePayment ==
    /\ \/ /\ pc = "check"
          /\ ~ (Found(Inputs[current]) /\ \A v \in Inputs[current] : IsSpendable(v))
       \/ pc = "verify"
    /\ pc' = "collect"
    /\ current' = NULL
    /\ Release(PaymentGuard)
    /\ UNCHANGED <<seq, attempt, allowed, registered, sigs, forfeits,
                   tableVars, roundTxs, rpc, cosigned, crashes>>

RegisterPaymentInverted ==
    /\ pc = "verify"
    /\ registered' = registered \cup {current}
    /\ IF attempt # 0 THEN Absorb(RoundGuard, PaymentGuard)
                      ELSE Release(PaymentGuard)
    /\ pc' = IF Cardinality(registered' \ Offboards) = MaxOutputs
               THEN "construct" ELSE "collect"
    /\ current' = NULL
    /\ UNCHANGED <<seq, attempt, allowed, sigs, forfeits,
                   tableVars, roundTxs, rpc, cosigned, crashes>>

(* register_payment: only the first attempt keeps the inputs in flux; later *)
(* the guard is dropped at the end of the call.  A full round stops         *)
(* receiving.                                                               *)
RegisterPayment ==
    /\ pc = "verify"
    /\ registered' = registered \cup {current}
    /\ IF attempt = 0 THEN Absorb(RoundGuard, PaymentGuard)
                      ELSE Release(PaymentGuard)
    /\ pc' = IF Cardinality(registered' \ Offboards) = MaxOutputs
               THEN "construct" ELSE "collect"
    /\ current' = NULL
    /\ UNCHANGED <<seq, attempt, allowed, sigs, forfeits,
                   tableVars, roundTxs, rpc, cosigned, crashes>>

(* The submit timer fires; without payments the round is Empty. *)
CloseRegistration ==
    /\ pc = "collect"
    /\ IF registered = {}
         THEN EndRound("sleep")
         ELSE /\ pc' = "construct"
              /\ UNCHANGED <<seq, attempt, allowed, registered, current, sigs,
                             forfeits, flux, held>>
    /\ UNCHANGED <<tableVars, roundTxs, rpc, cosigned, crashes>>

(* CollectingPayments::progress: VtxoProposal.  When there are offboards    *)
(* only, the server signs the dummy vtxo itself and goes straight on to     *)
(* SigningVtxoTree::progress.                                               *)
ConstructVtxoTree ==
    /\ pc = "construct"
    /\ pc' = IF Cosigners = {} THEN "forfeits" ELSE "sigtree"
    /\ UNCHANGED <<seq, attempt, allowed, registered, current, sigs, forfeits,
                   flux, held, tableVars, roundTxs, rpc, cosigned, crashes>>

(* The wallet cannot fund the round, or later cannot sign it:               *)
(* RoundError::Recoverable, a new round starts at once.                     *)
WalletError ==
    /\ pc \in {"construct", "finish"}
    /\ "wallet" \in Faults
    /\ EndRound("start")
    /\ UNCHANGED <<tableVars, roundTxs, rpc, cosigned, crashes>>

(* The loop that collects vtxo signatures goes on until every cosigner has  *)
(* sent theirs; other messages are refused.  Then SigningVtxoTree::progress *)
(* broadcasts RoundProposal.                                                *)
AfterSignature(received) ==
    IF received = Cosigners THEN "forfeits" ELSE "sigtree"

(* register_signature *)
RegisterSignature(p) ==
    /\ pc = "sigtree"
    /\ p \in Cosigners \ sigs
    /\ sigs' = sigs \cup {p}
    /\ pc' = AfterSignature(sigs')
    /\ UNCHANGED <<seq, attempt, allowed, registered, current, forfeits,
                   flux, held, tableVars, roundTxs, rpc, cosigned, crashes>>

VtxoSignaturesTimeoutSigners ==
    /\ pc = "sigtree"
    /\ Restart(UNION {Inputs[p] : p \in sigs})
    /\ UNCHANGED <<tableVars, roundTxs, rpc, cosigned, crashes>>

(* SigningVtxoTree::restart, when the sign timer fires: every input of a    *)
(* cosigner without signatures is banned from the next attempt.             *)
VtxoSignaturesTimeout ==
    /\ pc = "sigtree"
    /\ Restart(AllInputs \ UNION {Inputs[p] : p \in Cosigners \ sigs})
    /\ UNCHANGED <<tableVars, roundTxs, rpc, cosigned, crashes>>

(* Faulty variant of register_forfeits: any signatures complete the round. *)
RegisterForfeitsAny(vs) ==
    /\ pc = "forfeits"
    /\ vs \subseteq AllInputs
    /\ forfeits' = forfeits \cup vs
    /\ pc' = IF forfeits' # {} THEN "finish" ELSE "forfeits"
    /\ UNCHANGED <<seq, attempt, allowed, registered, current, sigs,
                   flux, held, tableVars, roundTxs, rpc, cosigned, crashes>>

(* The loop that collects forfeits, and check_forfeits after it, which finds *)
(* none missing: the loop ends early only when all are there.               *)
AfterForfeits(received) ==
    IF received = AllInputs THEN "finish" ELSE "forfeits"

(* register_forfeits: valid signatures for some of the inputs arrive.       *)
RegisterForfeits(vs) ==
    /\ pc = "forfeits"
    /\ vs \subseteq AllInputs
    /\ forfeits' = forfeits \cup vs
    /\ pc' = AfterForfeits(forfeits')
    /\ UNCHANGED <<seq, attempt, allowed, registered, current, sigs,
                   flux, held, tableVars, roundTxs, rpc, cosigned, crashes>>

(* restart_missing_forfeits, when the sign timer fires. *)
ForfeitsTimeout ==
    /\ pc = "forfeits"
    /\ Restart(AllInputs \cap forfeits)
    /\ UNCHANGED <<tableVars, roundTxs, rpc, cosigned, crashes>>

(* finish up to the Finished event: the round transaction is signed,        *)
(* committed to the wallet and given to the nursery.                        *)
BroadcastRoundTx ==
    /\ pc = "finish"
    /\ roundTxs' = roundTxs \cup 
          {[seq |-> seq, attempt |-> attempt, inputs |-> AllInputs]}
    /\ pc' = "persist"
    /\ UNCHANGED <<seq, attempt, allowed, registered, current, sigs, forfeits,
                   flux, held, tableVars, rpc, cosigned, crashes>>

(* broadcast_tx fails: RoundError::Fatal, the coordinator stops. *)
BroadcastError ==
    /\ pc = "finish"
    /\ "broadcast" \in Faults
    /\ EndRound("halted")
    /\ UNCHANGED <<tableVars, roundTxs, rpc, cosigned, crashes>>

(* The end of finish: the inputs are marked forfeited and the new vtxos     *)
(* stored.                                                                  *)
PersistRound ==
    /\ pc = "persist"
    /\ FinishRound(seq, AllInputs, UNION {RoundOut[p] : p \in registered})
    /\ EndRound("sleep")
    /\ UNCHANGED <<roundTxs, rpc, cosigned, crashes>>

(* Faulty variant of finish: the refusal of finish_round is not handled. *)
PersistErrorUnhandled ==
    /\ pc = "persist"
    /\ CanFinishRound(AllInputs) /\ "db" \in Faults
    /\ EndRound("halted")
    /\ UNCHANGED <<tableVars, roundTxs, rpc, cosigned, crashes>>

(* finish_round fails: RoundError::Fatal. *)
PersistError ==
    /\ pc = "persist"
    /\ ~ CanFinishRound(AllInputs) \/ "db" \in Faults
    /\ EndRound("halted")
    /\ UNCHANGED <<tableVars, roundTxs, rpc, cosigned, crashes>>

(* An input is refused, for whatever reason, after its caller has gone      *)
(* away: the reply channel is closed and tx.send(e).expect(...) panics.     *)
RefusalPanics ==
    /\ "hangup" \in Faults
    /\ pc \in {"collect", "sigtree", "forfeits"}
    /\ EndRound("halted")
    /\ UNCHANGED <<tableVars, roundTxs, rpc, cosigned, crashes>>

-----------------------------------------------------------------------------

(* register_board, once the board is confirmed deeply enough. *)
RegisterBoard(v) ==
    /\ v \in Boards \ known
    /\ UpsertVtxos({v})
    /\ UNCHANGED <<oor, forfeit, rounds, flux, held, coordVars, roundTxs, rpc,
                   cosigned, crashes>>

(* cosign_oor_package and cosign_oor: the input vtxos are read (their       *)
(* spentness is not looked at) and checked.                                 *)
FetchInputs(r) ==
    /\ rpc[r] = "idle"
    /\ Found(ReqInputs[r])
    /\ rpc' = [rpc EXCEPT ![r] = "fetched"]
    /\ UNCHANGED <<flux, held, tableVars, coordVars, roundTxs, cosigned, crashes>>

(* The inputs are put in flux. *)
LockInputs(r) ==
    /\ rpc[r] = "fetched"
    /\ Lock(r, ReqInputs[r])
    /\ rpc' = [rpc EXCEPT ![r] = "locked"]
    /\ UNCHANGED <<tableVars, coordVars, roundTxs, cosigned, crashes>>

(* Faulty variant: lib.rs carries on like arkoor.rs. *)
InputsInFluxIgnored(r) ==
    /\ rpc[r] = "fetched"
    /\ ~ CanLock(ReqInputs[r])
    /\ rpc' = [rpc EXCEPT ![r] = "locked"]
    /\ UNCHANGED <<flux, held, tableVars, coordVars, roundTxs, cosigned, crashes>>

(* One of them is in flux already: lib.rs refuses the request, arkoor.rs    *)
(* keeps the Err in its guard and carries on.                               *)
InputsInFlux(r) ==
    /\ rpc[r] = "fetched"
    /\ ~ CanLock(ReqInputs[r])
    /\ rpc' = [rpc EXCEPT ![r] = IF r \in Checkpointed THEN "locked" ELSE "idle"]
    /\ UNCHANGED <<flux, held, tableVars, coordVars, roundTxs, cosigned, crashes>>

(* The spends are recorded and the new vtxos stored. *)
MarkSpent(r) ==
    /\ rpc[r] = "locked"
    /\ IF r \in Checkpointed
         THEN UpsertVtxosAndMarkSpends(NewVtxos(r), Spends[r])
         ELSE CheckSetVtxoOorSpentPackage(Spends[r], NewVtxos(r))
    /\ rpc' = [rpc EXCEPT ![r] = "marked"]
    /\ UNCHANGED <<flux, held, coordVars, roundTxs, cosigned, crashes>>

(* Faulty variant: the refused transaction leaves the new vtxos behind. *)
MarkRefusedPartly(r) ==
    /\ rpc[r] = "locked"
    /\ \/ r \in Checkpointed /\ ~ CanMarkSpends(Spends[r], NewVtxos(r))
       \/ r \notin Checkpointed /\ ~ CanSetOorSpent(Spends[r])
    /\ rpc' = [rpc EXCEPT ![r] = "idle"]
    /\ UpsertVtxos(NewVtxos(r))
    /\ Release(r)
    /\ UNCHANGED <<oor, forfeit, rounds, coordVars, roundTxs, cosigned, crashes>>

(* The transaction is refused or fails; the guard is dropped. *)
MarkRefused(r) ==
    /\ rpc[r] = "locked"
    /\ \/ "db" \in Faults
       \/ /\ r \in Checkpointed
          /\ ~ CanMarkSpends(Spends[r], NewVtxos(r))
       \/ /\ r \notin Checkpointed
          /\ ~ CanSetOorSpent(Spends[r])
    /\ rpc' = [rpc EXCEPT ![r] = "idle"]
    /\ Release(r)
    /\ UNCHANGED <<tableVars, coordVars, roundTxs, cosigned, crashes>>

(* Only now the server signs; the guard is dropped with the reply. *)
ServerCosign(r) ==
    /\ rpc[r] = "marked"
    /\ cosigned' = cosigned \cup Spends[r]
    /\ rpc' = [rpc EXCEPT ![r] = "idle"]
    /\ Release(r)
    /\ UNCHANGED <<tableVars, coordVars, roundTxs, crashes>>

(* The process dies, or shuts down after its coordinator stopped, and is    *)
(* started again: only the tables, and what was sent out, remain.           *)
CrashRestart ==
    /\ crashes < MaxCrashes
    /\ crashes' = crashes + 1
    /\ ResetFlux
    /\ rpc' = [r \in Requests |-> "idle"]
    /\ pc' = "start"
    /\ attempt' = 0
    /\ allowed' = Vtxos
    /\ registered' = {}
    /\ current' = NULL
    /\ sigs' = {}
    /\ forfeits' = {}
    /\ UNCHANGED <<seq, tableVars, roundTxs, cosigned>>

-----------------------------------------------------------------------------

(* The steps of the round coordinator's task. *)
CoordNext ==
    \/ StartRound
    \/ StartAttempt
    \/ \E p \in Payments : LockPayment(p)
    \/ CheckPayment
    \/ RefusePayment
    \/ RegisterPayment
    \/ CloseRegistration
    \/ ConstructVtxoTree
    \/ WalletError
    \/ \E p \in Payments : RegisterSignature(p)
    \/ VtxoSignaturesTimeout
    \/ \E vs \in SUBSET Vtxos : RegisterForfeits(vs)
    \/ ForfeitsTimeout
    \/ BroadcastRoundTx
    \/ BroadcastError
    \/ PersistRound
    \/ PersistError
    \/ RefusalPanics

(* The steps of the task that serves the arkoor request r. *)
RequestNext(r) ==
    \/ FetchInputs(r)
    \/ LockInputs(r)
    \/ InputsInFlux(r)
    \/ MarkSpent(r)
    \/ MarkRefused(r)
    \/ ServerCosign(r)

Next ==
    \/ CoordNext
    \/ \E v \in Boards : RegisterBoard(v)
    \/ \E r \in Requests : RequestNext(r)
    \/ CrashRestart

Spec == Init /\ [][Next]_vars

(* Every task makes progress and the timers fire.  The submit timer is one  *)
(* branch of a tokio::select!, which picks among ready branches at random,  *)
(* so refused payments cannot postpone it for ever.  The last conjuncts are *)
(* about the clients, which repeat a request until it is answered, and the  *)
(* database, which does not fail every time.                                *)
Fairness ==
    /\ WF_vars(StartAttempt)
    /\ WF_vars(CheckPayment \/ RefusePayment \/ RegisterPayment)
    /\ SF_vars(CloseRegistration)
    /\ WF_vars(ConstructVtxoTree \/ WalletError)
    /\ WF_vars(VtxoSignaturesTimeout)
    /\ WF_vars(ForfeitsTimeout)
    /\ WF_vars(BroadcastRoundTx \/ BroadcastError)
    /\ WF_vars(PersistRound \/ PersistError)
    /\ \A r \in Requests : WF_vars(RequestNext(r)) /\ SF_vars(MarkSpent(r))

FairSpec == Spec /\ Fairness

-----------------------------------------------------------------------------

(* Safety *)

(* The two ways of spending exclude each other in the table: no row has     *)
(* both oor_spent_txid and forfeit_state.                                   *)
SpentOnce == \A v \in Vtxos : oor[v] = NULL \/ forfeit[v] = NULL

(* The server behaves as the abstract ledger: recorded spends never change  *)
(* and every signature is for the recorded spend.                           *)
SpentBy == [v \in Vtxos |-> IF oor[v] # NULL THEN oor[v] ELSE forfeit[v]]

Ledger == INSTANCE SpendLedger
            WITH Spenders <- Txids \cup Nat,
                 spentBy <- SpentBy,
                 signed <- {<<s.vtxo, s.txid>> : s \in cosigned}

ImplementsLedger == Ledger!LedgerSpec

(* Every vtxo the server stores is paid for: it is a board, or the arkoor   *)
(* transaction that creates it is recorded as the spender of its input, or  *)
(* the inputs of its payment are forfeited to one stored round.             *)
VtxosFunded ==
    \A v \in known \ Boards :
        \/ \E u \in Vtxos : oor[u] # NULL /\ v \in TxOut[oor[u]]
        \/ \E p \in Payments, n \in rounds :
              v \in RoundOut[p] /\ \A u \in Inputs[p] : forfeit[u] = n

(* While the first attempt of a round runs, nothing else spends the inputs  *)
(* registered for it.                                                       *)
FirstAttemptProtected ==
    (attempt = 0 /\ Checkpointed = {}) =>
        \A v \in AllInputs : v \in known /\ IsSpendable(v)

(* A round transaction of a first attempt that reached the network has its  *)
(* round stored, unless the coordinator is about to store it.               *)
FirstAttemptRecorded ==
    (Checkpointed = {} /\ "db" \notin Faults /\ MaxCrashes = 0) =>
        \A tx \in roundTxs :
            tx.attempt = 0 =>
                \/ tx.seq \in rounds
                \/ pc = "persist" /\ seq = tx.seq /\ attempt = 0

(* Each new attempt has lost at least one input, so a round has at most as  *)
(* many attempts as there are vtxos.                                        *)
AttemptsBounded == attempt + Cardinality(allowed) <= Cardinality(Vtxos)

(* A participant that delivered its tree signatures, or had none to         *)
(* deliver, is not banned because another one did not.                      *)
DiligentNotBanned ==
    [][(pc = "sigtree" /\ pc' \in {"attempt", "start"} /\ crashes' = crashes) =>
          \A p \in sigs \cup (registered \cap Offboards) :
              pc' = "attempt" /\ Inputs[p] \subseteq allowed']_vars

(* finish finds the forfeit signatures of all inputs                        *)
(* (expect("missing part sigs")), and the tree is fully signed.             *)
FinishComplete ==
    pc \in {"finish", "persist"} => forfeits = AllInputs /\ Cosigners \subseteq sigs

(* What the coordinator counts on while a round runs (round/mod.rs): the    *)
(* state of each phase has its type, restarts are bounded by the inputs     *)
(* that are left, and finish has every signature it unwraps.                *)
CoordinatorSound == TypeOK /\ AttemptsBounded /\ FinishComplete

-----------------------------------------------------------------------------

(* Liveness *)

(* Every round comes to an end. *)
RoundEnds ==
    pc \notin {"sleep", "start", "halted"} ~> pc \in {"sleep", "start", "halted"}

(* Once the spends of a checkpointed arkoor are recorded its client gets    *)
(* the signatures, also when the server crashes in between: marking is      *)
(* idempotent.                                                              *)
RecordedThenCosigned ==
    \A r \in Checkpointed :
        (\A s \in Spends[r] : oor[s.vtxo] = s.txid) ~> Spends[r] \subseteq cosigned

-----------------------------------------------------------------------------

(* Statements of the source's comments *)

(* check_fetch_round_input_vtxos: "The caller should ensure no changes are  *)
(* made to them meanwhile.": a registered input stays unspent until its     *)
(* round is stored.                                                         *)
RegisteredInputsUnspent ==
    pc \in {"sigtree", "forfeits", "finish", "persist"} =>
        \A v \in AllInputs : IsSpendable(v)

(* cosign_oor, "Mark the vtxo as in-flux": from there until the reply the   *)
(* request's inputs are locked by it.                                       *)
CosignInputsLocked ==
    \A r \in Checkpointed :
        rpc[r] \in {"locked", "marked"} => ReqInputs[r] \subseteq held[r]

(* RoundError::Fatal, "A fatal error occurred that we can't recover from.   *)
(* Halt operations.": only finish raises it, so the coordinator halts only  *)
(* from there.                                                              *)
OnlyFatalHalts ==
    [][(pc' = "halted" /\ pc # "halted") => pc \in {"finish", "persist"}]_vars
=============================================================================
