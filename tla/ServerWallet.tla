---------------------------- MODULE ServerWallet ----------------------------
(***************************************************************************)
(* The rounds wallet of the server (server/src/wallet.rs) behind its mutex, *)
(* with the code that spends from it: round attempts, which keep a common  *)
(* input locked with a WalletUtxoGuard, issuance of pool vtxos, and         *)
(* Server::sync_wallets, which funds the forfeit watcher's wallet.          *)
(***************************************************************************)
EXTENDS Integers, FiniteSets

CONSTANTS
    Utxos,          \* outputs of the rounds wallet
    SyncCallers,    \* callers of sync_wallets: the coordinator, an operator
    WalModes        \* scenarios: attempts, callers, faults, a restart

NoUtxo == "none"

ASSUME WalAssumption ==
    /\ NoUtxo \notin Utxos
    /\ IsFiniteSet(SyncCallers) /\ \A m \in WalModes : m.callers \subseteq SyncCallers

VARIABLES
    walMode,        \* the scenario
    wal,            \* the wallet: spends it knows, spends it has stored
    mutex,          \* who holds the wallet's mutex
    index,          \* LockedWalletUtxosIndex
    attempt,        \* the round: phase, attempt, guard, inputs of its attempts
    sent,           \* broadcast transactions: who made them, an input
    fw,             \* the forfeit wallet: funds it lacks, funds on the way
    syncs           \* the sync_wallets calls

walVars == <<walMode, wal, mutex, index, attempt, sent, fw, syncs>>

NoRound == [phase |-> "none", seq |-> 0, guard |-> NoUtxo, used |-> {}]

WalInit ==
    /\ walMode \in WalModes
    /\ wal = [known |-> {}, stored |-> {}, faults |-> 0, crashed |-> FALSE]
    /\ mutex = "none" /\ index = {} /\ attempt = NoRound /\ sent = {}
    /\ fw = [short |-> TRUE, funded |-> 0]
    /\ syncs = [c \in SyncCallers |-> "idle"]

(* unavailable_outputs: the locked outputs; all others are confirmed here.   *)
KnownSpent == {t.input : t \in wal.known}
Spendable == Utxos \ (KnownSpent \cup index)

(* persist keeps the staged changes if the database fails.                   *)
Persisted(w) == [w EXCEPT !.stored = w.known]
MayFail == walMode.faulty /\ wal.faults = 0
Failed(w) == [w EXCEPT !.faults = 1]

(* WalletUtxoGuard: made with the output, removed from the index when dropped. *)
LockWalletUtxo(u) == index \cup {u}
GuardDropped(u) == index \ {u}

(***************************************************************************)
(* Rounds                                                                  *)
(***************************************************************************)
RoundStarts ==
    /\ attempt.phase = "none"
    /\ attempt' = [NoRound EXCEPT !.phase = "collect"]
    /\ UNCHANGED <<walMode, wal, mutex, index, sent, fw, syncs>>

(* CollectingPayments::progress without a common input: the first input is   *)
(* locked.                                                                    *)
BuildFirst(u) ==
    /\ attempt.phase = "collect" /\ attempt.guard = NoUtxo /\ mutex = "none"
    /\ u \in Spendable
    /\ mutex' = "round"
    /\ index' = LockWalletUtxo(u)
    /\ attempt' = [attempt EXCEPT !.phase = "sign", !.guard = u, !.used = @ \cup {u}]
    /\ UNCHANGED <<walMode, wal, sent, fw, syncs>>

(* With one it is used again; the guard is cloned, and the original dropped. *)
BuildAgain ==
    /\ attempt.phase = "collect" /\ attempt.guard # NoUtxo /\ mutex = "none"
    /\ attempt.guard \notin KnownSpent
    /\ mutex' = "round"
    /\ index' = GuardDropped(attempt.guard)
    /\ attempt' = [attempt EXCEPT !.phase = "sign", !.used = @ \cup {attempt.guard}]
    /\ UNCHANGED <<walMode, wal, sent, fw, syncs>>

(* RoundError, or add_utxo finds that the common input is spent              *)
RoundAbandoned ==
    /\ attempt.phase \in {"collect", "sign"}
    /\ mutex' = IF attempt.phase = "sign" THEN "none" ELSE mutex
    /\ index' = GuardDropped(attempt.guard)
    /\ attempt' = NoRound
    /\ UNCHANGED <<walMode, wal, sent, fw, syncs>>

(* restart, restart_missing_forfeits                                          *)
RoundRestarts ==
    /\ attempt.phase = "sign" /\ attempt.seq < walMode.attempts - 1
    /\ mutex' = "none"
    /\ attempt' = [attempt EXCEPT !.phase = "collect", !.seq = @ + 1]
    /\ UNCHANGED <<walMode, wal, index, sent, fw, syncs>>

(* Faulty variant: the round transaction is not committed to the wallet. *)
RoundCommitsUnknown ==
    /\ attempt.phase = "sign"
    /\ attempt' = [attempt EXCEPT !.phase = "broadcast"]
    /\ mutex' = "none"
    /\ UNCHANGED <<walMode, wal, index, sent, fw, syncs>>

(* finish: sign and commit, persist, then broadcast; an error is only logged *)
RoundCommits ==
    /\ attempt.phase = "sign"
    /\ LET w == [wal EXCEPT !.known = @ \cup {[by |-> "round", input |-> attempt.guard]}]
       IN wal' = Persisted(w) \/ (MayFail /\ wal' = Failed(w))
    /\ attempt' = [attempt EXCEPT !.phase = "broadcast"]
    /\ mutex' = "none"
    /\ UNCHANGED <<walMode, index, sent, fw, syncs>>

RoundBroadcasts ==
    /\ attempt.phase = "broadcast"
    /\ sent' = sent \cup {[by |-> "round", input |-> attempt.guard]}
    /\ index' = GuardDropped(attempt.guard)
    /\ attempt' = NoRound
    /\ UNCHANGED <<walMode, wal, mutex, fw, syncs>>

(***************************************************************************)
(* Other spenders                                                          *)
(***************************************************************************)
(* VtxoPool::issue_vtxos: an error in persist means no broadcast.             *)
IssuePool(u) ==
    /\ mutex = "none" /\ u \in Spendable
    /\ LET w == [wal EXCEPT !.known = @ \cup {[by |-> "pool", input |-> u]}]
       IN \/ wal' = Persisted(w) /\ sent' = sent \cup {[by |-> "pool", input |-> u]}
          \/ MayFail /\ wal' = Failed(w) /\ UNCHANGED sent
    /\ UNCHANGED <<walMode, mutex, index, attempt, fw, syncs>>

(* sync_wallets: both wallets are read, then the rounds wallet is locked.     *)
SyncReads(c) ==
    /\ c \in walMode.callers /\ syncs[c] = "idle" /\ mutex = "none"
    /\ fw.short
    /\ syncs' = [syncs EXCEPT ![c] = "send"]
    /\ UNCHANGED <<walMode, wal, mutex, index, attempt, sent, fw>>

SyncSends(c, u) ==
    /\ syncs[c] = "send" /\ mutex = "none" /\ u \in Spendable
    /\ LET w == [wal EXCEPT !.known = @ \cup {[by |-> "send", input |-> u]}]
       IN \/ /\ wal' = Persisted(w)
             /\ sent' = sent \cup {[by |-> "send", input |-> u]}
             /\ syncs' = [syncs EXCEPT ![c] = "broadcast"]
          \/ MayFail /\ wal' = Failed(w) /\ syncs' = [syncs EXCEPT ![c] = "idle"] /\ UNCHANGED sent
    /\ UNCHANGED <<walMode, mutex, index, attempt, fw>>

(* The transaction is seen and the forfeit wallet syncs.                      *)
SyncSeen(c) ==
    /\ syncs[c] = "broadcast"
    /\ fw' = [short |-> FALSE, funded |-> fw.funded + 1]
    /\ syncs' = [syncs EXCEPT ![c] = "idle"]
    /\ UNCHANGED <<walMode, wal, mutex, index, attempt, sent>>

SyncFails(c) ==
    /\ syncs[c] = "send" /\ mutex = "none" /\ Spendable = {}
    /\ syncs' = [syncs EXCEPT ![c] = "idle"]
    /\ UNCHANGED <<walMode, wal, mutex, index, attempt, sent, fw>>

(* PersistedWallet::sync persists, and sends what is not confirmed again.     *)
SyncWallet ==
    /\ mutex = "none"
    /\ wal' = Persisted(wal)
    /\ sent' = sent \cup wal.known
    /\ <<wal, sent>>' # <<wal, sent>>
    /\ UNCHANGED <<walMode, mutex, index, attempt, fw, syncs>>

(* Only blocks are synced: what was not stored is unknown until it confirms. *)
RestartWallet ==
    /\ walMode.crash /\ ~wal.crashed
    /\ wal' = [wal EXCEPT !.known = wal.stored, !.crashed = TRUE]
    /\ mutex' = "none" /\ index' = {} /\ attempt' = NoRound
    /\ syncs' = [c \in SyncCallers |-> "idle"]
    /\ UNCHANGED <<walMode, sent, fw>>

WalNext ==
    \/ RoundStarts \/ BuildAgain \/ RoundAbandoned \/ RoundRestarts \/ RoundCommits \/ RoundBroadcasts
    \/ \E u \in Utxos : BuildFirst(u) \/ IssuePool(u) \/ \E c \in SyncCallers : SyncSends(c, u)
    \/ \E c \in SyncCallers : SyncReads(c) \/ SyncSeen(c) \/ SyncFails(c)
    \/ SyncWallet \/ RestartWallet

WalSpec == WalInit /\ [][WalNext]_walVars

(***************************************************************************)
(* Properties                                                              *)
(***************************************************************************)
WalTypeOK ==
    /\ KnownSpent \subseteq Utxos /\ wal.stored \subseteq wal.known
    /\ index \subseteq Utxos /\ attempt.phase \in {"none", "collect", "sign", "broadcast"}

(* The wallet never spends an output twice, whoever spends, if the database  *)
(* fails or the server restarts (not both).                                  *)
OutputsSpentOnce ==
    ~(walMode.faulty /\ walMode.crash) => \A s, t \in sent : s.input = t.input => s = t

(* All attempts of a round spend a common output, so that at most one of     *)
(* their transactions can confirm.                                            *)
AttemptsConflict == Cardinality(attempt.used) <= 1

(* In the first two attempts nobody else spends the round's common input.     *)
CommonInputKept ==
    attempt.phase \in {"collect", "sign"} /\ attempt.guard # NoUtxo /\ attempt.seq < 2 =>
        attempt.guard \notin KnownSpent

(* One caller at a time funds the forfeit watcher once for one shortage.      *)
FundedOnce ==
    Cardinality(walMode.callers) = 1 /\ ~walMode.faulty /\ ~walMode.crash =>
        Cardinality({s \in sent : s.by = "send"}) <= 1

(* "A guard over a utxo in the wallet to keep it locked during guard         *)
(* lifetime": not met, since a clone of a guard that is dropped unlocks it.   *)
GuardKeepsLocked == attempt.guard # NoUtxo => attempt.guard \in index
=============================================================================
