---------------------------- MODULE MCComponents -----------------------------
(***************************************************************************)
(* Components that are checked on their own, for safety: the server's      *)
(* sweeper, tokens, wallet, keys and boards; the library's trees and       *)
(* chains; the heights of HTLCs; the client's selection and on-chain       *)
(* wallet.  Each one has behaviours of its own.                            *)
(***************************************************************************)
EXTENDS FundsProofs, EphemeralKeys, ServerBoards,
        VtxoChains, VtxoSelection, BarkOnchain, TLC

CONSTANTS Parts, k1, k2, k3, c1, c2, c3

VARIABLE part   \* the component that moves

(***************************************************************************)
(* Sweeper: a round with a tree of two nodes and two connectors, and a     *)
(* board; others publish a connector and what it allows, or a restart; in  *)
(* MCSweepTree the tree is published, in MCSweepConn all connectors.       *)
(***************************************************************************)
MCTop == [name |-> "top", spends |-> "root", outs |-> <<"o1", "o2">>]
MCLeaf == [name |-> "leaf", spends |-> "o1", outs |-> <<"e1">>]
MCConn1 == [name |-> "c1", spends |-> "conn", outs |-> <<"conn1", "k1">>]
MCConn2 == [name |-> "c2", spends |-> "conn1", outs |-> <<"conn2", "k2">>]
MCForfeit == [name |-> "ff", spends |-> "k1", outs |-> <<>>]
MCRound == [root |-> "root", tree |-> <<MCTop, MCLeaf>>,
            conn |-> "conn", conns |-> <<MCConn1, MCConn2>>, forfeits |-> {MCForfeit}]
MCBoard == [anchor |-> "anchor", exit |-> [name |-> "bexit", spends |-> "anchor", outs |-> <<>>]]
MCSweepRounds == <<MCRound>>
MCSweepBoards == <<MCBoard>>
MCValue ==
    [p \in {"root", "o1", "o2", "e1", "conn", "conn1", "conn2", "k1", "k2", "anchor"} |->
        CASE p = "root" -> 5
          [] p \in {"o1", "o2"} -> 3
          [] p \in {"conn", "conn1", "conn2"} -> 2
          [] p \in {"e1", "anchor"} -> 1
          [] OTHER -> -1]
MCSweep == [others |-> {}, crash |-> TRUE]
MCSweepModes == {MCSweep, [others |-> {MCConn1, MCForfeit, MCBoard.exit}, crash |-> FALSE]}
MCSweepTree == {[others |-> {MCTop, MCLeaf}, crash |-> FALSE]}
MCSweepConn == {[others |-> {MCConn1, MCConn2}, crash |-> FALSE]}

(***************************************************************************)
(* Tokens: three callers, at most one open token.                          *)
(***************************************************************************)
MCTokenCalls == c1 :> {"get", "update"} @@ c2 :> {"get", "update", "config"} @@ c3 :> {"update", "config"}
MCTokenModes == {[serial |-> TRUE]}
MCTokensOverlap == {[serial |-> FALSE]}

(***************************************************************************)
(* Wallet: two attempts with a failing database or a restart; a third      *)
(* attempt with two callers of sync_wallets.                               *)
(***************************************************************************)
MCWallet == [attempts |-> 2, callers |-> {"coordinator"}, faulty |-> FALSE, crash |-> FALSE]
MCWalModes == {MCWallet, [MCWallet EXCEPT !.faulty = TRUE], [MCWallet EXCEPT !.crash = TRUE],
               [MCWallet EXCEPT !.attempts = 3, !.callers = SyncCallers]}

(***************************************************************************)
(* Boards, trees, chains and selection.                                     *)
(***************************************************************************)
MCBoardAmount == "b1" :> 5 @@ "b2" :> 9
MCBoardExpiry == "b1" :> 3 @@ "b2" :> 4
MCTreeSizes == 1..22
MCRoundOutputs == <<4, 5, 4, 6, 7>>
Coin(amount, expiry, cost) == [amount |-> amount, expiry |-> expiry, exitCost |-> cost]
MCCoins == <<Coin(1, 3, 0), Coin(6, 5, 0), Coin(2, 6, 4), Coin(5, 9, 0)>>

-----------------------------------------------------------------------------
serverParts == <<tokVars, walVars, keyVars, boardVars>>
libParts == <<treeVars, chainVars, timeVars>>
clientParts == <<selVars, onchainVars>>
compVars == <<part, sweepVars, serverParts, libParts, clientParts>>

ComponentsInit ==
    /\ part \in Parts
    /\ SweepInit /\ TokInit /\ WalInit /\ KeyInit /\ BoardInit
    /\ TreeInit /\ ChainInit /\ TimeInit /\ SelInit /\ OnchainInit
    /\ part # "sweeper" => smode = CHOOSE m \in SweepModes : TRUE
    /\ part # "wallet" => walMode = MCWallet
    /\ part # "tree" => tree.nb = 1 /\ signing.who = {} /\ signing.nonces = 2
    /\ part # "timing" => htlc.kind = CHOOSE k \in HtlcKinds : TRUE
    /\ part # "timing" => htlc.exitDelta = CHOOSE d \in ExitDeltas : TRUE

SweepPart == part = "sweeper" /\ SweepNext /\ UNCHANGED <<part, serverParts, libParts, clientParts>>
TokPart ==
    /\ part = "tokens" /\ TokNext
    /\ UNCHANGED <<part, sweepVars, walVars, keyVars, boardVars, libParts, clientParts>>
WalPart ==
    /\ part = "wallet" /\ WalNext
    /\ UNCHANGED <<part, sweepVars, tokVars, keyVars, boardVars, libParts, clientParts>>
KeyPart ==
    /\ part = "keys" /\ KeyNext
    /\ UNCHANGED <<part, sweepVars, tokVars, walVars, boardVars, libParts, clientParts>>
BoardPart ==
    /\ part = "boards" /\ BoardNext
    /\ UNCHANGED <<part, sweepVars, tokVars, walVars, keyVars, libParts, clientParts>>
TreePart ==
    /\ part = "tree" /\ TreeNext
    /\ UNCHANGED <<part, sweepVars, serverParts, chainVars, timeVars, clientParts>>
ChainPart ==
    /\ part = "chains" /\ ChainNext
    /\ UNCHANGED <<part, sweepVars, serverParts, treeVars, timeVars, clientParts>>
TimePart ==
    /\ part = "timing" /\ TimeNext
    /\ UNCHANGED <<part, sweepVars, serverParts, treeVars, chainVars, clientParts>>
SelPart ==
    /\ part = "selection" /\ SelNext
    /\ UNCHANGED <<part, sweepVars, serverParts, libParts, onchainVars>>
OnchainPart ==
    /\ part = "onchain" /\ OnchainNext
    /\ UNCHANGED <<part, sweepVars, serverParts, libParts, selVars>>

ComponentsNext ==
    \/ SweepPart \/ TokPart \/ WalPart \/ KeyPart \/ BoardPart
    \/ TreePart \/ ChainPart \/ TimePart \/ SelPart \/ OnchainPart

ComponentsSpec == ComponentsInit /\ [][ComponentsNext]_compVars

(* What the library builds (tree/, arkoor/, vtxo/, lightning.rs): trees     *)
(* whose signatures fit their nodes, chains that validate, end in their     *)
(* point and keep their value, and HTLCs whose clauses open in the order    *)
(* the protocol needs.                                                      *)
LibrarySound ==
    /\ TreeTypeOK /\ ChainTypeOK /\ TimeTypeOK
    /\ LeavesExact /\ TreeComplete /\ SignaturesFit
    /\ BuiltValid /\ ExitReachesPoint /\ SpendsMatchExit
    /\ ValueKept /\ ForfeitsFit /\ RevocationsAgree
    /\ ReceiverFirst /\ PaidNotRefunded /\ ClausesCommitted

(* The client's money (selection.rs, lib.rs, onchain/bdk.rs): a selection   *)
(* covers its amount, a participation balances, and the stored on-chain     *)
(* wallet knows what was sent, revealed and received.                       *)
ClientFundsSound ==
    /\ SelTypeOK /\ OnchainTypeOK
    /\ FilterExact /\ SelectionCovers /\ PartBalanced
    /\ BroadcastRemembered /\ AddressesFresh /\ ScanComplete
=============================================================================
