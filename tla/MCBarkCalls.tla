---------------------------- MODULE MCBarkCalls -----------------------------
(***************************************************************************)
(* The wallet's calls composed: payments, boards, the mailbox, lightning   *)
(* sends and receives over one database, and a round that locks a vtxo;    *)
(* and small instances of them.                                            *)
(***************************************************************************)
EXTENDS BarkTransfers, BarkLightning, TLC

CONSTANTS c1, c2, c3, v1, v2, p1, p2

(* join_next_round of a vtxo that was spendable when the user chose it      *)
JoinChoose(c) ==
    /\ At(c, "join", "idle")
    /\ \E v \in VtxosByState(db.vtxos, {"spendable"}) :
         call' = [call EXCEPT ![c].pc = "lock", ![c].ins = {v}]
    /\ UNCHANGED <<mode, db, net>>

JoinLock(c) ==
    /\ At(c, "join", "lock")
    /\ LET res == SetVtxoStates(db.vtxos, call[c].ins, "locked", {"spendable"}) IN
       IF res.ok THEN db' = [db EXCEPT !.vtxos = res.tab] /\ Goto(c, "ok")
                 ELSE db' = db /\ End(c, "err")
    /\ UNCHANGED <<mode, net>>

CallNext(c) ==
    \/ SendArkoorPayment(c) \/ SyncOors(c)
    \/ BoardCall(c) \/ SyncPendingBoards(c)
    \/ MakeLightningPayment(c) \/ CheckLightningPayment(c)
    \/ TryClaimLightningReceive(c)
    \/ JoinChoose(c) \/ JoinLock(c)

Environment ==
    NewBlock \/ BoardConfirmed \/ PaymentEnds \/ PayerPays \/ ServerCancels

(* No call is under way; a call that has begun must be able to go on.       *)
Rest == (\A c \in Calls : ~Running(c)) /\ UNCHANGED walletVars

Next == (\E c \in Calls : CallNext(c)) \/ Environment \/ Crash \/ Rest

Spec == Init /\ [][Next]_walletVars

(* The daemon repeats its calls, and a call that has begun goes on.         *)
Continue(c) == (Running(c) \/ Kind(c) \in Repeated) /\ CallNext(c)

FairSpec == Spec /\ \A c \in Calls : WF_walletVars(Continue(c))

(***************************************************************************)
(* Properties                                                              *)
(***************************************************************************)
Spendable == VtxosByState(db.vtxos, {"spendable"})

Unspent == VtxosByState(db.vtxos, UnspentStates)

Outputs(c) == {<<k, c>> : k \in {"change", "htlc", "revoked", "claim"}}

Faultless == net.faults = 0

Quiet == Faultless /\ \A c \in Calls : ~Running(c)

(* The wallet is not told yet that the payment of this HTLC went through.   *)
Unreported(v) == \E h \in Calls : db.sends[h] = [st |-> "open", by |-> v[2]]

(* The wallet never counts an input and what the server made of it as       *)
(* spendable at once, whatever was lost or interrupted: inputs are marked   *)
(* before the change is stored (arkoor.rs, pay.rs).                          *)
CountedOnce ==
    \A c \in Calls : Outputs(c) \cap Spendable # {} => net.ins[c] \cap Spendable = {}

(* Without faults, and when no call is under way, the wallet's vtxo table   *)
(* has unspent exactly the vtxos that the server has: overlapping payments  *)
(* that select one input, revocations and claims leave no difference.       *)
InStep ==
    Quiet => \A v \in Vtxos : v[1] \in {"own", "change", "htlc", "revoked", "oor", "claim"} =>
        \/ v \in Unspent <=> v \in net.made \ (net.spent \cup db.exits)
        \/ v[1] = "htlc" /\ v \in Unspent /\ Unreported(v)

(* A movement that stays pending belongs to a board, a lightning send or a  *)
(* receive that the daemon will go on with; failed payments close theirs    *)
(* (the guard in arkoor.rs, the revocation in pay.rs).                      *)
MovementsReferred ==
    Quiet => \A c \in Calls : db.moves[c] = "pending" =>
        \/ c \in db.boards
        \/ \E h \in Calls : db.sends[h] = [st |-> "open", by |-> c]
        \/ db.recv.move = c /\ ~db.recv.finished

(* A payment reported as successful, failed or canceled keeps this status   *)
(* when two checks or two claims of it overlap (finish_movement does not    *)
(* look at the status it replaces).                                         *)
FinalStays ==
    [][\A m \in Calls \cup Packages :
         db.moves[m] \in {"successful", "failed", "canceled"} /\ m \notin db.boards =>
           db'.moves[m] = db.moves[m]]_walletVars

(* A lightning send with a preimage has spent HTLC vtxos and a successful   *)
(* movement, which are three statements (process_lightning_send_server_     *)
(* preimage).                                                               *)
PaidSettled ==
    Quiet => \A h \in Calls : db.sends[h].st = "paid" =>
        /\ db.vtxos[Htlc(db.sends[h].by)] = "spent"
        /\ db.moves[db.sends[h].by] = "successful"

(* A vtxo that a round has locked stays locked: the sync that registers     *)
(* boards does not make it spendable again (register_board allows every     *)
(* unspent state).                                                          *)
LockKept ==
    Faultless => \A c \in Calls : Kind(c) = "join" /\ call[c].pc = "ok" => \A v \in call[c].ins : db.vtxos[v] = "locked"

(* Every package taken from the mailbox is in the wallet's table.           *)
Delivered ==
    Quiet => \A p \in Packages : <<"oor", p>> \in net.made => db.vtxos[<<"oor", p>>] # "absent"

(* A board that the server would register is registered and no longer       *)
(* pending some time (sync_pending_boards).                                 *)
BoardsSettle ==
    \A c \in Calls :
      c \in db.boards /\ ServerRegisters(c) /\ Faultless ~> c \notin db.boards \/ ~Faultless

(* Once a lightning payment has succeeded or failed, the checks settle its  *)
(* row: paid, revoked or given up (check_lightning_payment).                *)
SendsSettle ==
    \A h \in Calls :
      db.sends[h].st = "open" /\ net.pay[h] \in {"paid", "failed"} /\ Faultless
        ~> db.sends[h].st # "open" \/ ~Faultless

(* A receive whose HTLC vtxos were handed out is finished some time: it is  *)
(* claimed, exited or canceled (try_claim_lightning_receive).               *)
ReceiveEnds == net.recv = "ready" /\ Faultless ~> db.recv.finished \/ ~Faultless

(* The wallet's tables agree with each other and, when nothing is under     *)
(* way, with the server, however the calls of daemon and user overlap.      *)
WalletSound ==
    TypeOK /\ CountedOnce /\ InStep /\ MovementsReferred /\ PaidSettled /\ LockKept /\ Delivered

(* Without faults the daemon's calls finish what was begun: boards,         *)
(* lightning payments and receives.                                         *)
WalletSettles == BoardsSettle /\ SendsSettle /\ ReceiveEnds

(***************************************************************************)
(* Properties that some scenarios violate; see README.                     *)
(***************************************************************************)

(* pending_boards finds a row for every id that it has listed.              *)
NoPanic == \A c \in Calls : call[c].pc # "panic"

(* A receive that is over and whose preimage has left the wallet has given  *)
(* it a vtxo, or its HTLC vtxos are being exited: "LN receive is being      *)
(* canceled but preimage has been disclosed. Exiting" (receive.rs).         *)
RevealedKept ==
    db.recv.finished /\ db.recv.revealed /\ db.recv.htlcs # {} =>
        \/ db.recv.htlcs \subseteq db.exits
        \/ \E c \in Calls : db.vtxos[<<"claim", c>>] # "absent"

(* No vtxo is exited that the server has seen spent.                        *)
ExitsUnspent == Faultless => db.exits \cap net.spent = {}

-----------------------------------------------------------------------------
MCKinds(x, y, z) == (c1 :> x) @@ (c2 :> y) @@ (c3 :> z)

MCBase == [kinds |-> MCKinds("off", "off", "off"), needs |-> (c1 :> 1) @@ (c2 :> 2) @@ (c3 :> 1),
           hash |-> [c \in Calls |-> c1], own |-> {v1, v2}, packages |-> {}, boards |-> {}, blocks |-> 0, faults |-> {}]

(* Two payments of the user while the daemon empties the mailbox *)
MCSends == [MCBase EXCEPT !.kinds = MCKinds("send", "send", "oors"), !.packages = {p1, p2},
                          !.faults = {"crash", "lost", "lookup"}]

(* A board, the sync that registers it, and a round with the new vtxo *)
MCBoards == [MCBase EXCEPT !.kinds = MCKinds("board", "boards", "join"), !.own = {}, !.blocks = 5, !.faults = {"crash", "lost", "lookup", "sign"}]
MCBoards2 == [MCBase EXCEPT !.kinds = MCKinds("join", "boards", "boards"), !.own = {}, !.boards = {c1}, !.blocks = 4]

(* A lightning payment, the daemon's check and an arkoor, or two checks *)
MCPay == [MCBase EXCEPT !.kinds = MCKinds("pay", "check", "send"), !.blocks = 3, !.faults = {"crash", "lost"}]
MCPay2 == [MCBase EXCEPT !.kinds = MCKinds("pay", "check", "check"), !.blocks = 3, !.faults = {"crash", "lost"}]
MCPayTwice == [MCBase EXCEPT !.kinds = MCKinds("pay", "check", "pay"), !.blocks = 2]

(* A receive with one or two callers *)
MCClaim == [MCBase EXCEPT !.kinds = MCKinds("claim", "off", "off"), !.blocks = 3, !.faults = {"crash", "lost", "lookup"}]
MCClaim2 == [MCBase EXCEPT !.kinds = MCKinds("claim", "claim", "off"), !.blocks = 3]

MCModes == {MCSends, MCBoards, MCPay, MCPay2, MCClaim, MCClaim2}
MCClaimOnly == {MCClaim}
=============================================================================
