------------------------------ MODULE VtxoChains ------------------------------
(***************************************************************************)
(* Vtxos as chains of presigned transactions: boards, trees, arkoors with  *)
(* and without checkpoints, HTLC revocations, connectors and forfeits      *)
(* (lib/src/board.rs, tree/signed.rs, arkoor/, connectors.rs, forfeit.rs), *)
(* and the validation every vtxo must pass (lib/src/vtxo). A txid is the   *)
(* transaction itself, a signature is the spent output and the             *)
(* transaction it signs; vouts count from one; fee anchors are left out.   *)
(*                                                                         *)
(* First the radix-4 tree of vtxos (lib/src/tree/mod.rs) and its cosigning *)
(* (lib/src/tree/signed.rs): the leaves' owners sign the branch of their   *)
(* leaf, the server all nodes, and the server combines what it collected.  *)
(* A partial signature is the node it signs and the place of its nonce.    *)
(***************************************************************************)
EXTENDS HtlcTiming, SequencesExt, FiniteSetsExt, Functions

CONSTANTS
    TreeSizes,      \* numbers of leaves
    NonceCounts     \* nb_round_nonces: nonces a participant sends per leaf

ASSUME TreeAssumption == TreeSizes \subseteq Nat \ {0} /\ NonceCounts \subseteq Nat

VARIABLES
    tree,       \* the Tree that is built: its nodes and the cursor of new()
    signing,    \* whose leaves are cosigned, the nonces, the place in the flow
    queue,      \* leaf_part_sigs: what is left of each leaf's signatures
    combined    \* for each node the signatures combined for it

treeVars == <<tree, signing, queue, combined>>

RADIX == 4
NoParent == -1

NewLeaf(idx, nb) == [parent |-> NoParent, children |-> <<>>, first |-> idx, last |-> (idx + 1) % nb, level |-> 0]

(* The nodes before the first round of the loop.                             *)
NewLeaves(nb) == [nodes |-> [i \in 0..nb - 1 |-> NewLeaf(i, nb)], cursor |-> 0, nb |-> nb]

NbNodes(t) == Cardinality(DOMAIN t.nodes)
Growing(t) == t.cursor < NbNodes(t) - 1

(* One round: the next RADIX nodes get a parent.                             *)
Grow(t) ==
    LET new == NbNodes(t)
        end == Min({t.cursor + RADIX, new})
        kids == [k \in 1..end - t.cursor |-> t.cursor + k - 1]
    IN [t EXCEPT
          !.cursor = end,
          !.nodes = [i \in 0..new |->
              IF i = new
                THEN [parent |-> NoParent, children |-> kids,
                      first |-> t.nodes[t.cursor].first, last |-> t.nodes[end - 1].last,
                      level |-> 1 + Max({t.nodes[i2].level : i2 \in Range(kids)})]
                ELSE IF i \in Range(kids) THEN [t.nodes[i] EXCEPT !.parent = new] ELSE t.nodes[i]]]

NewTree(nb) ==
    LET grown[k \in 0..nb] == IF k = 0 THEN NewLeaves(nb)
                              ELSE IF Growing(grown[k - 1]) THEN Grow(grown[k - 1]) ELSE grown[k - 1]
    IN grown[nb]

NbNodesForLeaves(nb) ==
    LET count[left \in 0..nb] == IF left <= 1 THEN 0 ELSE 1 + count[left - Min({left, RADIX}) + 1]
    IN nb + count[nb]

(* Node::leaves: a range that may revolve.                                   *)
LeavesOf(t, i) ==
    LET node == t.nodes[i]
        count == IF node.first = node.last THEN t.nb ELSE (node.last - node.first) % t.nb
    IN [k \in 1..count |-> (node.first + k - 1) % t.nb]

(* BranchIter: from the leaf to the root.                                    *)
Branch(t, leaf) ==
    LET from[i \in DOMAIN t.nodes] ==
          IF t.nodes[i].parent = NoParent THEN <<i>> ELSE <<i>> \o from[t.nodes[i].parent]
    IN from[leaf]

(* parent_idx_of_with_sibling_idx                                            *)
SiblingIdx(t, i) == CHOOSE k \in DOMAIN t.nodes[t.nodes[i].parent].children :
                        t.nodes[t.nodes[i].parent].children[k] = i

Root(t) == NbNodes(t) - 1

(***************************************************************************)
(* Cosigning                                                               *)
(***************************************************************************)
TreeInit ==
    /\ \E nb \in TreeSizes : tree = NewLeaves(nb)
    /\ \E nonces \in NonceCounts, who \in {{}, {l \in 0..tree.nb - 1 : l % 2 = 0}, 0..tree.nb - 1} :
          signing = [pc |-> "build", nonces |-> nonces, who |-> who, sigs |-> [l \in who |-> <<>>], at |-> 0]
    /\ queue = <<>> /\ combined = <<>>

AddNode ==
    /\ signing.pc = "build" /\ Growing(tree)
    /\ tree' = Grow(tree)
    /\ UNCHANGED <<signing, queue, combined>>

(* calculate_cosign_agg_nonces: the nonce of a leaf for a node is the one at *)
(* the node's level.                                                          *)
CalculateNonces ==
    /\ signing.pc = "build" /\ ~Growing(tree)
    /\ signing' = [signing EXCEPT !.pc =
          IF \E i \in DOMAIN tree.nodes : \E l \in Range(LeavesOf(tree, i)) \cap signing.who :
                tree.nodes[i].level >= signing.nonces
            THEN "not enough nonces" ELSE "cosign"]
    /\ UNCHANGED <<tree, queue, combined>>

(* The nonce iterator of cosign_branch runs on to the node's level: it finds *)
(* it unless it is past that level already.                                   *)
NonceFound(branch, k) ==
    LET level == tree.nodes[branch[k]].level
    IN level < signing.nonces /\ (k > 1 => tree.nodes[branch[k - 1]].level < level)

CosignBranch(leaf) ==
    /\ signing.pc = "cosign" /\ signing.sigs[leaf] = <<>>
    /\ LET branch == Branch(tree, leaf)
       IN signing' = IF \A k \in DOMAIN branch : NonceFound(branch, k)
                       THEN [signing EXCEPT !.sigs[leaf] =
                               [k \in DOMAIN branch |-> [node |-> branch[k], nonce |-> tree.nodes[branch[k]].level]]]
                       ELSE [signing EXCEPT !.pc = "level overflow"]
    /\ UNCHANGED <<tree, queue, combined>>

(* verify_branch_cosign_partial_sigs                                         *)
BranchVerified(leaf) ==
    LET branch == Branch(tree, leaf) sigs == signing.sigs[leaf]
    IN /\ Len(sigs) = Len(branch)
       /\ \A k \in DOMAIN branch : sigs[k] = [node |-> branch[k], nonce |-> tree.nodes[branch[k]].level]

CombineBegins ==
    /\ signing.pc = "cosign" /\ \A l \in signing.who : signing.sigs[l] # <<>> /\ BranchVerified(l)
    /\ queue' = signing.sigs
    /\ combined' = [i \in DOMAIN tree.nodes |-> {}]
    /\ signing' = [signing EXCEPT !.pc = "combine"]
    /\ UNCHANGED tree

(* combine_partial_signatures, node after node: pop_front for each leaf.     *)
CombineNode ==
    /\ signing.pc = "combine" /\ signing.at < NbNodes(tree)
    /\ LET below == Range(LeavesOf(tree, signing.at)) \cap signing.who
       IN IF \E l \in below : queue[l] = <<>>
            THEN /\ signing' = [signing EXCEPT !.pc = "missing signature"]
                 /\ UNCHANGED <<queue, combined>>
            ELSE /\ combined' = [combined EXCEPT ![signing.at] = {<<l, Head(queue[l])>> : l \in below}]
                 /\ queue' = [l \in signing.who |-> IF l \in below THEN Tail(queue[l]) ELSE queue[l]]
                 /\ signing' = [signing EXCEPT !.at = @ + 1]
    /\ UNCHANGED tree

SignTree ==
    /\ signing.pc = "combine" /\ signing.at = NbNodes(tree)
    /\ signing' = [signing EXCEPT !.pc = "signed"]
    /\ UNCHANGED <<tree, queue, combined>>

(* Owners sign on their own; one order stands for all.                       *)
TreeNext ==
    \/ AddNode \/ CalculateNonces \/ CombineBegins \/ CombineNode \/ SignTree
    \/ \E l \in signing.who : /\ \A m \in signing.who : m < l => signing.sigs[m] # <<>>
                              /\ CosignBranch(l)

TreeSpec == TreeInit /\ [][TreeNext]_treeVars

(***************************************************************************)
(* Properties                                                              *)
(***************************************************************************)
TreeTypeOK ==
    /\ \A i \in DOMAIN tree.nodes : tree.nodes[i].parent \in DOMAIN tree.nodes \cup {NoParent}
    /\ signing.pc \in {"build", "not enough nonces", "cosign", "level overflow", "combine", "missing signature", "signed"}

(* The leaf nodes reached from a node through its children.                  *)
Below(i) ==
    LET under[j \in DOMAIN tree.nodes] ==
          IF tree.nodes[j].children = <<>> THEN {j} ELSE UNION {under[c] : c \in Range(tree.nodes[j].children)}
    IN under[i]

(* The range a node keeps names exactly the leaves under it, also where the  *)
(* order of construction makes it revolve: keys and signatures rely on it.    *)
LeavesExact ==
    \A i \in DOMAIN tree.nodes : /\ Range(LeavesOf(tree, i)) = Below(i)
                                 /\ Len(LeavesOf(tree, i)) = Cardinality(Below(i))

(* A finished tree has the announced number of nodes, and one root that is   *)
(* over all leaves.                                                            *)
TreeComplete ==
    ~Growing(tree) => /\ NbNodes(tree) = NbNodesForLeaves(tree.nb)
                      /\ \A l \in 0..tree.nb - 1 : Last(Branch(tree, l)) = Root(tree)

(* Nonces that suffice for the aggregate suffice for every signer, and every *)
(* node is combined from the signatures made for that node: no signer panics  *)
(* and none is missing.                                                        *)
SignaturesFit ==
    /\ signing.pc \notin {"level overflow", "missing signature"}
    /\ \A i \in DOMAIN combined : i < signing.at =>
          combined[i] = {<<l, [node |-> i, nonce |-> tree.nodes[i].level]>> : l \in Below(i) \cap signing.who}
    /\ signing.pc = "signed" => \A l \in signing.who : queue[l] = <<>>

(***************************************************************************)
(* Vtxos and their transactions                                            *)
(***************************************************************************)
CONSTANTS
    Users,          \* public keys, positive integers
    Dust,           \* P2TR_DUST
    BoardAmounts,   \* amounts users board with
    RoundOutputs,   \* the amounts of a round's tree, a sequence
    PayAmounts,     \* amounts users send
    DustChange,     \* whether a payment may leave change below Dust
    MaxBuilds       \* bound: boards, rounds and payments

ASSUME ChainAssumption ==
    /\ Users \subseteq Nat \ {0} /\ Dust \in Nat \ {0} /\ MaxBuilds \in Nat
    /\ RoundOutputs \in Seq(Nat) /\ DustChange \in BOOLEAN

VARIABLES
    live,       \* built vtxos that are not spent, with their anchor transaction
    spends,     \* what the server records: point |-> spending transaction
    forfeits,   \* forfeit transactions with the outputs they were signed for
    builds

chainVars == <<live, spends, forfeits, builds>>

XDelta == 3             \* vtxo_exit_delta
XHeight == 9            \* expiry height
CosignKey == 99         \* the server's key of a round's tree
LeafKey(i) == 100 + i   \* the ephemeral key of a leaf's owner

(***************************************************************************)
(* Outputs and transactions                                                *)
(***************************************************************************)
SumOf(outs) == FoldFunction(LAMBDA o, s : o.value + s, 0, outs)

TxOut(value, script) == [value |-> value, script |-> script]
Tx(prev, outs) == [prev |-> prev, outs |-> outs]
OutPoint(tx, vout) == <<tx, vout>>
PolicyOut(p, amount) == TxOut(amount, PolicyTaproot(p, XDelta, XHeight))

CosignTaproot(keys) == [keys |-> keys, leaves |-> {Clause(ServerKey, 0, 0, XHeight)}]

Signature(txout, tx) == [spends |-> txout, tx |-> tx]

(***************************************************************************)
(* Genesis items, exit transactions and validation                         *)
(***************************************************************************)
Cosigned(keys, sig, vout, others) ==
    [type |-> "cosigned", keys |-> keys, policy |-> NewPubkey(ServerKey), sig |-> sig, vout |-> vout, others |-> others]
Arkoor(policy, sig, vout, others) ==
    [type |-> "arkoor", keys |-> {}, policy |-> policy, sig |-> sig, vout |-> vout, others |-> others]

InputTaproot(item) ==
    IF item.type = "cosigned" THEN CosignTaproot(item.keys) ELSE PolicyTaproot(item.policy, XDelta, XHeight)

ItemTx(item, prev, next) == Tx(prev, InsertAt(item.others, item.vout, next))

OnchainAmount(v) == v.amount + FoldFunction(LAMBDA i, s : SumOf(i.others) + s, 0, v.genesis)

(* What is left for the chain after its first k items.                       *)
AmountAfter(v, k) == OnchainAmount(v) - SumOf(FlattenSeq([i \in 1..k |-> v.genesis[i].others]))

NextOutput(v, k) ==
    IF k < Len(v.genesis) THEN TxOut(AmountAfter(v, k), InputTaproot(v.genesis[k + 1]))
    ELSE PolicyOut(v.policy, v.amount)

(* VtxoTxIter                                                                *)
Transactions(v) ==
    LET txs[k \in 0..Len(v.genesis)] ==
          IF k = 0 THEN <<>>
          ELSE LET prev == IF k = 1 THEN v.anchor ELSE OutPoint(txs[k - 1][k - 1], v.genesis[k - 1].vout)
               IN Append(txs[k - 1], ItemTx(v.genesis[k], prev, NextOutput(v, k)))
    IN txs[Len(v.genesis)]

IsStandard(out) == out.value >= Dust

Follows(item, next) == item.type = "arkoor" => next.type = "arkoor"

Validate(v, anchorTx) ==
    LET txs == Transactions(v)
        prevOut(k) == IF k = 1 THEN anchorTx.outs[v.anchor[2]] ELSE txs[k - 1].outs[v.genesis[k - 1].vout]
    IN /\ v.anchor[2] \in DOMAIN anchorTx.outs
       /\ anchorTx.outs[v.anchor[2]] = TxOut(OnchainAmount(v), InputTaproot(v.genesis[1]))
       /\ \A k \in DOMAIN v.genesis :
             /\ k < Len(v.genesis) => Follows(v.genesis[k], v.genesis[k + 1])
             /\ \A o \in Range(v.genesis[k].others) : IsStandard(o)
             /\ v.genesis[k].sig = Signature(prevOut(k), txs[k])

Vtxo(amount, policy, anchor, genesis, point) ==
    [amount |-> amount, policy |-> policy, anchor |-> anchor, genesis |-> genesis, point |-> point]

(* The outputs other than the one at vout.                                    *)
OthersOf(outs, vout) == RemoveAt(outs, vout)

(***************************************************************************)
(* Boards and round trees                                                  *)
(***************************************************************************)
BoardVtxo(user, amount, utxo) ==
    LET funding == TxOut(amount, CosignTaproot({user, ServerKey}))
        exitTx == Tx(utxo, <<PolicyOut(NewPubkey(user), amount)>>)
    IN Vtxo(amount, NewPubkey(user), utxo,
            <<Cosigned({user, ServerKey}, Signature(funding, exitTx), 1, <<>>)>>, OutPoint(exitTx, 1))

(* cosign_agg_pks: the keys of the leaves under a node and the server's.      *)
NodeKeys(t, i) == {LeafKey(l) : l \in Range(LeavesOf(t, i))} \cup {CosignKey}

(* unsigned_transactions: from the leaves to the root, then the prevouts from *)
(* the root to the leaves.                                                     *)
NodeOuts(t, requests) ==
    LET outs[i \in DOMAIN t.nodes] ==
          IF t.nodes[i].children = <<>> THEN <<PolicyOut(requests[i + 1].policy, requests[i + 1].amount)>>
          ELSE [k \in DOMAIN t.nodes[i].children |->
                  LET child == t.nodes[i].children[k]
                  IN TxOut(SumOf(outs[child]), CosignTaproot(NodeKeys(t, child)))]
    IN outs

NodeTxs(t, requests, utxo) ==
    LET txs[i \in DOMAIN t.nodes] ==
          LET prev == IF i = Root(t) THEN utxo ELSE OutPoint(txs[t.nodes[i].parent], SiblingIdx(t, i))
          IN Tx(prev, NodeOuts(t, requests)[i])
    IN txs

FundingTxOut(t, requests) ==
    TxOut(FoldFunction(LAMBDA r, s : r.amount + s, 0, requests), CosignTaproot(NodeKeys(t, Root(t))))

(* CachedSignedVtxoTree::build_vtxo: up the branch, then reversed.            *)
TreeVtxo(t, requests, txs, utxo, leaf) ==
    LET branch == Branch(t, leaf)
        nodeOut(k) == IF k = Len(branch) THEN FundingTxOut(t, requests)
                      ELSE txs[branch[k + 1]].outs[SiblingIdx(t, branch[k])]
        vout(k) == IF k = 1 THEN 1 ELSE SiblingIdx(t, branch[k - 1])
        item(k) == Cosigned(NodeKeys(t, branch[k]), Signature(nodeOut(k), txs[branch[k]]), vout(k),
                            OthersOf(txs[branch[k]].outs, vout(k)))
    IN Vtxo(requests[leaf + 1].amount, requests[leaf + 1].policy, utxo,
            Reverse([k \in DOMAIN branch |-> item(k)]), OutPoint(txs[leaf], 1))

(***************************************************************************)
(* Connectors and forfeits                                                 *)
(***************************************************************************)
RequiredBudget(len) == Dust * len
ConnectorScript == [keys |-> {CosignKey}, leaves |-> {}]

(* ConnectorTxIter: len - 1 transactions, linked by their first output.       *)
ConnectorTxs(len, utxo) ==
    LET txs[n \in 0..len - 1] ==
          IF n = 0 THEN <<>>
          ELSE Append(txs[n - 1], Tx(IF n = 1 THEN utxo ELSE OutPoint(txs[n - 1][n - 1], 1),
                                     <<TxOut(RequiredBudget(len - n), ConnectorScript), TxOut(Dust, ConnectorScript)>>))
    IN txs[len - 1]

(* ConnectorIter: the second output of each transaction, then what is left.   *)
Connectors(len, utxo) ==
    LET txs == ConnectorTxs(len, utxo)
    IN Append([n \in DOMAIN txs |-> OutPoint(txs[n], 2)], IF txs = <<>> THEN utxo ELSE OutPoint(Last(txs), 1))

(* create_connector_forfeit_tx and the outputs its signatures commit to.       *)
ForfeitTx(v, connector) ==
    [vtxo |-> v.point, connector |-> connector,
     signed |-> <<PolicyOut(v.policy, v.amount), TxOut(Dust, ConnectorScript)>>,
     pays |-> v.amount]

(***************************************************************************)
(* Arkoors                                                                 *)
(***************************************************************************)
Request(amount, policy) == [amount |-> amount, policy |-> policy]

ArkoorAllowed(v, outputs) ==
    /\ \A o \in Range(outputs) : o.amount >= Dust
    /\ FoldFunction(LAMBDA o, s : o.amount + s, 0, outputs) <= v.amount
    /\ Len(outputs) <= 2

TxOuts(outputs) == [i \in DOMAIN outputs |-> PolicyOut(outputs[i].policy, outputs[i].amount)]

ArkoorTx(v, outputs) == Tx(v.point, TxOuts(outputs))

(* server_cosign and build_vtxos: the signature is over the input's output.   *)
ArkoorVtxos(v, outputs) ==
    LET tx == ArkoorTx(v, outputs)
        sig == Signature(PolicyOut(v.policy, v.amount), tx)
    IN {Vtxo(outputs[i].amount, outputs[i].policy, v.anchor,
             Append(v.genesis, Arkoor(v.policy, sig, i, OthersOf(tx.outs, i))), OutPoint(tx, i))
        : i \in DOMAIN outputs}

(* ArkoorPackageBuilder::new: the outputs of each input that is needed.        *)
PackageOutputs(inputs, request, change) ==
    LET step(acc, v) ==
          IF acc.remaining = 0 THEN acc
          ELSE LET pays == IF v.amount >= acc.remaining THEN acc.remaining ELSE v.amount
                   left == v.amount - pays
                   output == Request(pays, request.policy)
               IN [remaining |-> acc.remaining - pays,
                   outs |-> Append(acc.outs,
                       IF left >= Dust THEN <<output, Request(left, NewPubkey(change))>> ELSE <<output>>)]
    IN FoldLeft(step, [remaining |-> request.amount, outs |-> <<>>], inputs).outs

(* new_htlc_revocation of the client; the server revokes with a package.       *)
HtlcRevocation(inputs) ==
    [i \in DOMAIN inputs |-> <<Request(inputs[i].amount, NewPubkey(inputs[i].policy.user))>>]

ServerRevocation(inputs) ==
    PackageOutputs(inputs, Request(FoldFunction(LAMBDA v, s : v.amount + s, 0, inputs),
                                   NewPubkey(inputs[1].policy.user)), 0)

(***************************************************************************)
(* Arkoors with checkpoints                                                *)
(***************************************************************************)
CheckpointAllowed(v, outputs) ==
    /\ FoldFunction(LAMBDA o, s : o.amount + s, 0, outputs) = v.amount
    /\ \A o \in Range(outputs) : o.amount >= Dust

CheckpointTx(v, outputs) ==
    Tx(v.point, [i \in DOMAIN outputs |-> PolicyOut(NewCheckpoint(v.policy.user), outputs[i].amount)])

CheckpointArkoorTx(v, outputs, i) ==
    Tx(OutPoint(CheckpointTx(v, outputs), i), <<PolicyOut(outputs[i].policy, outputs[i].amount)>>)

(* vtxo_at                                                                    *)
CheckpointedVtxos(v, outputs) ==
    LET checkpoint == CheckpointTx(v, outputs)
        checkpointSig == Signature(PolicyOut(v.policy, v.amount), checkpoint)
        arkoor(i) == CheckpointArkoorTx(v, outputs, i)
    IN {Vtxo(outputs[i].amount, outputs[i].policy, v.anchor,
             v.genesis \o <<Arkoor(v.policy, checkpointSig, i, OthersOf(checkpoint.outs, i)),
                            Arkoor(NewCheckpoint(v.policy.user), Signature(checkpoint.outs[i], arkoor(i)), 1, <<>>)>>,
             OutPoint(arkoor(i), 1))
        : i \in DOMAIN outputs}

(* Faulty variant: only the spend of the input is recorded. *)
SpendInfoInput(v, outputs) == {<<v.point, CheckpointTx(v, outputs)>>}

(* spend_info: the input and the checkpoint's outputs with what spends them.   *)
SpendInfo(v, outputs) ==
    {<<v.point, CheckpointTx(v, outputs)>>} \cup
    {<<OutPoint(CheckpointTx(v, outputs), i), CheckpointArkoorTx(v, outputs, i)>> : i \in DOMAIN outputs}

(* CheckpointedPackageBuilder::new: outputs of each input, or refused.          *)
CheckpointedOutputs(inputs, request, change) ==
    LET step(acc, v) ==
          IF acc.toBePaid >= v.amount
            THEN [acc EXCEPT !.toBePaid = @ - v.amount, !.outs = Append(@, <<Request(v.amount, request.policy)>>)]
          ELSE IF acc.toBePaid > 0
            THEN [acc EXCEPT !.toBePaid = 0, !.outs = Append(@,
                    IF v.amount - acc.toBePaid < Dust THEN <<Request(v.amount, request.policy)>>
                    ELSE <<Request(acc.toBePaid, request.policy),
                           Request(v.amount - acc.toBePaid, NewPubkey(change))>>)]
          ELSE [acc EXCEPT !.refused = TRUE]
        end == FoldLeft(step, [toBePaid |-> request.amount, outs |-> <<>>, refused |-> FALSE], inputs)
    IN [outs |-> end.outs, refused |-> end.refused \/ end.toBePaid # 0]

(***************************************************************************)
(* Building                                                                *)
(***************************************************************************)
ChainInit == live = {} /\ spends = {} /\ forfeits = {} /\ builds = 0

Fund(outs) == Tx(<<builds>>, outs)

Built(new, gone, recorded) ==
    /\ builds < MaxBuilds /\ builds' = builds + 1
    /\ live' = (live \ gone) \cup new
    /\ spends' = spends \cup recorded

Board(user, amount) ==
    LET tx == Fund(<<TxOut(amount, CosignTaproot({user, ServerKey}))>>)
    IN /\ Built({[vtxo |-> BoardVtxo(user, amount, OutPoint(tx, 1)), anchorTx |-> tx]}, {}, {})
       /\ UNCHANGED forfeits

(* A round forfeits its inputs against connectors of the round transaction.    *)
Round(inputs, user) ==
    LET n == Len(RoundOutputs)
        t == NewTree(n)
        requests == [i \in 1..n |-> Request(RoundOutputs[i], NewPubkey(user))]
        tx == Fund(<<FundingTxOut(t, requests), TxOut(RequiredBudget(Len(inputs)), ConnectorScript)>>)
        utxo == OutPoint(tx, 1)
        txs == NodeTxs(t, requests, utxo)
        connectors == Connectors(Len(inputs), OutPoint(tx, 2))
    IN /\ Built({[vtxo |-> TreeVtxo(t, requests, txs, utxo, l), anchorTx |-> tx] : l \in 0..n - 1}, Range(inputs), {})
       /\ forfeits' = forfeits \cup {[tx |-> ForfeitTx(inputs[i].vtxo, connectors[i]), of |-> inputs[i],
                                      roundTx |-> tx, len |-> Len(inputs)] : i \in DOMAIN inputs}

WithAnchor(vtxos, input) == {[vtxo |-> v, anchorTx |-> input.anchorTx] : v \in vtxos}

Vtxos(inputs) == [i \in DOMAIN inputs |-> inputs[i].vtxo]

Total(inputs) == FoldFunction(LAMBDA i, s : i.vtxo.amount + s, 0, inputs)

(* select_vtxos_to_cover stops at the vtxo that reaches the amount.            *)
Covers(inputs, amount) == Total(inputs) >= amount /\ Total(Front(inputs)) < amount

LeavesDustChange(inputs, amount) == Total(inputs) - amount \in 1..Dust - 1

SpendPackage(inputs, outs) ==
    /\ \A i \in DOMAIN outs : ArkoorAllowed(inputs[i].vtxo, outs[i])
    /\ Built(UNION {WithAnchor(ArkoorVtxos(inputs[i].vtxo, outs[i]), inputs[i]) : i \in DOMAIN outs},
             {inputs[i] : i \in DOMAIN outs},
             {<<inputs[i].vtxo.point, ArkoorTx(inputs[i].vtxo, outs[i])>> : i \in DOMAIN outs})
    /\ UNCHANGED forfeits

SendPackage(inputs, amount, policy, change) ==
    /\ Covers(inputs, amount) /\ (DustChange \/ ~LeavesDustChange(inputs, amount))
    /\ SpendPackage(inputs, PackageOutputs(Vtxos(inputs), Request(amount, policy), change))

Revoke(inputs) ==
    /\ \A i \in DOMAIN inputs : inputs[i].vtxo.policy.kind = "send"
    /\ SpendPackage(inputs, HtlcRevocation(Vtxos(inputs)))

SendCheckpointed(inputs, amount, policy, change) ==
    LET b == CheckpointedOutputs(Vtxos(inputs), Request(amount, policy), change)
    IN /\ ~b.refused /\ \A i \in DOMAIN b.outs : CheckpointAllowed(inputs[i].vtxo, b.outs[i])
       /\ Built(UNION {WithAnchor(CheckpointedVtxos(inputs[i].vtxo, b.outs[i]), inputs[i]) : i \in DOMAIN inputs},
                Range(inputs), UNION {SpendInfo(inputs[i].vtxo, b.outs[i]) : i \in DOMAIN inputs})
       /\ UNCHANGED forfeits

(* Inputs of one user, in any order.                                          *)
InputsOf(user, kinds) ==
    LET own == {i \in live : i.vtxo.policy.user = user /\ i.vtxo.policy.kind \in kinds}
    IN {<<a>> : a \in own} \cup {<<p[1], p[2]>> : p \in {q \in own \X own : q[1] # q[2]}}

ChainNext ==
    \E user \in Users :
      \/ \E amount \in BoardAmounts : Board(user, amount)
      \/ \E inputs \in InputsOf(user, {"pubkey"}) : Round(inputs, user)
      \/ \E inputs \in InputsOf(user, {"pubkey"}), amount \in PayAmounts :
            SendPackage(inputs, amount, NewServerHtlcSend(user, 7, 5), user)
      \/ \E inputs \in InputsOf(user, {"send"}) : Revoke(inputs)
      \/ \E inputs \in InputsOf(user, {"pubkey"}), amount \in PayAmounts, to \in Users :
            SendCheckpointed(inputs, amount, NewPubkey(to), user)

ChainSpec == ChainInit /\ [][ChainNext]_chainVars

(***************************************************************************)
(* Properties                                                              *)
(***************************************************************************)
ChainTypeOK == builds \in 0..MaxBuilds /\ \A i \in live : i.vtxo.amount >= Dust

(* Every vtxo that is built passes validation against its anchor: the amounts,*)
(* scripts and signatures of its whole chain fit.                              *)
BuiltValid == \A i \in live : Validate(i.vtxo, i.anchorTx)

(* The exit transactions end in the vtxo's own point, and no two vtxos share   *)
(* a point.                                                                     *)
ExitReachesPoint ==
    /\ \A i \in live : LET v == i.vtxo
                       IN v.point = OutPoint(Last(Transactions(v)), Last(v.genesis).vout)
    /\ \A i, j \in live : i.vtxo.point = j.vtxo.point => i = j

(* What the server recorded as spending a point is what the exit of every vtxo *)
(* beyond it broadcasts, checkpoints included.                                  *)
SpendsMatchExit ==
    \A i \in live : LET v == i.vtxo txs == Transactions(v)
                    IN \A k \in DOMAIN txs : v.genesis[k].type = "arkoor" => <<txs[k].prev, txs[k]>> \in spends

(* The value under an anchor is that of its unspent and its forfeited vtxos.    *)
ValueKept ==
    \A a \in {i.anchorTx : i \in live} \cup {f.of.anchorTx : f \in forfeits} :
        a.outs[1].value = MapThenSumSet(LAMBDA i : i.vtxo.amount,
                              {i \in live \cup {f.of : f \in forfeits} : i.anchorTx = a})

(* Forfeits of a round use different connectors, each of which the chain from   *)
(* the round transaction creates with the value that was signed for, and the    *)
(* connector transactions neither create nor burn value.                        *)
ForfeitsFit ==
    /\ \A f, g \in forfeits : f.tx.connector = g.tx.connector => f = g
    /\ \A f \in forfeits :
          LET txs == ConnectorTxs(f.len, OutPoint(f.roundTx, 2))
              connector == f.tx.connector
          IN /\ connector[1] \in {f.roundTx} \cup Range(txs)
             /\ connector[1].outs[connector[2]] = f.tx.signed[2]
             /\ \A n \in DOMAIN txs : SumOf(txs[n].outs) = txs[n].prev[1].outs[txs[n].prev[2]].value
             /\ Last(Transactions(f.of.vtxo)).outs[Last(f.of.vtxo.genesis).vout] = f.tx.signed[1]

(* Client and server build the same transactions for a revocation.              *)
RevocationsAgree ==
    \A user \in Users : \A inputs \in InputsOf(user, {"send"}) :
        ServerRevocation(Vtxos(inputs)) = HtlcRevocation(Vtxos(inputs))
=============================================================================
