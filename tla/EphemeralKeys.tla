---------------------------- MODULE EphemeralKeys ----------------------------
(***************************************************************************)
(* The server's ephemeral keys (server/src/lib.rs, database/mod.rs) and    *)
(* the vtxo pool's use of them (vtxopool.rs).  The server can spend a pool *)
(* vtxo only with the tweak stored for its key, and a tweak has an expiry  *)
(* TIME while the vtxo has an expiry HEIGHT.                               *)
(*                                                                         *)
(* One tick of the clock is the ten minutes the code counts for a block.   *)
(* SlowTicks bounds the ticks that bring no block together with those that *)
(* pass while the keys of an issuance are generated.                       *)
(***************************************************************************)
EXTENDS Naturals, Functions

CONSTANTS
    VtxoLifetime,   \* Config::vtxo_lifetime, in blocks
    SlowTicks,
    MaxClock,       \* bound: ticks of a behaviour
    MaxKeys         \* bound: keys generated

ASSUME KeyAssumption ==
    /\ VtxoLifetime \in Nat /\ MaxClock \in Nat /\ MaxKeys \in Nat
    /\ SlowTicks \in 0..VtxoLifetime

VARIABLES
    clock,
    tipHeight,
    late,       \* ticks so far without a block
    waited,     \* ticks so far while an issuance generates its keys
    tweaks,     \* table ephemeral_tweak: key -> expires_at
    nextKey,    \* keys are random: the next one nobody has seen
    held,       \* unspent vtxos of the pool: [key, expiry]
    issuing,    \* issue_vtxos
    sending     \* prepare_arkoor

keyVars == <<clock, tipHeight, late, waited, tweaks, nextKey, held, issuing, sending>>

NoIssue == [pc |-> "idle", leaf |-> 0, tree |-> 0, expiry |-> 0]
NoSend == [pc |-> "idle", input |-> [key |-> 0, expiry |-> 0], change |-> 0]

KeyTypeOK ==
    /\ clock \in 0..MaxClock /\ tipHeight \in 0..clock
    /\ late \in Nat /\ waited \in Nat /\ late + waited <= SlowTicks
    /\ DOMAIN tweaks \subseteq 1..(nextKey - 1) /\ nextKey \in 1..(MaxKeys + 1)
    /\ \A v \in held : v.key \in 1..MaxKeys /\ v.expiry \in Nat
    /\ issuing.pc \in {"idle", "leaf", "leafStore", "tree", "treeStore", "cosign",
                       "register", "store"}
    /\ sending.pc \in {"idle", "fetch", "change", "changeStore", "cosign"}

KeyInit ==
    /\ clock = 0 /\ tipHeight = 0 /\ late = 0 /\ waited = 0
    /\ tweaks = <<>> /\ nextKey = 1 /\ held = {}
    /\ issuing = NoIssue /\ sending = NoSend

-----------------------------------------------------------------------------
VtxoKeyLifetimeSingle == VtxoLifetime

(* Config::vtxo_key_lifetime: double the vtxos' lifetime, as a buffer. *)
VtxoKeyLifetime == 2 * VtxoLifetime

(* The lifetime of the key that cosigns the tree: 600 seconds. *)
TreeKeyLifetime == 1

(* clean_expired_ephemeral_tweaks: DELETE ... WHERE expires_at < NOW(). *)
(* store_ephemeral_tweak only logs its failure.                         *)
Expired(k) == tweaks[k] < clock

CleanExpired ==
    \/ tweaks' = [k \in {j \in DOMAIN tweaks : ~Expired(j)} |-> tweaks[k]]
    \/ UNCHANGED tweaks

(* The INSERT of store_ephemeral_tweak, for a new random key. *)
StoreTweak(lifetime) ==
    /\ nextKey <= MaxKeys
    /\ tweaks' = [k \in DOMAIN tweaks \cup {nextKey} |->
                      IF k = nextKey THEN clock + lifetime ELSE tweaks[k]]
    /\ nextKey' = nextKey + 1

(* fetch_ephemeral_tweak does not look at expires_at. *)
Known(k) == k \in DOMAIN tweaks

(* drop_ephemeral_tweak: DELETE ... RETURNING *)
DropTweak(k) == tweaks' = [j \in DOMAIN tweaks \ {k} |-> tweaks[j]]

-----------------------------------------------------------------------------
(* issue_vtxos, for one vtxo: its key, the expiry height once all keys are  *)
(* there, the tree's key, the wallet's lock, cosigning, registering.        *)
IssueStarts ==
    /\ issuing.pc = "idle"
    /\ issuing' = [NoIssue EXCEPT !.pc = "leaf"]
    /\ UNCHANGED <<clock, tipHeight, late, waited, tweaks, nextKey, held, sending>>

IssueCleans ==
    /\ issuing.pc \in {"leaf", "tree"}
    /\ CleanExpired
    /\ issuing' = IF issuing.pc = "leaf"
                    THEN [issuing EXCEPT !.pc = "leafStore"]
                    ELSE [issuing EXCEPT !.pc = "treeStore", !.expiry = tipHeight + VtxoLifetime]
    /\ UNCHANGED <<clock, tipHeight, late, waited, nextKey, held, sending>>

IssueLeafKey ==
    /\ issuing.pc = "leafStore"
    /\ StoreTweak(VtxoKeyLifetime)
    /\ issuing' = [issuing EXCEPT !.pc = "tree", !.leaf = nextKey]
    /\ UNCHANGED <<clock, tipHeight, late, waited, held, sending>>

IssueTreeKey ==
    /\ issuing.pc = "treeStore"
    /\ StoreTweak(TreeKeyLifetime)
    /\ issuing' = [issuing EXCEPT !.pc = "cosign", !.tree = nextKey]
    /\ UNCHANGED <<clock, tipHeight, late, waited, held, sending>>

(* cosign_vtxo_tree: the key is fetched and kept. *)
CosignVtxoTree ==
    /\ issuing.pc = "cosign"
    /\ issuing' = IF Known(issuing.tree) THEN [issuing EXCEPT !.pc = "register"] ELSE NoIssue
    /\ UNCHANGED <<clock, tipHeight, late, waited, tweaks, nextKey, held, sending>>

(* register_cosigned_vtxo_tree: the key is dropped, an unknown one refused. *)
RegisterCosignedVtxoTree ==
    /\ issuing.pc = "register"
    /\ issuing' = IF Known(issuing.tree) THEN [issuing EXCEPT !.pc = "store"] ELSE NoIssue
    /\ DropTweak(issuing.tree)
    /\ UNCHANGED <<clock, tipHeight, late, waited, nextKey, held, sending>>

IssueStores ==
    /\ issuing.pc = "store"
    /\ held' = held \cup {[key |-> issuing.leaf, expiry |-> issuing.expiry]}
    /\ issuing' = NoIssue
    /\ UNCHANGED <<clock, tipHeight, late, waited, tweaks, nextKey, sending>>

-----------------------------------------------------------------------------
(* prepare_arkoor: the input's key, a key for the change, the cosigned      *)
(* package.  The change keeps the input's expiry height.                    *)
SendStarts(v) ==
    /\ sending.pc = "idle"
    /\ tipHeight < v.expiry
    /\ sending' = [NoSend EXCEPT !.pc = "fetch", !.input = v]
    /\ UNCHANGED <<clock, tipHeight, late, waited, tweaks, nextKey, held, issuing>>

SendFetchesKey ==
    /\ sending.pc = "fetch"
    /\ sending' = IF Known(sending.input.key) THEN [sending EXCEPT !.pc = "change"] ELSE NoSend
    /\ UNCHANGED <<clock, tipHeight, late, waited, tweaks, nextKey, held, issuing>>

SendCleans ==
    /\ sending.pc = "change"
    /\ CleanExpired
    /\ sending' = [sending EXCEPT !.pc = "changeStore"]
    /\ UNCHANGED <<clock, tipHeight, late, waited, nextKey, held, issuing>>

SendChangeKey ==
    /\ sending.pc = "changeStore"
    /\ StoreTweak(VtxoKeyLifetime)
    /\ sending' = [sending EXCEPT !.pc = "cosign", !.change = nextKey]
    /\ UNCHANGED <<clock, tipHeight, late, waited, held, issuing>>

SendFinishes ==
    /\ sending.pc = "cosign"
    /\ \E change \in {{}, {[key |-> sending.change, expiry |-> sending.input.expiry]}} :
           held' = (held \ {sending.input}) \cup change
    /\ sending' = NoSend
    /\ UNCHANGED <<clock, tipHeight, late, waited, tweaks, nextKey, issuing>>

-----------------------------------------------------------------------------
(* The environment: time and blocks, and a stop of the server. *)
Tick ==
    /\ clock < MaxClock
    /\ clock' = clock + 1
    /\ waited' = waited + (IF issuing.pc = "tree" THEN 1 ELSE 0)
    /\ \/ tipHeight' = tipHeight + 1 /\ UNCHANGED late
       \/ tipHeight' = tipHeight /\ late' = late + 1
    /\ late' + waited' <= SlowTicks
    /\ UNCHANGED <<tweaks, nextKey, held, issuing, sending>>

KeysRestart ==
    /\ issuing # NoIssue \/ sending # NoSend
    /\ issuing' = NoIssue /\ sending' = NoSend
    /\ UNCHANGED <<clock, tipHeight, late, waited, tweaks, nextKey, held>>

KeyNext ==
    \/ IssueStarts \/ IssueCleans \/ IssueLeafKey \/ IssueTreeKey \/ CosignVtxoTree
    \/ RegisterCosignedVtxoTree \/ IssueStores
    \/ \E v \in held : SendStarts(v)
    \/ SendFetchesKey \/ SendCleans \/ SendChangeKey \/ SendFinishes
    \/ Tick \/ KeysRestart

KeySpec == KeyInit /\ [][KeyNext]_keyVars

-----------------------------------------------------------------------------
(* The server can spend every pool vtxo until it expires: no clean-up, by  *)
(* whichever task, removes the tweak of a vtxo before its expiry height,   *)
(* however blocks and ticks interleave with issuing and change, as long as *)
(* blocks are late by no more than SlowTicks.                              *)
KeysKept == KeyTypeOK /\ \A v \in held : tipHeight < v.expiry => Known(v.key)
=============================================================================
