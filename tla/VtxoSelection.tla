---------------------------- MODULE VtxoSelection ----------------------------
(***************************************************************************)
(* How the wallet chooses vtxos (bark/src/vtxo/selection.rs) and builds    *)
(* participations from them (bark/src/lib.rs): refreshes, offboards and    *)
(* on-chain payments in a round.  One call at a time is followed, between  *)
(* its awaits other calls lock, unlock and spend vtxos.                    *)
(*                                                                         *)
(* A vtxo is its place in Coins, the order of the database query: expiry   *)
(* height ascending, then amount descending.                               *)
(***************************************************************************)
EXTENDS Integers, SequencesExt, FiniteSetsExt

CONSTANTS
    Coins,              \* <<[amount, expiry, exitCost], ...>>
    Payments,           \* amounts of on-chain payments
    OffboardFee, RefreshDust,
    RefreshThreshold,   \* Config::vtxo_refresh_expiry_threshold
    SoftMargin,         \* 28 in the code
    MaxSelTip           \* bound: height of the chain

Ids == DOMAIN Coins

ASSUME CoinsOrdered ==
    \A i, j \in Ids : i < j =>
        \/ Coins[i].expiry < Coins[j].expiry
        \/ Coins[i].expiry = Coins[j].expiry /\ Coins[i].amount >= Coins[j].amount

VARIABLES
    selTip,
    states,     \* states[i]: "spendable", "locked" or "spent"
    pcall       \* the call: [pc, kind, part]

selVars == <<selTip, states, pcall>>

NoPart == [inputs |-> <<>>, outputs |-> <<>>, offboards |-> <<>>]
NoPcall == [pc |-> "idle", kind |-> "none", part |-> NoPart]

SelTypeOK ==
    /\ selTip \in 0..MaxSelTip
    /\ states \in [Ids -> {"spendable", "locked", "spent"}]
    /\ pcall.pc \in {"idle", "extend", "join"}
    /\ pcall.kind \in {"none", "refresh", "offboard", "payment"}
    /\ pcall.part.inputs \in Seq(Ids)
    /\ \A o \in Range(pcall.part.outputs) \cup Range(pcall.part.offboards) : o \in Nat

SelInit ==
    /\ selTip = 0
    /\ states = [i \in Ids |-> "spendable"]
    /\ pcall = NoPcall

-----------------------------------------------------------------------------
Amount(i) == Coins[i].amount
TotalAmount(s) == FoldSeq(LAMBDA i, sum : Amount(i) + sum, 0, s)
AsSeq(S) == SelectSeq([i \in Ids |-> i], LAMBDA i : i \in S)
SatSub(a, b) == IF a > b THEN a - b ELSE 0

(* Vec::swap_remove *)
SwapRemove(s, i) == Front([s EXCEPT ![i] = Last(s)])

(* FilterVtxos::filter_vtxos: from the last to the first, a vtxo that does  *)
(* not match is replaced by the last one.                                   *)
FilterVtxos(s, keep) ==
    FoldLeft(LAMBDA acc, i : IF acc[i] \in keep THEN acc ELSE SwapRemove(acc, i),
             s, [i \in 1..Len(s) |-> Len(s) + 1 - i])

(* Wallet::vtxos: the unspent ones, in the order of the query. *)
UnspentVtxos(st) == SelectSeq([i \in Ids |-> i], LAMBDA i : st[i] # "spent")

SpendableVtxos(st) == FilterVtxos(UnspentVtxos(st), {i \in Ids : st[i] = "spendable"})

SpendableVtxosWith(st, keep) == FilterVtxos(SpendableVtxos(st), keep)

(* RefreshStrategy::matches *)
MustRefresh(tip) == {i \in Ids : tip > SatSub(Coins[i].expiry, RefreshThreshold)}

ShouldRefresh(tip) ==
    {i \in Ids : \/ tip > SatSub(Coins[i].expiry, RefreshThreshold + SoftMargin)
                 \/ Amount(i) < Coins[i].exitCost}

(* get_vtxos_to_refresh *)
VtxosToRefresh(st, tip) ==
    IF SpendableVtxosWith(st, MustRefresh(tip)) = <<>>
      THEN <<>>
      ELSE SpendableVtxosWith(st, ShouldRefresh(tip))

(* get_next_required_refresh_blockheight *)
FirstExpiring(st) == Min({Coins[i].expiry : i \in Range(SpendableVtxos(st))})
NextRequiredRefresh(st) == SatSub(FirstExpiring(st), RefreshThreshold)

(* select_vtxos_to_cover without an expiry threshold; <<>> is its error. *)
Selection(st, amount) ==
    LET s == SpendableVtxos(st)
        enough == {n \in Ids : n <= Len(s) /\ TotalAmount(SubSeq(s, 1, n)) >= amount} IN
    IF enough = {} THEN <<>> ELSE SubSeq(s, 1, Min(enough))

-----------------------------------------------------------------------------
Calling(kind, part) == pcall' = [pc |-> "extend", kind |-> kind, part |-> part]

(* build_refresh_participation, which refuses an empty list; the ids come   *)
(* from the user, in any state, without duplicates.                         *)
RefreshPart(ids) == [NoPart EXCEPT !.inputs = ids, !.outputs = <<TotalAmount(ids)>>]

BuildRefresh ==
    /\ pcall = NoPcall
    /\ \E S \in (SUBSET Ids) \ {{}} : Calling("refresh", RefreshPart(AsSeq(S)))
    /\ UNCHANGED <<selTip, states>>

(* maintenance_refresh and maybe_schedule_maintenance_refresh *)
BuildMaintenance ==
    /\ pcall = NoPcall
    /\ VtxosToRefresh(states, selTip) # <<>>
    /\ Calling("refresh", RefreshPart(VtxosToRefresh(states, selTip)))
    /\ UNCHANGED <<selTip, states>>

(* build_offboard_participation, for all spendable vtxos *)
BuildOffboard ==
    /\ pcall = NoPcall
    /\ LET ids == SpendableVtxos(states) IN
           /\ ids # <<>> /\ TotalAmount(ids) >= OffboardFee
           /\ Calling("offboard", [NoPart EXCEPT !.inputs = ids,
                                                 !.offboards = <<TotalAmount(ids) - OffboardFee>>])
    /\ UNCHANGED <<selTip, states>>

(* No change output when what is left is at most the dust amount. *)
PaymentChange(sum, required) ==
    IF sum <= required + RefreshDust THEN <<>> ELSE <<sum - required>>

(* build_round_onchain_payment_participation *)
BuildPayment ==
    /\ pcall = NoPcall
    /\ \E amount \in Payments :
           LET ids == Selection(states, amount + OffboardFee) IN
           /\ ids # <<>>
           /\ Calling("payment", [inputs |-> ids, offboards |-> <<amount>>,
                                  outputs |-> PaymentChange(TotalAmount(ids), amount + OffboardFee)])
    /\ UNCHANGED <<selTip, states>>

ExtendedUnchecked(part, st, tip) ==
    LET extra == VtxosToRefresh(st, tip) IN
    IF TotalAmount(extra) > RefreshDust
      THEN [part EXCEPT !.inputs = @ \o extra, !.outputs = Append(@, TotalAmount(extra))]
      ELSE part

(* add_should_refresh_vtxos; the call goes on when it fails. *)
Extended(part, st, tip) ==
    LET extra == SelectSeq(VtxosToRefresh(st, tip), LAMBDA i : i \notin Range(part.inputs)) IN
    IF TotalAmount(extra) > RefreshDust
      THEN [part EXCEPT !.inputs = @ \o extra, !.outputs = Append(@, TotalAmount(extra))]
      ELSE part

AddShouldRefresh ==
    /\ pcall.pc = "extend"
    /\ pcall' = [pcall EXCEPT !.pc = "join", !.part = Extended(@, states, selTip)]
    /\ UNCHANGED <<selTip, states>>

AddShouldRefreshFails ==
    /\ pcall.pc = "extend"
    /\ pcall' = [pcall EXCEPT !.pc = "join"]
    /\ UNCHANGED <<selTip, states>>

(* join_next_round and participate_round lock the inputs, or refuse. *)
JoinRound ==
    /\ pcall.pc = "join"
    /\ LET ins == Range(pcall.part.inputs) IN
           states' = IF \A i \in ins : states[i] = "spendable"
                       THEN [i \in Ids |-> IF i \in ins THEN "locked" ELSE states[i]]
                       ELSE states
    /\ pcall' = NoPcall
    /\ UNCHANGED selTip

-----------------------------------------------------------------------------
(* Other calls and the chain. *)
OtherCall ==
    /\ \E i \in Ids :
           \E s \in CASE states[i] = "spendable" -> {"locked"}
                      [] states[i] = "locked" -> {"spendable", "spent"}
                      [] OTHER -> {} :
               states' = [states EXCEPT ![i] = s]
    /\ UNCHANGED <<selTip, pcall>>

SelBlock ==
    /\ selTip < MaxSelTip
    /\ selTip' = selTip + 1
    /\ UNCHANGED <<states, pcall>>

SelNext ==
    \/ BuildRefresh \/ BuildMaintenance \/ BuildOffboard \/ BuildPayment
    \/ AddShouldRefresh \/ AddShouldRefreshFails \/ JoinRound
    \/ OtherCall \/ SelBlock

-----------------------------------------------------------------------------
SpendableSet == {i \in Ids : states[i] = "spendable"}

(* Filtering by swap_remove returns every spendable vtxo exactly once,     *)
(* whichever of them are locked.                                           *)
FilterExact ==
    /\ IsInjective(SpendableVtxos(states))
    /\ Range(SpendableVtxos(states)) = SpendableSet

(* A selection covers its amount, takes no vtxo more than it needs, and is *)
(* refused only when all spendable vtxos together are too little.          *)
SelectionCovers ==
    \A amount \in {a + OffboardFee : a \in Payments} :
        LET s == Selection(states, amount) IN
        IF s = <<>>
          THEN TotalAmount(AsSeq(SpendableSet)) < amount
          ELSE /\ Range(s) \subseteq SpendableSet
               /\ TotalAmount(s) >= amount /\ TotalAmount(Front(s)) < amount

(* A participation names no input twice, and what it takes in is what it   *)
(* gives out: a refresh loses nothing, an offboard the fee, a payment the  *)
(* fee and at most the dust, also after the vtxos that should be refreshed *)
(* were added.                                                             *)
PartBalanced ==
    pcall # NoPcall =>
        LET part == pcall.part
            out == FoldSeq(+, 0, part.outputs \o part.offboards)
            lost == TotalAmount(part.inputs) - out IN
        /\ IsInjective(part.inputs)
        /\ lost = CASE pcall.kind = "refresh" -> 0
                    [] pcall.kind = "offboard" -> OffboardFee
                    [] OTHER -> IF lost > OffboardFee /\ lost <= OffboardFee + RefreshDust
                                  THEN lost ELSE OffboardFee

(* The wallet's doc: at the height that get_next_required_refresh_          *)
(* blockheight returns there is a vtxo to refresh.                         *)
RefreshHeightDue ==
    SpendableSet # {} /\ selTip >= NextRequiredRefresh(states)
        => VtxosToRefresh(states, selTip) # <<>>
=============================================================================
