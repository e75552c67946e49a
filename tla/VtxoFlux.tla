------------------------------ MODULE VtxoFlux ------------------------------
(***************************************************************************)
(* server/src/flux.rs: the in-memory lock on vtxos that are "in flux".      *)
(*                                                                          *)
(* One mutex-protected set (VtxosInFluxInner.vtxos) is shared by the round  *)
(* coordinator and every arkoor request.  A guard (VtxoFluxLock, or the     *)
(* OwnedVtxoFluxLock the round keeps across attempts) remembers which of    *)
(* the set's vtxos it put there and takes them out when it is dropped.      *)
(***************************************************************************)
CONSTANTS
    Vtxos,      \* vtxo ids
    Holders     \* places in the program that own a guard

VARIABLES
    flux,       \* VtxosInFluxInner.vtxos
    held        \* held[h]: the vtxos in the guard that h owns

fluxVars == <<flux, held>>

FluxTypeOK ==
    /\ flux \subseteq Vtxos
    /\ held \in [Holders -> SUBSET Vtxos]

FluxInit ==
    /\ flux = {}
    /\ held = [h \in Holders |-> {}]

-----------------------------------------------------------------------------

(* Faulty variant of atomic_check_put: refuses only when all are present. *)
CanLockSome(S) == ~ (S \subseteq flux)

(* atomic_check_put: the insertions happen under one mutex; on the first    *)
(* vtxo that is already present everything inserted so far is taken out     *)
(* again, so a refused call leaves the set as it was.                       *)
CanLock(S) == S \cap flux = {}

(* VtxosInFlux::lock, when it returns Ok. *)
Lock(h, S) ==
    /\ CanLock(S)
    /\ held[h] = {}
    /\ flux' = flux \cup S
    /\ held' = [held EXCEPT ![h] = S]

(* release_all, also called when the guard is dropped. *)
Release(h) ==
    /\ flux' = flux \ held[h]
    /\ held' = [held EXCEPT ![h] = {}]

(* OwnedVtxoFluxLock::absorb: the vtxos are drained from the other guard,   *)
(* so that its drop does not release them.                                  *)
Absorb(h, other) ==
    /\ flux' = flux
    /\ held' = [held EXCEPT ![h] = @ \cup held[other], ![other] = {}]

(* The process died: nothing of this is persisted. *)
ResetFlux ==
    /\ flux' = {}
    /\ held' = [h \in Holders |-> {}]

FluxNext ==
    \/ \E h \in Holders, S \in SUBSET Vtxos : Lock(h, S)
    \/ \E h \in Holders : Release(h)
    \/ \E h, other \in Holders : h # other /\ Absorb(h, other)
    \/ ResetFlux

FluxSpec == FluxInit /\ [][FluxNext]_fluxVars

-----------------------------------------------------------------------------

(* The set holds exactly the vtxos of the live guards: no vtxo stays in     *)
(* flux after its guard is gone, and none is released while a guard still   *)
(* counts on it.                                                            *)
FluxAccounted == flux = UNION {held[h] : h \in Holders}

(* Two guards never own the same vtxo. *)
FluxExclusive ==
    \A h1, h2 \in Holders : h1 # h2 => held[h1] \cap held[h2] = {}

(* The lock table is what its guards say (flux.rs): nothing is locked       *)
(* without a guard or unlocked under one, and no vtxo has two owners.       *)
FluxSound == FluxAccounted /\ FluxExclusive
=============================================================================
