------------------------------ MODULE MCTxIndex ------------------------------
(***************************************************************************)
(* A small instance of TxIndex: a chain with forks.                         *)
(***************************************************************************)
EXTENDS TxIndex, TLC

CONSTANTS
    b0, a1, a2, a3,         \* b0 - a1 - a2 - a3
    c1, c2, c3,             \* b0 - c1 - c2 - c3
    t,                      \* a transaction
    n, g, gg                \* callers

(* t is in a1 and, on the other branch, only in c3. *)
ForkTxs == b0 :> {} @@ a1 :> {t} @@ a2 :> {} @@ a3 :> {} @@ c1 :> {} @@ c2 :> {} @@ c3 :> {t}
ForkParents == a1 :> b0 @@ a2 :> a1 @@ a3 :> a2 @@ c1 :> b0 @@ c2 :> c1 @@ c3 :> c2

MCTxsOf == [x \in Blocks |-> ForkTxs[x]]
MCParent == [x \in Blocks \ {Base} |-> ForkParents[x]]
MCPath[x \in Blocks] == IF x = Base THEN <<Base>> ELSE Append(MCPath[Parent[x]], x)
MCTxOf == [c \in Callers |-> t]

(* Two callers and one reorganisation, or a single caller and bitcoind     *)
(* going to and fro between the branches.                                  *)
MCScenes == {[blocks |-> {b0, a1, c3}, callers |-> {n, g}],
             [blocks |-> Blocks, callers |-> {n}]}

VARIABLE scene

SceneNext ==
    /\ Next
    /\ tip' \in scene.blocks
    /\ \A c \in Callers \ scene.callers : call'[c] = call[c]
    /\ UNCHANGED scene

SceneInit == Init /\ scene \in MCScenes

SceneSpec == SceneInit /\ [][SceneNext]_<<vars, scene>> /\ Fairness
=============================================================================
