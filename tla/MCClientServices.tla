-------------------------- MODULE MCClientServices ---------------------------
(***************************************************************************)
(* Exits, the daemon with its REST handlers, and the movement manager of   *)
(* the wallet, each in behaviours of its own.                              *)
(***************************************************************************)
EXTENDS BarkExit, Barkd, BarkMovements, TLC

CONSTANTS Parts, v1, v2, t1, t2, t3, r1, r2, c1, c2, c3

VARIABLE part   \* the component that moves

(***************************************************************************)
(* Exits: two that share a transaction; a call of sync and a deeply        *)
(* confirmed path; one fault; a reorganisation.                            *)
(***************************************************************************)
MCPath == (v1 :> <<t1, t2>>) @@ (v2 :> <<t1, t3>>)
MCExit == [first |-> 5, last |-> 8, reorgs |-> 0, faults |-> {}, callers |-> {"daemon"}, vtxos |-> {v1}]
MCShared == [MCExit EXCEPT !.last = 7, !.vtxos = {v1, v2}]
MCDeep == [MCExit EXCEPT !.last = 10, !.callers = {"daemon", "sync"}]
MCFaulty == [MCExit EXCEPT !.faults = {"crash", "other", "evict", "query", "funds"}]
MCReorg == [MCExit EXCEPT !.last = 9, !.reorgs = 1]
MCExitModes == {MCShared, MCDeep, MCFaulty, MCReorg}
MCReorgOther == {[MCReorg EXCEPT !.faults = {"other"}]}

(***************************************************************************)
(* Handlers: all but those that take the exits before the on-chain wallet. *)
(***************************************************************************)
MCAllKinds == DOMAIN Handlers
MCOrdered == MCAllKinds \ {"exit_claim_all", "exit_claim_vtxos"}

(***************************************************************************)
(* Movements: two calls on one movement, or two registrations.             *)
(***************************************************************************)
MCCall == [kind |-> "update", update |-> NewUpdate, status |-> "successful", fails |-> FALSE, stopped |-> FALSE]
MCUpdate(ins, sent) == [MCCall EXCEPT !.update = ConsumedVtxos(SentTo(NewUpdate, sent), ins)]
MCFirst == MCUpdate(<<"a">>, <<"x">>)
MCSecond == MCUpdate(<<"b", "a">>, <<"x">>)
MCReplace == [MCCall EXCEPT !.update = ReplaceConsumedVtxos(ReplaceSentOn(NewUpdate, <<"y">>), <<"b", "b">>)]
MCFinish == [MCCall EXCEPT !.kind = "finish"]
MCRegister(name) == [MCCall EXCEPT !.kind = "register", !.status = name]
MCTwo(x, y) == [c \in MoveCallers |-> IF c = c1 THEN x ELSE y]
MCMoveModes ==
    {MCTwo(MCFirst, MCSecond), MCTwo(MCFirst, [MCSecond EXCEPT !.kind = "finish_with"]), MCTwo(MCFirst, MCFinish),
     MCTwo([MCFirst EXCEPT !.kind = "guarded"], MCSecond), MCTwo(MCFirst, MCReplace),
     MCTwo([MCFirst EXCEPT !.fails = TRUE], MCSecond), MCTwo(MCRegister("round"), MCRegister("board"))}
MCThreeCalls == {[c \in MoveCallers |-> CASE c = c1 -> MCFirst [] c = c2 -> MCFinish [] OTHER -> MCSecond]}
MCSameName == {MCTwo(MCRegister("round"), MCRegister("round"))}
MCMerges == {MCTwo(MCFirst, MCSecond)}

-----------------------------------------------------------------------------
clientVars == <<part, exitVars, barkdVars, moveVars>>

ClientInit ==
    /\ part \in Parts
    /\ ExitInit /\ BarkdInit /\ MoveInit
    /\ part # "exits" => scene = CHOOSE m \in ExitModes : TRUE
    /\ part # "barkd" => ~daemon.connected
    /\ part # "movements" => calls = CHOOSE m \in MoveModes : TRUE

ExitPart == part = "exits" /\ ExitNext /\ UNCHANGED <<part, barkdVars, moveVars>>
BarkdPart == part = "barkd" /\ BarkdNext /\ UNCHANGED <<part, exitVars, moveVars>>
MovePart == part = "movements" /\ MoveNext /\ UNCHANGED <<part, exitVars, barkdVars>>

ClientNext == ExitPart \/ BarkdPart \/ MovePart

(* The fairness of each part, where that part moves.  The daemon runs the   *)
(* exits again and again, a call on them goes on, and the user claims what  *)
(* is claimable.  Functions return, the locks of barkd are granted in turn, *)
(* and tokio's select picks among ready branches at random.                 *)
ClientSpec ==
    /\ ClientInit /\ [][ClientNext]_clientVars
    /\ WF_exitVars(part = "exits" /\ (Sync \/ Progress))
    /\ \A v \in ExitVtxos : WF_exitVars(part = "exits" /\ DrainExits(v))
    /\ \A t \in Tasks : WF_barkdVars(part = "barkd" /\ Return(t))
    /\ WF_barkdVars(part = "barkd" /\ Acquire("sync")) /\ WF_barkdVars(part = "barkd" /\ EventsTop)
    /\ SF_barkdVars(part = "barkd" /\ OnceSteps)
    /\ SF_clientVars(\/ part = "barkd" /\ RepeatedSteps /\ UNCHANGED <<part, exitVars, moveVars>>
                     \/ part = "exits" /\ SyncBegin("daemon") /\ UNCHANGED <<part, barkdVars, moveVars>>)

(* Each module's type invariant; an exit's reported state is that of the    *)
(* chain (exit/progress); and updates of a movement that were acknowledged  *)
(* are stored, in the cache as in the database (movement/manager.rs).       *)
ClientSound ==
    /\ ExitTypeOK /\ BarkdTypeOK /\ MoveTypeOK
    /\ ClaimableMatured /\ ClaimedMined /\ PackagesAccepted /\ OriginFits
    /\ UpdatesKept /\ CacheSettled /\ SubsystemIdsUnique
=============================================================================
