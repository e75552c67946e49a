----------------------------- MODULE BarkRounds -----------------------------
(***************************************************************************)
(* Rounds as the wallet sees them (bark/src/round.rs): participations are   *)
(* stored, driven by the server's events and followed on chain until they   *)
(* are final.                                                               *)
(*                                                                          *)
(* Several tasks work on the stored states: each loads its own copy, works  *)
(* on it across awaits and writes it back.  A job is one task's work on one *)
(* participation.  The round transaction of attempt a of round r is <<r, a>>,*)
(* the output of participation p in it <<p, r, a>>.                         *)
(***************************************************************************)
EXTENDS Naturals, Sequences, FiniteSets, WalletVtxos

CONSTANTS
    Parts,          \* participations, one per call of join_next_round
    Inputs,         \* the vtxos the wallet starts with
    InputsOf,       \* InputsOf[p]: the inputs of participation p
    Tasks,          \* the callers that work on round states
    Modes,          \* ways to run the wallet: the methods each task calls,
                    \* whether one call follows another (the command line), and
                    \* bounds: participations, attempts and restarts that occur
    Esplora,        \* the chain source is esplora, not bitcoind
    MaxRounds,      \* bound on the server's rounds
    MaxAttempts,    \* bound on the attempts of a round
    DoubleSpends,   \* a signed round transaction may be double spent for good
    Faults          \* writes and look-ups that fail once: "store", "spend",
                    \* "lookup", "sync"

VARIABLES
    mode,       \* how the wallet runs, one of Modes
    rounds,     \* table bark_round_state
    vtxos,      \* the vtxo table
    moves,      \* moves[p]: status and funding txid of p's movement
    joining,    \* participations whose movement exists and whose state does not
    job,        \* job[t][p]: task t's work on p
    events,     \* the events the server has sent
    server,     \* what the server holds in the attempt that runs now
    forfeits,   \* <<p, tx>>: the server can forfeit p's inputs once tx confirms
    chain,      \* chain[tx]: status of a round transaction
    faults,     \* faults left
    crashes     \* restarts left

vars == <<mode, rounds, vtxos, moves, joining, job, events, server, forfeits, chain, faults,
          crashes>>
wallet == <<rounds, vtxos, moves>>
outside == <<events, server, forfeits, chain>>

Kinds == {"daemon", "progress", "sync", "cancel", "participate", "ongoing"}

Txs == (1 .. MaxRounds) \X (0 .. MaxAttempts - 1)
NoTx == <<0, 0>>

ASSUME RoundsAssumption ==
    /\ \A p \in Parts : InputsOf[p] \subseteq Inputs
    /\ Modes \subseteq [kinds : [Tasks -> SUBSET Kinds], serial : BOOLEAN,
                        parts : SUBSET Parts, txs : SUBSET Txs, crashes : Nat]
    /\ Faults \subseteq {"store", "spend", "lookup", "sync"}
    /\ MaxRounds \in Nat /\ MaxAttempts \in Nat

Output(p, tx) == <<p, tx[1], tx[2]>>
Outputs(p) == {Output(p, tx) : tx \in Txs}
Vtxos == Inputs \cup UNION {Outputs(p) : p \in Parts}

-----------------------------------------------------------------------------
(* RoundState: the flow (RoundFlowState with its AttemptState) and the      *)
(* attempts whose forfeits were signed (UnconfirmedRound).                  *)

Flows == {"waiting", "attempt", "tree", "proposal", "finished", "success", "failed", "canceled"}
OngoingStates == {"attempt", "tree", "proposal", "finished"}

Absent == [flow |-> "absent", tx |-> NoTx, unconfirmed |-> {}]

(* RoundState::new *)
NewRoundState == [flow |-> "waiting", tx |-> NoTx, unconfirmed |-> {}]

(* UnconfirmedRound::new *)
NewUnconfirmed(tx) == [tx |-> tx, signed |-> FALSE, doubleSpent |-> FALSE]

Signed(state) == {u \in state.unconfirmed : u.signed}

OngoingParticipation(state) == state.flow \in {"waiting"} \cup OngoingStates

(* locked_pending_inputs: what the balance counts as pending in a round *)
LockedPendingInputs(p, state) ==
    IF Signed(state) # {} \/ state.flow \in {"absent", "failed", "canceled"} THEN {}
    ELSE InputsOf[p]

-----------------------------------------------------------------------------
(* Writes to the wallet's tables that several places share.  A movement     *)
(* call is one step here.                                                   *)

UpdateMovement(m, p, tx) == [m EXCEPT ![p].funding = tx]

FinishMovement(m, p, status) == [m EXCEPT ![p].status = status]

(* Faulty variant: gives the inputs back instead of spending them. *)
PersistRoundSuccessUnlocks(w, p, tx, lost) ==
    LET stored == StoreVtxos(w.vtxos, {Output(p, tx)}, "spendable")
        spent  == UnlockVtxos(stored.tab, InputsOf[p])
    IN [vtxos |-> spent.tab, moves |-> UpdateMovement(w.moves, p, tx), ok |-> spent.ok]

(* persist_round_success: stores the outputs, marks the inputs as spent and *)
(* updates the movement; each is tried whatever became of the others.       *)
(* "lost" are the writes a database fault loses.                            *)
PersistRoundSuccess(w, p, tx, lost) ==
    LET stored == StoreVtxos(w.vtxos, {Output(p, tx)}, "spendable")
        tab    == IF "store" \in lost THEN w.vtxos ELSE stored.tab
        spent  == MarkVtxosAsSpent(tab, InputsOf[p])
    IN [vtxos |-> IF "spend" \in lost THEN tab ELSE spent.tab,
        moves |-> UpdateMovement(w.moves, p, tx),
        ok    |-> stored.ok /\ spent.ok /\ lost = {}]

(* persist_round_failure *)
PersistRoundFailure(w, p) ==
    LET unlocked == UnlockVtxos(w.vtxos, InputsOf[p])
    IN [vtxos |-> unlocked.tab,
        moves |-> FinishMovement(w.moves, p, "failed"),
        ok    |-> unlocked.ok]

Db == [vtxos |-> vtxos, moves |-> moves]

(* Which writes of a call are lost. *)
Lost == {{}} \cup {{f} : f \in faults \cap {"store", "spend"}}

-----------------------------------------------------------------------------

NoEvent == [kind |-> "none", tx |-> NoTx]
Idle == [pc |-> "idle", kind |-> "none", copy |-> Absent, event |-> NoEvent, seen |-> 0,
         todo |-> {}, status |-> "none"]

Init ==
    /\ mode \in Modes
    /\ rounds = [p \in Parts |-> Absent]
    /\ vtxos = [v \in Vtxos |-> IF v \in Inputs THEN "spendable" ELSE "absent"]
    /\ moves = [p \in Parts |-> [status |-> "none", funding |-> NoTx]]
    /\ joining = {}
    /\ job = [t \in Tasks |-> [p \in Parts |-> Idle]]
    /\ events = << >>
    /\ server = [tx |-> NoTx, phase |-> "done", registered |-> {}, cosigned |-> {}]
    /\ forfeits = {}
    /\ chain = [tx \in Txs |-> [signed |-> FALSE, at |-> "none"]]
    /\ faults = Faults
    /\ crashes = mode.crashes

(* Task t may call method k. *)
Ready(t, k) ==
    /\ k \in mode.kinds[t]
    /\ mode.serial => joining = {} /\ \A u \in Tasks, p \in Parts : job[u][p].pc = "idle"

-----------------------------------------------------------------------------
(* The server: attempts, proposals and the finished round, each announced   *)
(* by an event.                                                             *)

Announce(kind, tx) == events' = Append(events, [kind |-> kind, tx |-> tx])

ServerAttempt(tx) ==
    /\ \/ tx = <<server.tx[1] + 1, 0>>
       \/ tx = <<server.tx[1], server.tx[2] + 1>> /\ server.phase # "done"
    /\ tx \in mode.txs
    /\ server' = [tx |-> tx, phase |-> "attempt", registered |-> {}, cosigned |-> {}]
    /\ Announce("attempt", tx)
    /\ UNCHANGED <<wallet, joining, job, forfeits, chain, faults, crashes>>

ServerPropose ==
    /\ \/ /\ server.phase = "attempt"
          /\ server' = [server EXCEPT !.phase = "tree"]
          /\ Announce("tree", server.tx)
          /\ UNCHANGED chain
       \/ /\ server.phase = "tree" /\ server.registered \subseteq server.cosigned
          /\ server' = [server EXCEPT !.phase = "proposal"]
          /\ Announce("proposal", server.tx)
          /\ UNCHANGED chain
       \/ /\ server.phase = "proposal"
          /\ \A p \in server.registered : <<p, server.tx>> \in forfeits
          /\ server' = [server EXCEPT !.phase = "done"]
          /\ chain' = [chain EXCEPT ![server.tx].signed = TRUE]
          /\ Announce("finished", server.tx)
    /\ UNCHANGED <<wallet, joining, job, forfeits, faults, crashes>>

(* The chain: a signed transaction is broadcast, evicted, mined and buried, *)
(* and blocks are reorganised; another transaction takes the inputs of an   *)
(* attempt that was given up, or with DoubleSpends of any.  Only            *)
(* transactions the wallet signed forfeits for matter to it.                *)
ChainMoves(tx) ==
    {m \in {<<"none", "mempool">>, <<"mempool", "none">>, <<"mempool", "shallow">>,
            <<"shallow", "mempool">>, <<"shallow", "deep">>} : chain[tx].signed}
    \cup
    {m \in {<<"none", "conflict">>, <<"mempool", "conflict">>, <<"conflict", "none">>,
            <<"conflict", "deepconflict">>} :
        DoubleSpends \/ (~chain[tx].signed /\ server.tx # tx)}

ChainStep(tx) ==
    /\ \E p \in Parts :
          <<p, tx>> \in forfeits \/ tx \in {u.tx : u \in rounds[p].unconfirmed}
    /\ \E m \in ChainMoves(tx) :
          /\ chain[tx].at = m[1]
          /\ chain' = [chain EXCEPT ![tx].at = m[2]]
    /\ UNCHANGED <<wallet, joining, job, events, server, forfeits, faults, crashes>>

-----------------------------------------------------------------------------
(* join_next_round *)

(* The movement is created first. *)
JoinNextRound(p) ==
    /\ p \in mode.parts
    /\ moves[p].status = "none"
    /\ \E t \in Tasks : \E k \in Kinds : Ready(t, k)
    /\ moves' = [moves EXCEPT ![p].status = "pending"]
    /\ joining' = joining \cup {p}
    /\ UNCHANGED <<rounds, vtxos, job, outside, faults, crashes>>

SetJob(t, p, j) == job' = [job EXCEPT ![t][p] = j]

(* The end of a job; the daemon's stream goes on. *)
EndJob(t, p) ==
    SetJob(t, p, IF job[t][p].kind = "daemon" THEN [Idle EXCEPT !.seen = job[t][p].seen] ELSE Idle)

(* store_round_state_lock_vtxos, one transaction; participate_round keeps   *)
(* the new state and waits for events.                                      *)
StoreRoundStateLockVtxos(p) ==
    /\ p \in joining
    /\ joining' = joining \ {p}
    /\ LET locked == SetVtxoStates(vtxos, InputsOf[p], "locked", {"spendable"}) IN
       IF locked.ok
         THEN /\ vtxos' = locked.tab
              /\ rounds' = [rounds EXCEPT ![p] = NewRoundState]
              /\ \/ UNCHANGED job
                 \/ \E t \in Tasks :
                       /\ "participate" \in mode.kinds[t]
                       /\ SetJob(t, p, [Idle EXCEPT !.pc = "subscribe", !.kind = "participate",
                                                    !.copy = NewRoundState])
         ELSE UNCHANGED <<vtxos, rounds, job>>
    /\ UNCHANGED <<moves, outside, faults, crashes>>

-----------------------------------------------------------------------------
(* Loading a state.  load_round_states reads all states at once; here every *)
(* state is read when its job starts.                                       *)

StartSync(j) == [j EXCEPT !.pc = "sync", !.event = NoEvent,
                          !.todo = {u.tx : u \in j.copy.unconfirmed}]

Loaded(k, p) == [Idle EXCEPT !.kind = k, !.copy = rounds[p]]

(* progress_pending_rounds with an event: the daemon's stream.  A stream    *)
(* that breaks loses events.                                                *)
ProgressWithEvent(t, p) ==
    /\ Ready(t, "daemon") /\ job[t][p].pc = "idle"
    /\ rounds[p] # Absent
    /\ \E i \in job[t][p].seen + 1 .. Len(events) :
       LET j == [Loaded("daemon", p) EXCEPT !.seen = i] IN
          SetJob(t, p, IF OngoingParticipation(j.copy)
                         THEN [j EXCEPT !.pc = "event", !.event = events[i]]
                         ELSE StartSync(j))
    /\ UNCHANGED <<wallet, joining, outside, faults, crashes>>

(* progress_pending_rounds without one ... *)
ProgressPendingRounds(t, p) ==
    /\ Ready(t, "progress") /\ job[t][p].pc = "idle"
    /\ rounds[p] # Absent
    /\ SetJob(t, p, IF OngoingParticipation(rounds[p])
                      THEN [Loaded("progress", p) EXCEPT !.pc = "fetch"]
                      ELSE StartSync(Loaded("progress", p)))
    /\ UNCHANGED <<wallet, joining, outside, faults, crashes>>

(* ... asks the server for the last one; a failure is logged. *)
GetLastRoundEvent(t, p) ==
    /\ job[t][p].pc = "fetch"
    /\ \/ /\ events # << >>
          /\ SetJob(t, p, [job[t][p] EXCEPT !.pc = "event", !.event = events[Len(events)]])
       \/ SetJob(t, p, StartSync(job[t][p]))
    /\ UNCHANGED <<wallet, joining, outside, faults, crashes>>

(* sync_pending_rounds skips ongoing participations. *)
SyncPendingRounds(t, p) ==
    /\ Ready(t, "sync") /\ job[t][p].pc = "idle"
    /\ rounds[p] # Absent /\ ~OngoingParticipation(rounds[p])
    /\ SetJob(t, p, StartSync(Loaded("sync", p)))
    /\ UNCHANGED <<wallet, joining, outside, faults, crashes>>

(* participate_ongoing_rounds keeps its copies from one event to the next. *)
ParticipateOngoingRounds(t, p) ==
    /\ Ready(t, "ongoing") /\ job[t][p].pc = "idle"
    /\ rounds[p] # Absent /\ OngoingParticipation(rounds[p])
    /\ SetJob(t, p, [Loaded("ongoing", p) EXCEPT !.pc = "subscribe"])
    /\ UNCHANGED <<wallet, joining, outside, faults, crashes>>

(* subscribe_round_events: a new stream has no earlier events. *)
SubscribeRoundEvents(t, p) ==
    /\ job[t][p].pc = "subscribe"
    /\ SetJob(t, p, [job[t][p] EXCEPT !.pc = "wait", !.seen = Len(events)])
    /\ UNCHANGED <<wallet, joining, outside, faults, crashes>>

(* The loop of participate_round takes the next event of its stream, or the *)
(* stream breaks and the call returns.                                      *)
ParticipateRound(t, p) ==
    /\ job[t][p].pc = "wait"
    /\ \/ LET i == job[t][p].seen + 1 IN
          /\ i <= Len(events)
          /\ SetJob(t, p, [job[t][p] EXCEPT !.pc = "event", !.event = events[i], !.seen = i])
       \/ EndJob(t, p)
    /\ UNCHANGED <<wallet, joining, outside, faults, crashes>>

-----------------------------------------------------------------------------
(* process_event on the job's copy.  The calls to the server may fail, also *)
(* after the server has acted on them.                                      *)

Updated(t, p, copy) ==
    SetJob(t, p, [job[t][p] EXCEPT !.pc = "save", !.copy = copy, !.event = NoEvent])

Fail(copy) == [copy EXCEPT !.flow = "failed"]

Accepts(p, tx) ==
    /\ server.tx = tx /\ server.phase = "attempt"
    /\ \A q \in server.registered : InputsOf[q] \cap InputsOf[p] = {}

(* The attempts the code joins: the first one, or a later one of its round. *)
JoinsAttempt(copy, e) ==
    /\ e.kind = "attempt"
    /\ \/ copy.flow = "waiting" /\ e.tx[2] = 0
       \/ copy.flow \in OngoingStates /\ e.tx[1] <= copy.tx[1] /\ e.tx[2] > copy.tx[2]

(* try_start_attempt, start_attempt: submit_payment. *)
TryStartAttempt(t, p) ==
    LET j == job[t][p] IN
    /\ j.pc = "event"
    /\ JoinsAttempt(j.copy, j.event)
    /\ \/ /\ Accepts(p, j.event.tx)
          /\ server' = [server EXCEPT !.registered = @ \cup {p}]
          /\ Updated(t, p, [j.copy EXCEPT !.flow = "tree", !.tx = j.event.tx])
       \/ UNCHANGED server /\ Updated(t, p, Fail(j.copy))
       \/ /\ Accepts(p, j.event.tx)
          /\ server' = [server EXCEPT !.registered = @ \cup {p}]
          /\ Updated(t, p, Fail(j.copy))
    /\ UNCHANGED <<wallet, joining, events, forfeits, chain, faults, crashes>>

(* "round started while we were on": the flow has failed. *)
RoundPassed(copy, e) == copy.flow \in OngoingStates /\ e.tx[1] > copy.tx[1]

(* An event of this attempt, or a later one, that progress_attempt gets. *)
Current(copy, e) ==
    /\ copy.flow \in OngoingStates
    /\ ~RoundPassed(copy, e) /\ ~JoinsAttempt(copy, e) /\ e.tx[2] >= copy.tx[2]

(* sign_vtxo_tree *)
SignVtxoTree(t, p) ==
    LET j == job[t][p] IN
    /\ j.pc = "event"
    /\ Current(j.copy, j.event) /\ j.copy.flow = "tree" /\ j.event.kind = "tree"
    /\ \/ /\ j.event.tx = j.copy.tx
          /\ server.tx = j.copy.tx /\ server.phase = "tree" /\ p \in server.registered
          /\ server' = [server EXCEPT !.cosigned = @ \cup {p}]
          /\ \E copy \in {[j.copy EXCEPT !.flow = "proposal"], Fail(j.copy)} : Updated(t, p, copy)
       \/ UNCHANGED server /\ Updated(t, p, Fail(j.copy))
    /\ UNCHANGED <<wallet, joining, events, forfeits, chain, faults, crashes>>

(* Faulty variant: the attempt is not recorded when the call fails. *)
SignForfeitsUnrecorded(t, p) ==
    LET j == job[t][p]
        signed == [j.copy EXCEPT !.flow = "finished",
                                 !.unconfirmed = @ \cup {NewUnconfirmed(j.copy.tx)}]
    IN
    /\ j.pc = "event"
    /\ Current(j.copy, j.event) /\ j.copy.flow = "proposal" /\ j.event.kind = "proposal"
    /\ \/ /\ server.tx = j.copy.tx /\ server.phase = "proposal" /\ p \in server.registered
          /\ forfeits' = forfeits \cup {<<p, j.copy.tx>>}
          /\ \E copy \in {signed, [j.copy EXCEPT !.flow = "attempt"]} : Updated(t, p, copy)
       \/ UNCHANGED forfeits /\ Updated(t, p, [j.copy EXCEPT !.flow = "attempt"])
    /\ UNCHANGED <<wallet, joining, events, server, chain, faults, crashes>>

(* sign_forfeits, submit_forfeit_sigs: the attempt is recorded as an        *)
(* UnconfirmedRound whether or not the call succeeds.                       *)
SignForfeits(t, p) ==
    LET j == job[t][p]
        signed == [j.copy EXCEPT !.flow = "finished",
                                 !.unconfirmed = @ \cup {NewUnconfirmed(j.copy.tx)}]
        unsent == [signed EXCEPT !.flow = "attempt"]
    IN
    /\ j.pc = "event"
    /\ Current(j.copy, j.event) /\ j.copy.flow = "proposal" /\ j.event.kind = "proposal"
    /\ \/ /\ server.tx = j.copy.tx /\ server.phase = "proposal" /\ p \in server.registered
          /\ forfeits' = forfeits \cup {<<p, j.copy.tx>>}
          /\ \E copy \in {signed, unsent} : Updated(t, p, copy)
       \/ /\ UNCHANGED forfeits
          /\ \/ j.event.tx = j.copy.tx /\ Updated(t, p, unsent)
             \/ Updated(t, p, Fail(j.copy))
    /\ UNCHANGED <<wallet, joining, events, server, chain, faults, crashes>>

(* The finished round: a failure to persist it is only logged.  The code    *)
(* asserts that some attempt was recorded.                                  *)
FinishRound(t, p) ==
    LET j == job[t][p]
        mine == {u \in j.copy.unconfirmed : u.tx = j.copy.tx}
        signed == {[u EXCEPT !.signed = TRUE] : u \in mine}
    IN
    /\ j.pc = "event"
    /\ Current(j.copy, j.event) /\ j.copy.flow = "finished" /\ j.event.kind = "finished"
    /\ j.event.tx = j.copy.tx
    /\ \/ /\ mine # {}
          /\ \E lost \in Lost :
             LET res == PersistRoundSuccess(Db, p, j.copy.tx, lost) IN
                /\ vtxos' = res.vtxos /\ moves' = res.moves
                /\ faults' = faults \ lost
          /\ Updated(t, p, [j.copy EXCEPT !.flow = "success",
                                          !.unconfirmed = (@ \ mine) \cup signed])
       \/ /\ mine = {}
          /\ IF j.copy.unconfirmed = {} THEN SetJob(t, p, [j EXCEPT !.pc = "panic"])
             ELSE Updated(t, p, Fail(j.copy))
          /\ UNCHANGED <<vtxos, moves, faults>>
    /\ UNCHANGED <<rounds, joining, outside, crashes>>

(* Events that end the flow: a newer round, or a finished round that is not *)
(* the one the copy signed for.                                             *)
EventFails(copy, e) ==
    \/ RoundPassed(copy, e)
    \/ Current(copy, e) /\ e.kind = "finished" /\ (copy.flow # "finished" \/ e.tx # copy.tx)

FailedEvent(t, p) ==
    LET j == job[t][p] IN
    /\ j.pc = "event"
    /\ EventFails(j.copy, j.event)
    /\ Updated(t, p, Fail(j.copy))
    /\ UNCHANGED <<wallet, joining, outside, faults, crashes>>

(* Any other event changes nothing. *)
IgnoreEvent(t, p) ==
    LET j == job[t][p] IN
    /\ j.pc = "event"
    /\ ~EventFails(j.copy, j.event) /\ ~JoinsAttempt(j.copy, j.event)
    /\ ~(Current(j.copy, j.event) /\ j.copy.flow = j.event.kind)
    /\ SetJob(t, p, IF j.kind = "participate" THEN [j EXCEPT !.pc = "wait", !.event = NoEvent]
                    ELSE StartSync(j))
    /\ UNCHANGED <<wallet, joining, outside, faults, crashes>>

(* update_round_state does nothing to a row that is gone. *)
UpdateRoundState(p, copy) == [rounds EXCEPT ![p] = IF @ = Absent THEN Absent ELSE copy]

SaveProgress(t, p) ==
    LET j == job[t][p] IN
    /\ j.pc = "save"
    /\ rounds' = UpdateRoundState(p, j.copy)
    /\ SetJob(t, p, IF j.kind = "participate" /\ OngoingParticipation(j.copy)
                      THEN [j EXCEPT !.pc = "wait", !.event = NoEvent] ELSE StartSync(j))
    /\ UNCHANGED <<vtxos, moves, joining, outside, faults, crashes>>

-----------------------------------------------------------------------------
(* RoundState::sync on the job's copy *)

(* Faulty variant: a transaction that is not found is given up. *)
CheckIfDoubleSpentEarly(u, at) == {TRUE}

(* check_if_double_spent: esplora waits for a deep double spend; with       *)
(* bitcoind a double spend that was seen before counts once enough time has *)
(* passed, which is a choice here.                                          *)
CheckIfDoubleSpent(u, at) ==
    IF Esplora THEN {at = "deepconflict"}
    ELSE IF u.doubleSpent /\ at \in {"conflict", "deepconflict"} THEN BOOLEAN ELSE {FALSE}

(* maybe_update_tx: the look-up of the signed transaction may fail. *)
MaybeUpdateTx(u, found) == [u EXCEPT !.signed = @ \/ found, !.doubleSpent = FALSE]

(* One unconfirmed round: UnconfirmedRound::sync, then the rest of the      *)
(* loop's body.  When the signed transaction is new, success is persisted;  *)
(* if that fails the outcome is dropped until the next call.                *)
SyncSeen(t, p, u) ==
    LET j == job[t][p]
        at == chain[u.tx].at
    IN
    /\ at \in {"mempool", "shallow", "deep"}
    /\ \E found \in {TRUE} \cup {FALSE : f \in faults \cap {"lookup"}}, lost \in Lost :
       LET new   == MaybeUpdateTx(u, found)
           fresh == ~u.signed /\ new.signed
           res   == PersistRoundSuccess(Db, p, u.tx, lost)
           copy  == [j.copy EXCEPT !.unconfirmed = (@ \ {u}) \cup {new}]
       IN /\ lost # {} => fresh
          /\ vtxos' = IF fresh THEN res.vtxos ELSE vtxos
          /\ moves' = IF fresh THEN res.moves ELSE moves
          /\ faults' = faults \ (lost \cup (IF found THEN {} ELSE {"lookup"}))
          /\ SetJob(t, p, [j EXCEPT !.copy = copy, !.todo = @ \ {u.tx},
                              !.status = IF at = "deep" /\ ~(fresh /\ ~res.ok)
                                           THEN "confirmed" ELSE @])
    /\ UNCHANGED <<rounds, joining, outside, crashes>>

SyncNotFound(t, p, u) ==
    LET j == job[t][p]
        at == chain[u.tx].at
        new == [u EXCEPT !.doubleSpent = ~Esplora /\ at \in {"conflict", "deepconflict"}]
    IN
    /\ at \in {"none", "conflict", "deepconflict"}
    /\ \E double \in CheckIfDoubleSpent(u, at) :
          /\ SetJob(t, p, [j EXCEPT !.todo = @ \ {u.tx},
                              !.copy.unconfirmed = (@ \ {u}) \cup (IF double THEN {} ELSE {new})])
          /\ chain' = IF ~double /\ u.signed /\ at = "none"
                        THEN [chain EXCEPT ![u.tx].at = "mempool"] ELSE chain
    /\ UNCHANGED <<wallet, joining, events, server, forfeits, faults, crashes>>

SyncRound(t, p) ==
    /\ job[t][p].pc = "sync"
    /\ \E u \in job[t][p].copy.unconfirmed :
          /\ u.tx \in job[t][p].todo
          /\ SyncSeen(t, p, u) \/ SyncNotFound(t, p, u)

(* The chain source does not answer: the round is looked at again next time.*)
SyncError(t, p) ==
    /\ job[t][p].pc = "sync"
    /\ "sync" \in faults
    /\ faults' = faults \ {"sync"}
    /\ \E tx \in job[t][p].todo : SetJob(t, p, [job[t][p] EXCEPT !.todo = @ \ {tx}])
    /\ UNCHANGED <<wallet, joining, outside, crashes>>

(* The status at the end of sync, with what it writes; an error leaves the  *)
(* stored state as it is.                                                   *)
SyncStatus(t, p) ==
    LET j == job[t][p]
        failure == PersistRoundFailure(Db, p)
        Go(status) == SetJob(t, p, [j EXCEPT !.pc = "store", !.status = status])
    IN
    /\ j.pc = "sync" /\ j.todo = {}
    /\ \/ /\ j.status = "confirmed"
          /\ \E u \in j.copy.unconfirmed :
                /\ chain[u.tx].at = "deep"
                /\ moves' = FinishMovement(UpdateMovement(moves, p, u.tx), p, "successful")
          /\ Go("final") /\ UNCHANGED vtxos
       \/ /\ j.status # "confirmed" /\ j.copy.unconfirmed = {}
          /\ ~OngoingParticipation(j.copy)
          /\ vtxos' = failure.vtxos /\ moves' = failure.moves
          /\ IF failure.ok THEN Go("final") ELSE EndJob(t, p)
       \/ /\ j.status # "confirmed" /\ j.copy.unconfirmed = {}
          /\ OngoingParticipation(j.copy)
          /\ Go("pending") /\ UNCHANGED <<vtxos, moves>>
       \/ /\ j.status # "confirmed" /\ j.copy.unconfirmed # {}
          /\ IF Signed(j.copy) # {}
               THEN \E u \in Signed(j.copy) : moves' = UpdateMovement(moves, p, u.tx)
               ELSE UNCHANGED moves
          /\ Go("pending") /\ UNCHANGED vtxos
    /\ UNCHANGED <<rounds, joining, outside, faults, crashes>>

(* Final states are removed, others stored; participate_round only returns  *)
(* the status.                                                              *)
StoreStatus(t, p) ==
    LET j == job[t][p] IN
    /\ j.pc = "store"
    /\ rounds' = IF j.kind = "participate" THEN rounds
                 ELSE IF j.status = "final" THEN [rounds EXCEPT ![p] = Absent]
                 ELSE UpdateRoundState(p, j.copy)
    /\ IF j.kind = "ongoing" /\ OngoingParticipation(j.copy)
         THEN SetJob(t, p, [j EXCEPT !.pc = "wait", !.status = "none"])
         ELSE EndJob(t, p)
    /\ UNCHANGED <<vtxos, moves, joining, outside, faults, crashes>>

-----------------------------------------------------------------------------
(* cancel_pending_round *)

CancelPendingRound(t, p) ==
    /\ Ready(t, "cancel") /\ job[t][p].pc = "idle"
    /\ rounds[p] # Absent
    /\ SetJob(t, p, [Loaded("cancel", p) EXCEPT !.pc = "cancel"])
    /\ UNCHANGED <<wallet, joining, outside, faults, crashes>>

(* Whether try_cancel may cancel: no forfeits were signed. *)
Cancelable(copy) ==
    \/ copy.flow \in {"canceled", "waiting"}
    \/ copy.flow \in {"failed"} \cup OngoingStates /\ copy.unconfirmed = {}

TryCancel(t, p) ==
    LET j == job[t][p]
        failure == PersistRoundFailure(Db, p)
    IN
    /\ j.pc = "cancel"
    /\ IF Cancelable(j.copy)
         THEN /\ vtxos' = failure.vtxos /\ moves' = failure.moves
              /\ IF failure.ok THEN SetJob(t, p, [j EXCEPT !.pc = "store", !.status = "final"])
                 ELSE EndJob(t, p)
         ELSE EndJob(t, p) /\ UNCHANGED <<vtxos, moves>>
    /\ UNCHANGED <<rounds, joining, outside, faults, crashes>>

(* The wallet stops and starts: tables stay, copies are gone. *)
Restart ==
    /\ crashes > 0
    /\ crashes' = crashes - 1
    /\ joining' = {}
    /\ job' = [t \in Tasks |-> [p \in Parts |-> Idle]]
    /\ UNCHANGED <<wallet, outside, faults>>

-----------------------------------------------------------------------------

JobStep(t, p) ==
    \/ ProgressWithEvent(t, p) \/ ProgressPendingRounds(t, p) \/ GetLastRoundEvent(t, p)
    \/ SyncPendingRounds(t, p) \/ ParticipateOngoingRounds(t, p)
    \/ SubscribeRoundEvents(t, p) \/ ParticipateRound(t, p)
    \/ TryStartAttempt(t, p) \/ SignVtxoTree(t, p) \/ SignForfeits(t, p) \/ FinishRound(t, p)
    \/ FailedEvent(t, p) \/ IgnoreEvent(t, p) \/ SaveProgress(t, p)
    \/ SyncRound(t, p) \/ SyncError(t, p) \/ SyncStatus(t, p) \/ StoreStatus(t, p)
    \/ CancelPendingRound(t, p) \/ TryCancel(t, p)

Step ==
    \/ \E p \in Parts : JoinNextRound(p) \/ StoreRoundStateLockVtxos(p)
    \/ \E t \in Tasks, p \in Parts : JobStep(t, p)
    \/ \E tx \in Txs : ServerAttempt(tx) \/ ChainStep(tx)
    \/ ServerPropose
    \/ Restart

Next == Step /\ UNCHANGED mode

Spec == Init /\ [][Next]_vars

-----------------------------------------------------------------------------

TypeOK ==
    /\ \A p \in Parts : rounds[p].flow \in Flows \cup {"absent"}
    /\ \A p \in Parts : rounds[p].unconfirmed \subseteq
          [tx : Txs, signed : BOOLEAN, doubleSpent : BOOLEAN]
    /\ vtxos \in [Vtxos -> VtxoStates]
    /\ moves \in [Parts -> [status : {"none", "pending", "successful", "failed"},
                            funding : Txs \cup {NoTx}]]
    /\ forfeits \subseteq Parts \X Txs

(* The same money is never offered twice: while the output of a round can   *)
(* be spent, the inputs that paid for it cannot.                            *)
CountedOnce ==
    \A p \in Parts, tx \in Txs :
        vtxos[Output(p, tx)] = "spendable" =>
            \A v \in InputsOf[p] : vtxos[v] # "spendable"

(* "As soon as we have signed forfeit txs for the round, we keep track of   *)
(* this round attempt until we see another attempt we participated in       *)
(* confirm or we gain confidence that the failed attempt will never         *)
(* confirm."  It holds until the wallet restarts.                           *)
Tracks(state, tx) == \E u \in state.unconfirmed : u.tx = tx

ForfeitsTracked ==
    crashes = mode.crashes => \A f \in forfeits :
        \/ Tracks(rounds[f[1]], f[2])
        \/ \E t \in Tasks : job[t][f[1]].pc = "save" /\ Tracks(job[t][f[1]].copy, f[2])
        \/ \E t \in Tasks : job[t][f[1]].status = "confirmed"
        \/ moves[f[1]].status = "successful"
        \/ chain[f[2]].at = "deepconflict"

(* The inputs of a participation that may still take place stay locked, so  *)
(* that nothing else spends them.  No run checks it: a state that failed is *)
(* unlocked again on behalf of a participation that is over.                *)
PendingInputsLocked ==
    \A p \in Parts :
        /\ OngoingParticipation(rounds[p])
        /\ ~\E t \in Tasks : job[t][p].status = "final"
        => \A v \in InputsOf[p] : vtxos[v] # "spendable"

(* The assertion of process_event never fails. *)
NoPanic == \A t \in Tasks, p \in Parts : job[t][p].pc # "panic"

(* A movement that is reported successful has its outputs in the wallet and *)
(* its inputs spent.                                                        *)
SuccessComplete ==
    \A p \in Parts :
        moves[p].status = "successful" =>
            /\ vtxos[Output(p, moves[p].funding)] # "absent"
            /\ \A v \in InputsOf[p] : vtxos[v] = "spent"

(* The wallet's tables agree whenever a step ends (round.rs): money is      *)
(* counted once, a success is complete, and no assertion fails.             *)
RoundsSound == TypeOK /\ CountedOnce /\ SuccessComplete /\ NoPanic

(* While the daemon runs, a movement that was reported successful or failed *)
(* never gets another status, whatever copies of its state are around.      *)
FinalStatusStays ==
    [][\A p \in Parts :
          ~mode.serial /\ moves[p].status \in {"successful", "failed"} =>
              moves'[p].status = moves[p].status]_vars
=============================================================================
