--------------------------- MODULE ForfeitWatcher ---------------------------
(***************************************************************************)
(* The forfeit watcher (server/src/forfeits.rs): when a forfeited vtxo is  *)
(* exited, it takes the next connector of the round in which the vtxo was  *)
(* forfeited and broadcasts the forfeit transaction that spends both.      *)
(***************************************************************************)
EXTENDS Integers, Sequences, FiniteSets, Functions

CONSTANTS
    Forfeited,      \* for each round 1, 2, ...: the vtxos forfeited in it
    WatchModes,     \* scenarios: rounds at the start, faults, a restart
    MaxWatchFaults  \* failed broadcasts

ASSUME WatchAssumption ==
    /\ MaxWatchFaults \in Nat
    /\ Len(Forfeited) \in Nat /\ DOMAIN Forfeited = 1 .. Len(Forfeited)
    /\ \A r \in DOMAIN Forfeited : Forfeited[r] # {} /\ IsFiniteSet(Forfeited[r])
    /\ \A q, r \in DOMAIN Forfeited : q # r => Forfeited[q] \cap Forfeited[r] = {}
    /\ WatchModes \subseteq [rounds : 0 .. Len(Forfeited), prompt : BOOLEAN, fails : BOOLEAN, crash : BOOLEAN]

VARIABLES
    wmode,          \* the scenario
    tables,         \* the number of rounds in the database
    mined,          \* what is on the chain
    watcher,        \* Process: last round, exit_txs, rounds, claims
    wpc             \* the place in run

watchVars == <<wmode, tables, mined, watcher, wpc>>

FfRounds == 1 .. Len(Forfeited)
FfVtxos == UNION Range(Forfeited)
RoundOf(v) == CHOOSE r \in FfRounds : v \in Forfeited[r]
NbInputs(r) == Cardinality(Forfeited[r])

(***************************************************************************)
(* Connectors.  A chain of n has n - 1 transactions; connector i < n - 1 is *)
(* an output of transaction i, the last one the other output of the last   *)
(* transaction, or the round's own output if there is none.                 *)
(***************************************************************************)
ConnectorTx(n, i) == IF i < n - 1 THEN i ELSE n - 2

Idle == [pc |-> "idle", todo |-> {}, confirmed |-> {}, idx |-> 1]

NewProcess == [last |-> 0, exits |-> {}, used |-> [r \in FfRounds |-> 0], claims |-> <<>>, panic |-> FALSE]

(* The database may hold no round yet, so the process starts with last = 0. *)
WatchInit ==
    /\ wmode \in WatchModes
    /\ tables = wmode.rounds
    /\ mined = [rounds |-> {}, exits |-> {}, conns |-> {}, forfeits |-> {}, sent |-> {}, faults |-> 0, crashed |-> FALSE]
    /\ watcher = NewProcess
    /\ wpc = [Idle EXCEPT !.pc = "start"]

(***************************************************************************)
(* The rounds and the chain                                                *)
(***************************************************************************)
StoreRound ==
    /\ tables < Len(Forfeited)
    /\ tables' = tables + 1
    /\ UNCHANGED <<wmode, mined, watcher, wpc>>

(* wmode.prompt: round transactions confirm before anything else happens.   *)
MineRoundTx(r) ==
    /\ r <= tables /\ r \notin mined.rounds
    /\ mined' = [mined EXCEPT !.rounds = @ \cup {r}]
    /\ UNCHANGED <<wmode, tables, watcher, wpc>>

MineExit(v) ==
    /\ v \notin mined.exits /\ RoundOf(v) <= tables
    /\ wmode.prompt => RoundOf(v) \in mined.rounds
    /\ mined' = [mined EXCEPT !.exits = @ \cup {v}]
    /\ UNCHANGED <<wmode, tables, watcher, wpc>>

(* Whatever was broadcast is mined when it can be: <<"conn", r, i>> or      *)
(* <<"forfeit", v, connector>>.                                             *)
ConnectorMined(r, i) ==
    IF NbInputs(r) = 1 THEN r \in mined.rounds ELSE <<r, ConnectorTx(NbInputs(r), i)>> \in mined.conns

MineConnector(r, i) ==
    /\ <<"conn", r, i>> \in mined.sent /\ <<r, i>> \notin mined.conns
    /\ r \in mined.rounds /\ (i > 0 => <<r, i - 1>> \in mined.conns)
    /\ mined' = [mined EXCEPT !.conns = @ \cup {<<r, i>>}]
    /\ UNCHANGED <<wmode, tables, watcher, wpc>>

MineForfeit(v, i) ==
    /\ <<"forfeit", v, i>> \in mined.sent
    /\ v \in mined.exits /\ ConnectorMined(RoundOf(v), i)
    /\ \A f \in mined.forfeits : f[1] # v /\ (RoundOf(f[1]) = RoundOf(v) => f[2] # i)
    /\ mined' = [mined EXCEPT !.forfeits = @ \cup {<<v, i>>}]
    /\ UNCHANGED <<wmode, tables, watcher, wpc>>

FfChain ==
    \/ \E r \in FfRounds : MineRoundTx(r) \/ \E i \in 0 .. NbInputs(r) : MineConnector(r, i)
    \/ \E v \in FfVtxos : \E i \in 0 .. NbInputs(RoundOf(v)) : MineForfeit(v, i)

(***************************************************************************)
(* The process                                                             *)
(***************************************************************************)
GotoW(pc) == wpc' = [Idle EXCEPT !.pc = pc]

(* ForfeitWatcher::start: the last round, then all forfeited vtxos           *)
LoadState ==
    /\ wpc.pc = "start"
    /\ watcher' = [watcher EXCEPT !.last = tables]
    /\ GotoW("start_all")
    /\ UNCHANGED <<wmode, tables, mined>>

ForfeitedUpTo(r) == UNION {Forfeited[q] : q \in 1 .. r}

FetchAllForfeited ==
    /\ wpc.pc = "start_all"
    /\ watcher' = [watcher EXCEPT !.exits = ForfeitedUpTo(tables)]
    /\ GotoW("idle")
    /\ UNCHANGED <<wmode, tables, mined>>

(* load_new_forfeits: without a last round, the newest one is taken first.  *)
LoadFirst ==
    /\ wpc.pc = "idle" /\ ~watcher.panic
    /\ watcher' = IF watcher.last = 0 /\ tables > 0
                    THEN [watcher EXCEPT !.last = tables, !.exits = @ \cup Forfeited[tables]]
                    ELSE watcher
    /\ GotoW(IF watcher'.last = 0 THEN "detect" ELSE "load")
    /\ UNCHANGED <<wmode, tables, mined>>

(* Faulty variant: the round after the last one is skipped. *)
LoadFreshSkips ==
    /\ wpc.pc = "load"
    /\ watcher' = [watcher EXCEPT !.exits = @ \cup UNION {Forfeited[r] : r \in (watcher.last + 2) .. tables},
                                  !.last = tables]
    /\ GotoW("detect")
    /\ UNCHANGED <<wmode, tables, mined>>

LoadFresh ==
    /\ wpc.pc = "load"
    /\ watcher' = [watcher EXCEPT !.exits = @ \cup UNION {Forfeited[r] : r \in (watcher.last + 1) .. tables},
                                  !.last = tables]
    /\ GotoW("detect")
    /\ UNCHANGED <<wmode, tables, mined>>

(* detect_forfeit_confirms *)
Detect ==
    /\ wpc.pc = "detect"
    /\ LET confirmed == watcher.exits \cap mined.exits
       IN wpc' = [pc |-> "handle", todo |-> confirmed, confirmed |-> confirmed, idx |-> 1]
    /\ UNCHANGED <<wmode, tables, mined, watcher>>

(* Faulty variant: next_connector returns the same connector. *)
HandleExitTxReused(v) ==
    /\ wpc.pc = "handle" /\ v \in wpc.todo
    /\ LET r == RoundOf(v)
           i == watcher.used[r]
       IN /\ watcher' = [watcher EXCEPT !.claims = Append(@, [vtxo |-> v, conn |-> i, cpfp |-> FALSE])]
          /\ mined' = IF NbInputs(r) = 1 THEN mined
                      ELSE [mined EXCEPT !.sent = @ \cup {<<"conn", r, ConnectorTx(NbInputs(r), i)>>}]
          /\ wpc' = [wpc EXCEPT !.todo = @ \ {v}]
    /\ UNCHANGED <<wmode, tables>>

(* handle_exit_tx: next_connector expects that there is one left.           *)
HandleExitTx(v) ==
    /\ wpc.pc = "handle" /\ v \in wpc.todo
    /\ LET r == RoundOf(v)
           i == watcher.used[r]
           claim == [vtxo |-> v, conn |-> i, cpfp |-> FALSE]
       IN IF i >= NbInputs(r) THEN watcher' = [watcher EXCEPT !.panic = TRUE] /\ GotoW("idle") /\ UNCHANGED mined
          ELSE \/ /\ watcher' = [watcher EXCEPT !.used[r] = @ + 1, !.claims = Append(@, claim)]
                  /\ mined' = IF NbInputs(r) = 1 THEN mined
                              ELSE [mined EXCEPT !.sent = @ \cup {<<"conn", r, ConnectorTx(NbInputs(r), i)>>}]
                  /\ wpc' = [wpc EXCEPT !.todo = @ \ {v}]
               \/ \* a read fails, or making or broadcasting the package
                  /\ wmode.fails /\ mined.faults < MaxWatchFaults
                  /\ watcher' \in {watcher, [watcher EXCEPT !.used[r] = @ + 1]}
                  /\ mined' = [mined EXCEPT !.faults = @ + 1]
                  /\ GotoW("progress")
    /\ UNCHANGED <<wmode, tables>>

(* The vtxos that were confirmed at the start of the loop are dropped.       *)
HandleEnd ==
    /\ wpc.pc = "handle" /\ wpc.todo = {}
    /\ watcher' = [watcher EXCEPT !.exits = @ \ wpc.confirmed]
    /\ GotoW("progress")
    /\ UNCHANGED <<wmode, tables, mined>>

(* Vec::swap_remove *)
SwapRemove(s, i) == SubSeq(IF i = Len(s) THEN s ELSE [s EXCEPT ![i] = s[Len(s)]], 1, Len(s) - 1)

(* progress_claim for the claim at idx                                      *)
ProgressClaim ==
    /\ wpc.pc = "progress" /\ wpc.idx <= Len(watcher.claims)
    /\ LET c == watcher.claims[wpc.idx]
           r == RoundOf(c.vtxo)
           skip == wpc' = [wpc EXCEPT !.idx = @ + 1]
       IN \/ /\ <<c.vtxo, c.conn>> \in mined.forfeits
             /\ watcher' = [watcher EXCEPT !.claims = SwapRemove(@, wpc.idx)]
             /\ UNCHANGED <<mined, wpc>>
          \/ /\ <<c.vtxo, c.conn>> \notin mined.forfeits
             /\ c.cpfp \/ (NbInputs(r) > 1 /\ ~ConnectorMined(r, c.conn))
             /\ skip /\ UNCHANGED <<mined, watcher>>
          \/ \* "connector tx should be confirmed"
             /\ ~c.cpfp /\ NbInputs(r) = 1 /\ r \notin mined.rounds
             /\ watcher' = [watcher EXCEPT !.panic = TRUE] /\ GotoW("idle") /\ UNCHANGED mined
          \/ /\ ~c.cpfp /\ ConnectorMined(r, c.conn)
             /\ watcher' = [watcher EXCEPT !.claims[wpc.idx].cpfp = TRUE]
             /\ mined' = [mined EXCEPT !.sent = @ \cup {<<"forfeit", c.vtxo, c.conn>>}]
             /\ skip
          \/ /\ ~c.cpfp /\ ConnectorMined(r, c.conn) /\ wmode.fails /\ mined.faults < MaxWatchFaults
             /\ mined' = [mined EXCEPT !.faults = @ + 1]
             /\ GotoW("idle") /\ UNCHANGED watcher
    /\ UNCHANGED <<wmode, tables>>

ProgressEnd ==
    /\ wpc.pc = "progress" /\ wpc.idx > Len(watcher.claims)
    /\ GotoW("idle")
    /\ UNCHANGED <<wmode, tables, mined, watcher>>

(* rounds and claims are not loaded from the database (TODO in the code).   *)
RestartWatcher ==
    /\ wmode.crash /\ ~mined.crashed
    /\ mined' = [mined EXCEPT !.crashed = TRUE]
    /\ watcher' = NewProcess
    /\ GotoW("start")
    /\ UNCHANGED <<wmode, tables>>

WatchStep ==
    \/ LoadState \/ FetchAllForfeited \/ LoadFirst \/ LoadFresh \/ Detect
    \/ (\E v \in FfVtxos : HandleExitTx(v)) \/ HandleEnd \/ ProgressClaim \/ ProgressEnd

WatchNext == WatchStep \/ FfChain \/ StoreRound \/ (\E v \in FfVtxos : MineExit(v)) \/ RestartWatcher

WatchSpec == WatchInit /\ [][WatchNext]_watchVars

(***************************************************************************)
(* Properties                                                              *)
(***************************************************************************)
WatchTypeOK ==
    /\ tables \in 0 .. Len(Forfeited) /\ watcher.last \in 0 .. tables
    /\ watcher.exits \subseteq FfVtxos
    /\ \A c \in Range(watcher.claims) : c.vtxo \in FfVtxos /\ c.conn \in 0 .. NbInputs(RoundOf(c.vtxo)) - 1

(* Without a restart, no two forfeit transactions are made for one          *)
(* connector, although broadcasts fail and exits are handled again.          *)
ConnectorsDistinct ==
    ~wmode.crash => \A f, g \in mined.sent :
        f[1] = "forfeit" /\ g[1] = "forfeit" /\ RoundOf(f[2]) = RoundOf(g[2]) /\ f[3] = g[3]
            => f[2] = g[2]

(* If broadcasts succeed and round transactions are confirmed before the    *)
(* exits, no expectation of the code fails ("asked for too many             *)
(* connectors", "connector tx should be confirmed").                        *)
WatcherAlive == ~wmode.fails /\ wmode.prompt /\ ~wmode.crash => ~watcher.panic

(* Between two wakings, every vtxo forfeited in a round up to the last one  *)
(* that was read is watched or claimed, however rounds and reads interleave. *)
WatchComplete ==
    wpc.pc = "idle" /\ wmode.rounds > 0 /\ ~watcher.panic =>
        ForfeitedUpTo(watcher.last) \subseteq
            watcher.exits \cup {c.vtxo : c \in Range(watcher.claims)} \cup {f[1] : f \in mined.forfeits}

(* A forfeited vtxo that is exited is claimed in the end.                    *)
ForfeitsClaimed ==
    \A v \in FfVtxos : ~wmode.fails /\ wmode.prompt /\ ~wmode.crash /\ wmode.rounds > 0 /\ v \in mined.exits
        ~> \E f \in mined.forfeits : f[1] = v

(* The same, if no round was stored before the first start: not met, since  *)
(* only the newest round is read then.                                       *)
FirstRoundsWatched ==
    wpc.pc = "idle" /\ ~watcher.panic =>
        ForfeitedUpTo(watcher.last) \subseteq
            watcher.exits \cup {c.vtxo : c \in Range(watcher.claims)} \cup {f[1] : f \in mined.forfeits}
=============================================================================
