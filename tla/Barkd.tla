------------------------------- MODULE Barkd -------------------------------
(***************************************************************************)
(* The process barkd: the tasks of the wallet's daemon (bark/src/daemon.rs) *)
(* and the handlers of its REST interface (bark-rest/src/api/v1/).  They    *)
(* share the on-chain wallet and the exits, each behind a RwLock that is    *)
(* held until the function returns.  A function is the sequence of locks    *)
(* that it takes; what it does with them is in the other modules.           *)
(***************************************************************************)
EXTENDS Integers, Sequences, FiniteSets

CONSTANTS
    Requests,       \* requests to the REST interface
    RequestKinds,   \* the handlers they may ask for
    MaxBreaks       \* failures of the connection and of the event stream

ASSUME BarkdAssumption == MaxBreaks \in Nat

VARIABLES
    locks,          \* for each lock, the tasks that hold it
    job,            \* where each task is and what it has to take yet
    daemon          \* connected, shutdown, and the failures so far

barkdVars == <<locks, job, daemon>>

Locks == {"onchain", "exit"}

DaemonTasks == {"check", "events", "sync", "maintenance"}

Tasks == DaemonTasks \cup Requests

Write(l) == [lock |-> l, write |-> TRUE]
Read(l) == [lock |-> l, write |-> FALSE]

(***************************************************************************)
(* The functions                                                           *)
(***************************************************************************)

(* try_claim_all_lightning_receives and sync_pending_lightning_send_vtxos   *)
(* start exits of HTLC vtxos.                                                *)
RunLightningSync == {<<>>, <<Write("exit")>>}

RunArkoorsSync == {<<>>}
RunBoardsSync == {<<>>}
RunOnchainSync == {<<Write("onchain")>>}
RunExits == {<<Write("onchain"), Write("exit")>>}

ExitStatus == <<Write("exit")>>
AllExitStatus == <<Write("exit")>>
ExitStartVtxos == <<Write("exit")>>
ExitStartAll == <<Write("exit")>>
ExitProgress == <<Write("onchain"), Write("exit")>>
(* inner_claim_vtxos takes the on-chain wallet while the exits are locked.  *)
ExitClaimAll == <<Read("exit"), Write("onchain")>>
ExitClaimVtxos == <<Read("exit"), Write("onchain")>>
BoardAmount == <<Write("onchain")>>
BoardAll == <<Write("onchain")>>
OnchainBalance == <<Read("onchain")>>
OnchainAddress == <<Write("onchain")>>
OnchainSend == <<Write("onchain")>>
OnchainSendMany == <<Write("onchain")>>
OnchainDrain == <<Write("onchain")>>
OnchainUtxos == <<Read("onchain")>>
OnchainTransactions == <<Read("onchain")>>
OnchainSync == <<Write("onchain")>>
OffboardVtxos == <<Write("onchain")>>
OffboardAll == <<Write("onchain")>>

Handlers ==
    [exit_status |-> ExitStatus, all_exit_status |-> AllExitStatus, exit_start_vtxos |-> ExitStartVtxos,
     exit_start_all |-> ExitStartAll, exit_progress |-> ExitProgress,
     exit_claim_all |-> ExitClaimAll, exit_claim_vtxos |-> ExitClaimVtxos,
     board_amount |-> BoardAmount, board_all |-> BoardAll,
     onchain_balance |-> OnchainBalance, onchain_address |-> OnchainAddress, onchain_send |-> OnchainSend,
     onchain_send_many |-> OnchainSendMany, onchain_drain |-> OnchainDrain, onchain_utxos |-> OnchainUtxos,
     onchain_transactions |-> OnchainTransactions, onchain_sync |-> OnchainSync,
     offboard_vtxos |-> OffboardVtxos, offboard_all |-> OffboardAll]

(***************************************************************************)
(* The tasks                                                               *)
(***************************************************************************)
Waiting(next) == [pc |-> "wait", todo |-> <<>>, then |-> <<>>, next |-> next]

(* A function that takes the locks todo, then further functions, then next  *)
Running(todo, then, next) == [pc |-> "run", todo |-> todo, then |-> then, next |-> next]

Ended == [pc |-> "end", todo |-> <<>>, then |-> <<>>, next |-> "end"]

BarkdInit ==
    /\ locks = [l \in Locks |-> {}]
    /\ daemon \in [connected : BOOLEAN, shutdown : {FALSE}, breaks : {0}]
    /\ job = [t \in Tasks |-> CASE t = "maintenance" -> Running(<<>>, <<>>, "wait")
                                [] t = "events" -> Waiting("top")
                                [] t \in {"check", "sync"} -> Waiting("wait")
                                [] OTHER -> Waiting("request")]

(* The RwLock grants a reader unless a writer has it, and a writer if none.  *)
Granted(r) == locks[r.lock] = {} \/ (~r.write /\ \A h \in locks[r.lock] : ~h.write)

Acquire(t) ==
    /\ job[t].pc = "run"
    /\ job[t].todo # <<>>
    /\ Granted(Head(job[t].todo))
    /\ locks' = [locks EXCEPT ![Head(job[t].todo).lock] = @ \cup {[task |-> t, write |-> Head(job[t].todo).write]}]
    /\ job' = [job EXCEPT ![t].todo = Tail(@)]
    /\ UNCHANGED daemon

(* The function returns and drops its guards.                               *)
Return(t) ==
    /\ job[t].pc = "run"
    /\ job[t].todo = <<>>
    /\ locks' = [l \in Locks |-> {h \in locks[l] : h.task # t}]
    /\ job' = [job EXCEPT ![t] = IF job[t].then # <<>>
                                   THEN Running(Head(job[t].then), Tail(job[t].then), job[t].next)
                                   ELSE Waiting(job[t].next)]
    /\ UNCHANGED daemon

Break(d) == [d EXCEPT !.breaks = @ + 1]

(* run_server_connection_check_process                                      *)
ConnectionCheck ==
    /\ job["check"] = Waiting("wait")
    /\ \/ daemon' = [daemon EXCEPT !.connected = TRUE]
       \/ daemon.breaks < MaxBreaks /\ daemon' = Break([daemon EXCEPT !.connected = FALSE])
    /\ UNCHANGED <<locks, job>>

(* run_round_events_process at the head of its loop, connected or not       *)
EventsTop ==
    /\ job["events"] = Waiting("top")
    /\ job' = [job EXCEPT !["events"] = Waiting(IF daemon.connected THEN "stream" ELSE "wait")]
    /\ UNCHANGED <<locks, daemon>>

(* inner_process_pending_rounds: an event, or the stream breaks             *)
EventsStream ==
    /\ job["events"] = Waiting("stream")
    /\ \/ job' = [job EXCEPT !["events"] = Running(<<>>, <<>>, "stream")] /\ UNCHANGED daemon
       \/ /\ daemon.breaks < MaxBreaks
          /\ daemon' = Break(daemon)
          /\ job' = [job EXCEPT !["events"] = Waiting("wait")]
    /\ UNCHANGED locks

(* The sleep before the next subscription                                   *)
EventsWait ==
    /\ job["events"] = Waiting("wait")
    /\ job' = [job EXCEPT !["events"] = Waiting("top")]
    /\ UNCHANGED <<locks, daemon>>

MaintenanceWait ==
    /\ job["maintenance"] = Waiting("wait")
    /\ job' = [job EXCEPT !["maintenance"] = Running(<<>>, <<>>, "wait")]
    /\ UNCHANGED <<locks, daemon>>

(* run_sync_processes: a tick of one of the intervals                        *)
Tick(first, then) ==
    /\ job["sync"] = Waiting("wait")
    /\ daemon.connected
    /\ \E todo \in first : job' = [job EXCEPT !["sync"] = Running(todo, then, "wait")]
    /\ UNCHANGED <<locks, daemon>>

FastTick == Tick(RunLightningSync, <<>>)
MediumTick == \E boards \in RunBoardsSync : Tick(RunArkoorsSync, <<boards>>)
SlowTick == \E exits_ \in RunExits : Tick(RunOnchainSync, <<exits_>>)

(* Faulty variant: the shutdown is seen only without a connection. *)
LeaveStreamOffline ==
    /\ daemon.shutdown /\ ~daemon.connected
    /\ job["events"] = Waiting("stream")
    /\ job' = [job EXCEPT !["events"] = Waiting("wait")]
    /\ UNCHANGED <<locks, daemon>>

(* The shutdown branch of the select in inner_process_pending_rounds        *)
LeaveStream ==
    /\ daemon.shutdown
    /\ job["events"] = Waiting("stream")
    /\ job' = [job EXCEPT !["events"] = Waiting("wait")]
    /\ UNCHANGED <<locks, daemon>>

(* The shutdown branch of the select that each task sleeps in               *)
SeeShutdown(t) ==
    /\ daemon.shutdown
    /\ t \in DaemonTasks
    /\ job[t] = Waiting("wait")
    /\ job' = [job EXCEPT ![t] = Ended]
    /\ UNCHANGED <<locks, daemon>>

(* SIGTERM or ctrl-c                                                        *)
Shutdown ==
    /\ ~daemon.shutdown
    /\ daemon' = [daemon EXCEPT !.shutdown = TRUE]
    /\ UNCHANGED <<locks, job>>

(* A request is served by one handler; after the shutdown none is accepted. *)
Request(r) ==
    /\ job[r] = Waiting("request")
    /\ ~daemon.shutdown
    /\ \E k \in RequestKinds : job' = [job EXCEPT ![r] = Running(Handlers[k], <<>>, "done")]
    /\ UNCHANGED <<locks, daemon>>

(* All tasks have ended: "Daemon gracefully stopped".                       *)
Stopped == \A t \in DaemonTasks : job[t] = Ended

Rest == Stopped /\ (\A r \in Requests : job[r].pc # "run") /\ UNCHANGED barkdVars

TaskNext(t) == Acquire(t) \/ Return(t) \/ SeeShutdown(t)

BarkdNext ==
    \/ \E t \in Tasks : TaskNext(t)
    \/ ConnectionCheck \/ EventsTop \/ EventsStream \/ EventsWait \/ MaintenanceWait
    \/ FastTick \/ MediumTick \/ SlowTick
    \/ Shutdown \/ LeaveStream
    \/ \E r \in Requests : Request(r)
    \/ Rest

BarkdSpec == BarkdInit /\ [][BarkdNext]_barkdVars

(***************************************************************************)
(* Fairness: functions return; the locks are granted in turn; tokio's select *)
(* picks among ready branches at random.  A request takes its locks once and *)
(* a task ends once, so one condition covers all of them.                    *)
(***************************************************************************)
OnceSteps == (\E r \in Requests : Acquire(r)) \/ (\E t \in DaemonTasks : SeeShutdown(t))

(* What a task gets to again and again                                      *)
RepeatedSteps == LeaveStream \/ (~daemon.shutdown /\ SlowTick)

BarkdFairness ==
    /\ \A t \in Tasks : WF_barkdVars(Return(t))
    /\ WF_barkdVars(Acquire("sync")) /\ WF_barkdVars(EventsTop)
    /\ SF_barkdVars(OnceSteps) /\ SF_barkdVars(RepeatedSteps)

(***************************************************************************)
(* Properties                                                              *)
(***************************************************************************)
BarkdTypeOK ==
    /\ \A l \in Locks : \A h \in locks[l] : h.task \in Tasks /\ h.write \in BOOLEAN
    /\ daemon.connected \in BOOLEAN /\ daemon.shutdown \in BOOLEAN /\ daemon.breaks \in 0 .. MaxBreaks
    /\ \A t \in Tasks : job[t].pc \in {"wait", "run", "end"}

(* A request that is being served is answered: the handlers and the         *)
(* daemon's tasks do not wait for each other's locks for ever.              *)
RequestsAnswered == \A r \in Requests : job[r].pc = "run" ~> job[r].pc # "run"

(* After a shutdown the daemon ends all its tasks: "Daemon gracefully       *)
(* stopped" (daemon.rs).                                                    *)
ShutdownStops == daemon.shutdown ~> Stopped

(* While the server answers, exits are progressed again and again.          *)
ExitsRun == daemon.connected /\ ~daemon.shutdown ~> \/ \E h \in locks["exit"] : h.task = "sync"
                                                    \/ daemon.shutdown \/ ~daemon.connected

(* The daemon and the REST handlers share the wallet's locks and all get    *)
(* on: requests are answered, exits are progressed, a shutdown stops it.    *)
DaemonServes == RequestsAnswered /\ ShutdownStops /\ ExitsRun
=============================================================================
