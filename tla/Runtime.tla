------------------------------ MODULE Runtime ------------------------------
(***************************************************************************)
(* Start and shutdown of captaind and watchmand: RuntimeManager            *)
(* (server/src/system.rs), Server::start and Watchman::start, and the loops *)
(* of the critical workers.  A spawned task registers itself as a worker   *)
(* when it first runs, not when it is spawned.                             *)
(***************************************************************************)
EXTENDS Integers, Sequences, FiniteSets

CONSTANTS
    Services,       \* the critical workers, in the order in which they start
    RtModes         \* scenarios: which workers hang, whether starting may fail

ASSUME RtAssumption == Services \in Seq(STRING) /\ Len(Services) > 0

VARIABLES
    rtMode,         \* the scenario
    rt,             \* shutdown, the number of workers, the next service to start
    svc,            \* the services
    waiter,         \* Server::wait
    listener,       \* run_shutdown_signal_listener
    exited          \* the process has ended

rtVars == <<rtMode, rt, svc, waiter, listener, exited>>

(* The critical workers of captaind and of watchmand, in the order of their  *)
(* start. The sweeper, the forfeit watcher and two of captaind's RPC servers  *)
(* are optional there.                                                        *)
CaptaindServices ==
    <<"TxIndex", "TxNursery", "VtxoSweeper", "ForfeitWatcher", "TipFetcher", "ClnManager",
      "RoundCoordinator", "VtxoPool", "PublicRpcServer", "AdminRpcServer", "IntegrationRpcServer">>
WatchmandServices == <<"TxIndex", "TxNursery", "VtxoSweeper", "ForfeitWatcher">>

Svcs == 1 .. Len(Services)

(* spawn("Bootstrapping") has been called.                                   *)
RtInit ==
    /\ rtMode \in RtModes
    /\ rt = [shutdown |-> FALSE, workers |-> 1, next |-> 1]
    /\ svc = [s \in Svcs |-> "none"]
    /\ waiter = "off" /\ listener = "idle" /\ exited = FALSE

(* notify_waiters reaches only a future that exists already.                 *)
Notified == IF waiter = "listening" THEN "check" ELSE waiter

(***************************************************************************)
(* Server::start and Watchman::start                                       *)
(***************************************************************************)
StartService ==
    /\ ~exited /\ rt.next \in Svcs
    /\ \/ /\ svc' = [svc EXCEPT ![rt.next] = "spawned"]
          /\ rt' = [rt EXCEPT !.next = @ + 1]
          /\ UNCHANGED exited
       \/ /\ rtMode.fails /\ exited' = TRUE
          /\ UNCHANGED <<svc, rt>>
    /\ UNCHANGED <<rtMode, waiter, listener>>

(* rtMode.prompt: the first service has run before start returns.            *)
StartReturns ==
    /\ ~exited /\ rt.next = Len(Services) + 1
    /\ rtMode.prompt => svc[1] # "spawned"
    /\ rt' = [rt EXCEPT !.workers = @ - 1, !.next = @ + 1]
    /\ waiter' = "check"
    /\ UNCHANGED <<rtMode, svc, listener, exited>>

(* inner_spawn *)
RegisterWorker(s) ==
    /\ ~exited /\ svc[s] = "spawned"
    /\ svc' = [svc EXCEPT ![s] = "running"]
    /\ rt' = [rt EXCEPT !.workers = @ + 1]
    /\ waiter' = Notified
    /\ UNCHANGED <<rtMode, listener, exited>>

(* drop_worker: the count first, then the notification, then the signal      *)
DropWorker(s) ==
    /\ ~exited /\ svc[s] = "running"
    /\ (rt.shutdown /\ s \notin rtMode.stuck) \/ s \in rtMode.breaks
    /\ svc' = [svc EXCEPT ![s] = "dropped"]
    /\ rt' = [rt EXCEPT !.workers = @ - 1]
    /\ UNCHANGED <<rtMode, waiter, listener, exited>>

DropNotifies(s) ==
    /\ ~exited /\ svc[s] = "dropped"
    /\ svc' = [svc EXCEPT ![s] = "notified"]
    /\ waiter' = Notified
    /\ UNCHANGED <<rtMode, rt, listener, exited>>

DropShutsDown(s) ==
    /\ ~exited /\ svc[s] = "notified"
    /\ svc' = [svc EXCEPT ![s] = "ended"]
    /\ rt' = [rt EXCEPT !.shutdown = TRUE]
    /\ UNCHANGED <<rtMode, waiter, listener, exited>>

(***************************************************************************)
(* wait and the signal listener                                            *)
(***************************************************************************)
(* Faulty variant: wait does not count the last worker. *)
WaitChecksLast ==
    /\ ~exited /\ waiter = "check"
    /\ IF rt.workers <= 1 THEN waiter' = "returned" /\ exited' = TRUE
                          ELSE waiter' = "checked" /\ UNCHANGED exited
    /\ UNCHANGED <<rtMode, rt, svc, listener>>

WaitChecks ==
    /\ ~exited /\ waiter = "check"
    /\ IF rt.workers = 0 THEN waiter' = "returned" /\ exited' = TRUE
                         ELSE waiter' = "checked" /\ UNCHANGED exited
    /\ UNCHANGED <<rtMode, rt, svc, listener>>

WaitListens ==
    /\ ~exited /\ waiter = "checked"
    /\ waiter' = "listening"
    /\ UNCHANGED <<rtMode, rt, svc, listener, exited>>

SignalReceived ==
    /\ ~exited /\ listener = "idle"
    /\ listener' = "polling"
    /\ rt' = [rt EXCEPT !.shutdown = TRUE]
    /\ UNCHANGED <<rtMode, svc, waiter, exited>>

(* The deadline has passed, or shutdown_done.                                *)
ListenerPolls ==
    /\ ~exited /\ listener = "polling"
    /\ IF rt.workers = 0 THEN listener' = "ended" /\ UNCHANGED exited
                         ELSE exited' = TRUE /\ UNCHANGED listener
    /\ UNCHANGED <<rtMode, rt, svc, waiter>>

ServiceStep(s) == RegisterWorker(s) \/ DropWorker(s) \/ DropNotifies(s) \/ DropShutsDown(s)

WaitStep == WaitChecks \/ WaitListens

RtStep ==
    \/ StartService \/ StartReturns \/ WaitStep \/ ListenerPolls
    \/ \E s \in Svcs : ServiceStep(s)

RtNext == RtStep \/ SignalReceived

RtSpec == RtInit /\ [][RtNext]_rtVars

(***************************************************************************)
(* Properties                                                              *)
(***************************************************************************)
RtTypeOK ==
    /\ svc \in [Svcs -> {"none", "spawned", "running", "dropped", "notified", "ended"}]
    /\ waiter \in {"off", "check", "checked", "listening", "returned"}
    /\ listener \in {"idle", "polling", "ended"}

(* assert_ne!(old, 0): the count is exactly the start-up worker and the      *)
(* registered workers, so it never falls below zero.                         *)
WorkersCounted ==
    rt.workers = (IF rt.next <= Len(Services) + 1 THEN 1 ELSE 0) + Cardinality({s \in Svcs : svc[s] = "running"})

(* If the first service has run before start returns, wait does not return   *)
(* while the server should serve: a critical worker ended, or a signal came. *)
WaitSound ==
    waiter = "returned" /\ rtMode.prompt =>
        rt.shutdown \/ \E s \in Svcs : svc[s] \in {"dropped", "notified", "ended"}

(* The runtime's count of workers is right, and wait relies on it            *)
(* (system.rs).                                                              *)
RuntimeSound == WorkersCounted /\ WaitSound

(* "When a critical worker ends, shutdown will be triggered": it takes all  *)
(* workers down with it, also the ones that register only afterwards.       *)
CriticalStopsAll ==
    rtMode.stuck = {} /\ ~exited /\ (\E s \in Svcs : svc[s] = "dropped")
        ~> exited \/ \A s \in Svcs : svc[s] = "ended"

(* A worker that hangs is overruled after a signal, if all have registered   *)
(* by then. (The listener gives up as soon as the count is zero once.)       *)
SignalStopsAll ==
    listener = "polling" /\ (\A s \in Svcs : svc[s] \notin {"none", "spawned"})
        ~> exited \/ \A s \in Svcs : svc[s] = "ended"

(* "Wait for shutdown to finish.": not met. If the last worker is dropped   *)
(* after the check and before the future exists, wait never returns.         *)
WaitReturns == (~exited /\ \A s \in Svcs : svc[s] = "ended") ~> exited
=============================================================================
