---------------------------- MODULE NodeManager ----------------------------
(***************************************************************************)
(* The manager of CLN nodes (server/src/ln/cln/mod.rs) and the life of a   *)
(* ClnNodeMonitor (node.rs); what the monitor does is in LnPayment and     *)
(* LnReceive.  Also ClnManager::get_payment_status, which waits for one.   *)
(***************************************************************************)
EXTENDS Integers, FiniteSets

CONSTANTS
    ClnNodes,       \* the configured nodes
    Priority,       \* config.priority of each
    WithHold,       \* the nodes with a hold plugin
    MaxNodeFaults,  \* times a node breaks, or is disabled or enabled
    NodeModes       \* whether operators disable nodes, and nodes are invalid

ASSUME NodeAssumption == MaxNodeFaults \in Nat /\ \A n \in ClnNodes : Priority[n] \in Nat

VARIABLES
    ndMode,
    node,           \* ClnNodeInfo.state, its monitors, whether it answers
    checking,       \* nodes check_nodes has not visited yet
    waker,          \* a notification for the manager
    sub,            \* an htlc subscription: its node, and what became of it
    pay,            \* a payment attempt's status
    status,         \* the get_payment_status call
    ndFaults

ndVars == <<ndMode, node, checking, waker, sub, pay, status, ndFaults>>

NdInit ==
    /\ ndMode \in NodeModes
    /\ node = [n \in ClnNodes |-> [state |-> "offline", up |-> TRUE, monitors |-> 0, finished |-> FALSE]]
    /\ checking = {} /\ waker = FALSE
    /\ sub = [node |-> {}, state |-> "none"]
    /\ pay = "open" /\ status = [pc |-> "off", update |-> FALSE]
    /\ ndFaults = 0

Online == {n \in ClnNodes : node[n].state = "online"}

(* min_by_key over the priority; the map's order decides among equals.       *)
Active(set) == {n \in set : \A m \in set : Priority[n] <= Priority[m]}

(***************************************************************************)
(* check_nodes, on an interval or when a monitor's worker is dropped       *)
(***************************************************************************)
CheckBegins ==
    /\ checking = {}
    /\ checking' = ClnNodes /\ waker' = FALSE
    /\ UNCHANGED <<ndMode, node, sub, pay, status, ndFaults>>

(* The monitor's task has ended: with an error, or without one.              *)
CheckOnline(n) ==
    /\ n \in checking /\ node[n].state = "online"
    /\ IF node[n].finished
         THEN \E st \in {"error", "offline"} : node' = [node EXCEPT ![n] = [@ EXCEPT !.state = st, !.finished = FALSE]]
         ELSE UNCHANGED node
    /\ checking' = checking \ {n}
    /\ UNCHANGED <<ndMode, waker, sub, pay, status, ndFaults>>

(* try_connect: a wrong network or key makes the node invalid.               *)
TryConnect(n) ==
    /\ n \in checking /\ node[n].state \in {"offline", "error"}
    /\ node' = IF ~node[n].up THEN node
               ELSE IF n \in ndMode.invalid THEN [node EXCEPT ![n].state = "invalid"]
               ELSE [node EXCEPT ![n] = [@ EXCEPT !.state = "online", !.monitors = node[n].monitors + 1]]
    /\ checking' = checking \ {n}
    /\ UNCHANGED <<ndMode, waker, sub, pay, status, ndFaults>>

CheckOther(n) ==
    /\ n \in checking /\ node[n].state \in {"invalid", "disabled"}
    /\ checking' = checking \ {n}
    /\ UNCHANGED <<ndMode, node, waker, sub, pay, status, ndFaults>>

CheckNode(n) == CheckOnline(n) \/ TryConnect(n) \/ CheckOther(n)

(***************************************************************************)
(* Monitors                                                                *)
(***************************************************************************)
(* An error of a monitor, or the drop of its ctrl_tx, ends it: the worker is *)
(* dropped, which notifies, before the task counts as finished.               *)
MonitorEnds(n) ==
    /\ node[n].monitors > 0
    /\ ~node[n].up \/ node[n].state # "online"
    /\ node' = [node EXCEPT ![n] = [@ EXCEPT !.monitors = node[n].monitors - 1,
                                          !.finished = node[n].state = "online"]]
    /\ waker' = TRUE
    /\ UNCHANGED <<ndMode, checking, sub, pay, status, ndFaults>>

NodeBreaks(n) ==
    /\ node[n].up /\ ndFaults < MaxNodeFaults
    /\ node' = [node EXCEPT ![n].up = FALSE]
    /\ ndFaults' = ndFaults + 1
    /\ UNCHANGED <<ndMode, checking, waker, sub, pay, status>>

NodeReturns(n) ==
    /\ ~node[n].up
    /\ node' = [node EXCEPT ![n].up = TRUE]
    /\ UNCHANGED <<ndMode, checking, waker, sub, pay, status, ndFaults>>

(***************************************************************************)
(* Control messages, handled between checks                                *)
(***************************************************************************)
DisableNode(n) ==
    /\ checking = {} /\ ndMode.operator /\ ndFaults < MaxNodeFaults
    /\ node[n].state \in {"online", "error", "offline"}
    /\ node' = [node EXCEPT ![n] = [@ EXCEPT !.state = "disabled", !.finished = FALSE]]
    /\ ndFaults' = ndFaults + 1
    /\ UNCHANGED <<ndMode, checking, waker, sub, pay, status>>

(* "was disabled and is now enabled": the new state is Disabled.             *)
EnableNode(n) ==
    /\ checking = {} /\ ndMode.operator /\ ndFaults < MaxNodeFaults
    /\ node[n].state = "disabled"
    /\ node' = [node EXCEPT ![n].state = "disabled"]
    /\ ndFaults' = ndFaults + 1
    /\ UNCHANGED <<ndMode, checking, waker, sub, pay, status>>

GenerateInvoice(n) ==
    /\ checking = {} /\ sub.state = "none"
    /\ n \in Active(Online \cap WithHold)
    /\ sub' = [node |-> {n}, state |-> "created"]
    /\ UNCHANGED <<ndMode, node, checking, waker, pay, status, ndFaults>>

(* settle_invoice and cancel_invoice go to the node of the subscription.     *)
ReleaseInvoice(n, how) ==
    /\ checking = {} /\ sub.state = "created" /\ n \in sub.node
    /\ n \in Online /\ node[n].up
    /\ sub' = [sub EXCEPT !.state = how]
    /\ UNCHANGED <<ndMode, node, checking, waker, pay, status, ndFaults>>

(***************************************************************************)
(* get_payment_status                                                      *)
(***************************************************************************)
(* The monitor or the pay task stores a final status, then announces it.     *)
PayEnds ==
    /\ pay = "open"
    /\ \E st \in {"succeeded", "failed"} : pay' = st
    /\ \E arrives \in BOOLEAN : status' = [status EXCEPT !.update = arrives /\ status.pc = "wait"]
    /\ UNCHANGED <<ndMode, node, checking, waker, sub, ndFaults>>

AskStatus ==
    /\ status.pc = "off"
    /\ status' = [pc |-> "wait", update |-> FALSE]
    /\ UNCHANGED <<ndMode, node, checking, waker, sub, pay, ndFaults>>

(* An update, or the tick of poll_interval: the row is read again.            *)
PollStatus ==
    /\ status.pc = "wait"
    /\ status' = [pc |-> IF pay = "open" THEN "wait" ELSE pay, update |-> FALSE]
    /\ UNCHANGED <<ndMode, node, checking, waker, sub, pay, ndFaults>>

NdNext ==
    \/ CheckBegins \/ PayEnds \/ AskStatus \/ PollStatus
    \/ \E n \in ClnNodes :
        \/ CheckNode(n) \/ MonitorEnds(n) \/ NodeBreaks(n) \/ NodeReturns(n) \/ DisableNode(n) \/ EnableNode(n)
        \/ GenerateInvoice(n) \/ \E how \in {"settled", "canceled"} : ReleaseInvoice(n, how)

NdSpec == NdInit /\ [][NdNext]_ndVars

(***************************************************************************)
(* Properties                                                              *)
(***************************************************************************)
NdTypeOK ==
    /\ \A n \in ClnNodes : /\ node[n].state \in {"offline", "online", "error", "invalid", "disabled"}
                           /\ node[n].monitors \in Nat
    /\ checking \subseteq ClnNodes /\ sub.node \subseteq WithHold

(* No node is watched by two monitors, which would each process its events;  *)
(* and a node is used only while it has a monitor or its monitor just ended. *)
OneMonitor ==
    \A n \in ClnNodes : /\ node[n].monitors <= 1
                        /\ node[n].state = "online" => node[n].monitors = 1 \/ node[n].finished

(* A node whose monitor failed is used again once it answers, unless an      *)
(* operator disabled it.                                                      *)
NodesRecover ==
    \A n \in ClnNodes : node[n].state = "error" ~> node[n].state \in {"online", "disabled", "invalid"}

(* A subscription's HTLCs are settled or released in the end, although only  *)
(* one node can do it and that node may be away.                              *)
InvoiceReleased == ~ndMode.operator /\ sub.state = "created" ~> sub.state \in {"settled", "canceled"}

(* A caller that waits for a payment gets its final status, also if the      *)
(* update was missed.                                                         *)
StatusReturned == status.pc = "wait" /\ pay # "open" ~> status.pc = pay

(* "ClnNode with {uri} was disabled and is now enabled.": not met.           *)
EnableWorks == [][\A n \in ClnNodes : EnableNode(n) => node'[n].state # "disabled"]_ndVars
=============================================================================
