--------------------------- MODULE ServicesProofs ---------------------------
(***************************************************************************)
(* What TLAPS proves about the runtime manager and the manager of the      *)
(* lightning nodes, and with the proofs about the forfeit watcher and the  *)
(* mailbox that ServicesSound holds.                                       *)
(***************************************************************************)
EXTENDS WatcherProofs, MailboxProofs, Runtime, NodeManager

(***************************************************************************)
(* Runtime, for any services and any scenario.                             *)
(***************************************************************************)
Running == {s \in Svcs : svc[s] = "running"}
Ended == {"dropped", "notified", "ended"}

(* Services are spawned in order; start has returned when wait is called. *)
Starts ==
    /\ rt = [shutdown |-> rt.shutdown, workers |-> rt.workers, next |-> rt.next]
    /\ rt.next \in 1 .. Len(Services) + 2 /\ rt.workers \in Int /\ rt.shutdown \in BOOLEAN
    /\ svc \in [Svcs -> {"none", "spawned", "running"} \cup Ended]
    /\ \A s \in Svcs : s < rt.next <=> svc[s] # "none"
    /\ waiter # "off" => rt.next = Len(Services) + 2

(* The first service of a prompt start has registered before wait is called. *)
FirstRan == waiter # "off" /\ rtMode.prompt => svc[1] \in {"running"} \cup Ended

RtInv == Starts /\ FirstRan /\ WorkersCounted /\ WaitSound

LEMMA ServiceFacts == Len(Services) \in Nat /\ Len(Services) > 0 /\ 1 \in Svcs
  BY RtAssumption DEF Svcs

LEMMA RunningFinite == IsFiniteSet(Running)
  <1>1. IsFiniteSet(Svcs)
    BY ServiceFacts, FS_Interval DEF Svcs
  <1> QED
    BY <1>1, FS_Subset DEF Running

(* One service more, or one less, among the running ones. *)
LEMMA RunningAdded ==
    ASSUME Starts, NEW s \in Svcs, svc[s] # "running", svc' = [svc EXCEPT ![s] = "running"]
    PROVE  Cardinality(Running)' = Cardinality(Running) + 1
  <1>1. Running' = Running \cup {s} /\ s \notin Running
    BY DEF Running, Starts
  <1> QED
    BY <1>1, RunningFinite, FS_AddElement, Zenon

LEMMA RunningRemoved ==
    ASSUME Starts, NEW s \in Svcs, svc[s] = "running", svc' = [svc EXCEPT ![s] = "dropped"]
    PROVE  Cardinality(Running)' = Cardinality(Running) - 1
  <1>1. Running' = Running \ {s} /\ s \in Running
    BY DEF Running, Starts
  <1> QED
    BY <1>1, RunningFinite, FS_RemoveElement, Zenon

-----------------------------------------------------------------------------
LEMMA RtInitInv == RtInit => RtInv
  <1> SUFFICES ASSUME RtInit PROVE RtInv
    OBVIOUS
  <1>1. Running = {} /\ Cardinality(Running) = 0
    BY FS_EmptySet, Zenon DEF RtInit, Running
  <1> QED
    BY <1>1, ServiceFacts DEF RtInit, RtInv, Starts, FirstRan, WorkersCounted, WaitSound,
           Running, Ended, Svcs

LEMMA RtStepInv == RtInv /\ [RtNext]_rtVars => RtInv'
  <1> SUFFICES ASSUME RtInv, [RtNext]_rtVars PROVE RtInv'
    BY Zenon
  <1> USE ServiceFacts DEF RtInv
  <1>1. CASE StartService
    <2>1. CASE UNCHANGED <<svc, rt, rtMode, waiter, listener>>
      BY <2>1 DEF Starts, FirstRan, WorkersCounted, WaitSound
    <2>2. CASE /\ rt.next \in Svcs /\ svc' = [svc EXCEPT ![rt.next] = "spawned"]
               /\ rt' = [rt EXCEPT !.next = @ + 1]
               /\ UNCHANGED <<rtMode, waiter, listener>>
      <3>1. waiter = "off" /\ rt.next <= Len(Services) /\ svc[rt.next] = "none"
        BY <2>2 DEF Starts, Svcs
      <3>2. /\ rt'.next = rt.next + 1 /\ rt'.workers = rt.workers /\ rt'.shutdown = rt.shutdown
            /\ Starts'
        BY <2>2, <3>1 DEF Starts, Ended, Svcs
      <3>3. Running' = Running
        BY <2>2, <3>1, Zenon DEF Running, Starts
      <3>4. WorkersCounted'
        <4>1. rt.next <= Len(Services) + 1 /\ rt'.next <= Len(Services) + 1
          BY <3>1, <3>2 DEF Starts
        <4> QED
          BY <3>2, <3>3, <4>1, Zenon DEF WorkersCounted, Running
      <3> QED
        BY <2>2, <3>1, <3>2, <3>4 DEF FirstRan, WaitSound
    <2> QED
      BY <1>1, <2>1, <2>2, Zenon DEF StartService
  <1>2. CASE StartReturns
    <2>1. /\ rt'.next = Len(Services) + 2 /\ rt'.workers = rt.workers - 1
          /\ rt.next = Len(Services) + 1 /\ rt'.shutdown = rt.shutdown
          /\ rt' = [shutdown |-> rt'.shutdown, workers |-> rt'.workers, next |-> rt'.next]
      <3>1. rt' = [shutdown |-> rt.shutdown, workers |-> rt.workers - 1, next |-> rt.next + 1]
        BY <1>2, Zenon DEF StartReturns, Starts
      <3>2. rt.next = Len(Services) + 1 /\ rt.next + 1 = Len(Services) + 2
        BY <1>2 DEF StartReturns
      <3> QED
        BY <3>1, <3>2, Zenon
    <2>4. \A s \in Svcs : s < Len(Services) + 1 /\ s < Len(Services) + 2
      BY DEF Svcs
    <2>5. Starts'
      BY <1>2, <2>1, <2>4 DEF StartReturns, Starts
    <2>2. FirstRan'
      BY <1>2 DEF StartReturns, Starts, FirstRan, Ended, Svcs
    <2>3. WorkersCounted'
      BY <1>2, <2>1, RunningFinite, FS_CardinalityType DEF StartReturns, WorkersCounted, Running
    <2> QED
      BY <1>2, <2>1, <2>2, <2>3, <2>5, Zenon DEF StartReturns, WaitSound
  <1>3. ASSUME NEW s \in Svcs, RegisterWorker(s) PROVE RtInv'
    <2>1. /\ svc' = [svc EXCEPT ![s] = "running"] /\ svc[s] = "spawned"
          /\ rt'.next = rt.next /\ rt'.workers = rt.workers + 1 /\ rt'.shutdown = rt.shutdown
          /\ rtMode' = rtMode /\ waiter' = Notified
      BY <1>3, Zenon DEF RegisterWorker, Starts
    <2>2. Starts'
      BY <1>3 DEF RegisterWorker, Starts, Notified, Svcs, Ended
    <2>3. Cardinality(Running)' = Cardinality(Running) + 1
      BY <2>1, RunningAdded, Zenon
    <2>4. WorkersCounted'
      BY <2>1, <2>3, RunningFinite, FS_CardinalityType DEF WorkersCounted, Running, Starts
    <2> QED
      BY <2>1, <2>2, <2>4, Zenon DEF FirstRan, WaitSound, Notified, Starts, Ended
  <1>4. ASSUME NEW s \in Svcs, DropWorker(s) PROVE RtInv'
    <2>1. /\ svc' = [svc EXCEPT ![s] = "dropped"] /\ svc[s] = "running"
          /\ rt'.next = rt.next /\ rt'.workers = rt.workers - 1 /\ rt'.shutdown = rt.shutdown
          /\ rtMode' = rtMode /\ waiter' = waiter
      BY <1>4, Zenon DEF DropWorker, Starts
    <2>2. Starts'
      BY <1>4 DEF DropWorker, Starts, Svcs, Ended
    <2>3. Cardinality(Running)' = Cardinality(Running) - 1
      BY <2>1, RunningRemoved, Zenon
    <2>4. WorkersCounted'
      BY <2>1, <2>3, RunningFinite, FS_CardinalityType DEF WorkersCounted, Running, Starts
    <2> QED
      BY <2>1, <2>2, <2>4, Zenon DEF FirstRan, WaitSound, Starts, Ended
  <1>5. ASSUME NEW s \in Svcs, DropNotifies(s) \/ DropShutsDown(s) PROVE RtInv'
    <2>1. Running' = Running /\ rt'.next = rt.next /\ rt'.workers = rt.workers
      BY <1>5, Zenon DEF DropNotifies, DropShutsDown, Running, Starts
    <2>2. Starts'
      BY <1>5, Zenon DEF DropNotifies, DropShutsDown, Notified, Starts, Svcs, Ended
    <2>3. WorkersCounted'
      BY <2>1, Zenon DEF WorkersCounted, Running
    <2> QED
      BY <1>5, <2>2, <2>3, Zenon DEF DropNotifies, DropShutsDown, Notified, FirstRan, WaitSound,
             Starts, Ended
  <1>6. CASE WaitChecks
    <2>1. UNCHANGED <<rtMode, rt, svc, listener>>
      BY <1>6, Zenon DEF WaitChecks
    <2>2. Starts' /\ FirstRan' /\ WorkersCounted'
      BY <1>6, <2>1, Zenon DEF WaitChecks, Starts, FirstRan, WorkersCounted
    <2>3. ASSUME rt.workers = 0, rtMode.prompt PROVE svc[1] \in Ended
      <3>1. waiter # "off" /\ rt.next = Len(Services) + 2
        BY <1>6, Zenon DEF WaitChecks, Starts
      <3>2. Cardinality(Running) = 0
        BY <2>3, <3>1, RunningFinite, FS_CardinalityType DEF WorkersCounted, Running
      <3>3. Running = {}
        BY <3>2, RunningFinite, FS_EmptySet, Zenon
      <3> QED
        BY <2>3, <3>1, <3>3, Zenon DEF FirstRan, Running
    <2>4. WaitSound'
      BY <1>6, <2>1, <2>3, Zenon DEF WaitChecks, WaitSound, Ended
    <2> QED
      BY <2>2, <2>4
  <1>7. CASE WaitListens \/ SignalReceived \/ ListenerPolls
    BY <1>7, Zenon DEF WaitListens, SignalReceived, ListenerPolls, Starts, FirstRan, WorkersCounted,
           WaitSound
  <1>8. CASE UNCHANGED rtVars
    BY <1>8, Zenon DEF rtVars, Starts, FirstRan, WorkersCounted, WaitSound
  <1> QED
    BY <1>1, <1>2, <1>3, <1>4, <1>5, <1>6, <1>7, <1>8 DEF RtNext, RtStep, ServiceStep, WaitStep

(* The runtime manager's count is exact, so drop_worker's assertion never  *)
(* fails, for any number of services in any order of start and end.        *)
THEOREM WorkersCountedAlways == RtSpec => []WorkersCounted
  <1>1. RtInv => WorkersCounted
    BY DEF RtInv
  <1> QED
    BY <1>1, RtInitInv, RtStepInv, PTL DEF RtSpec

(* If the first service has run before start returns, wait returns only    *)
(* after a worker ended or a shutdown was asked for.                       *)
THEOREM WaitSoundAlways == RtSpec => []WaitSound
  <1>1. RtInv => WaitSound
    BY DEF RtInv
  <1> QED
    BY <1>1, RtInitInv, RtStepInv, PTL DEF RtSpec

(* Both, as the run checks them. *)
THEOREM RuntimeSoundAlways == RtSpec => []RuntimeSound
  <1>1. RtInv => RuntimeSound
    BY DEF RtInv, RuntimeSound
  <1> QED
    BY <1>1, RtInitInv, RtStepInv, PTL DEF RtSpec

RtPhases ==
    waiter \in {"off", "check", "checked", "listening", "returned"} /\ listener \in {"idle", "polling", "ended"}

LEMMA RtTypes == RtSpec => []RtTypeOK
  <1>1. RtInit => RtPhases
    BY Zenon DEF RtInit, RtPhases
  <1>2. RtPhases /\ [RtNext]_rtVars => RtPhases'
    <2> SUFFICES ASSUME RtPhases, [RtNext]_rtVars PROVE RtPhases'
      OBVIOUS
    <2>1. CASE StartService \/ StartReturns \/ WaitChecks \/ WaitListens \/ SignalReceived \/ ListenerPolls
      BY <2>1, Zenon DEF RtPhases, StartService, StartReturns, WaitChecks, WaitListens, SignalReceived, ListenerPolls
    <2>2. ASSUME NEW s \in Svcs, ServiceStep(s) PROVE RtPhases'
      BY <2>2, Zenon DEF RtPhases, ServiceStep, RegisterWorker, DropWorker, DropNotifies, DropShutsDown, Notified
    <2>3. CASE UNCHANGED rtVars
      BY <2>3, Zenon DEF RtPhases, rtVars
    <2> QED
      BY <2>1, <2>2, <2>3, Zenon DEF RtNext, RtStep, WaitStep
  <1>3. RtInv /\ RtPhases => RtTypeOK
    BY Zenon DEF RtInv, Starts, Ended, RtPhases, RtTypeOK
  <1> QED
    BY <1>1, <1>2, <1>3, RtInitInv, RtStepInv, PTL DEF RtSpec

(***************************************************************************)
(* NodeManager, for any nodes.                                             *)
(***************************************************************************)
NodeStates == {"offline", "online", "error", "invalid", "disabled"}
NodeRec == [state : NodeStates, up : BOOLEAN, monitors : Nat, finished : BOOLEAN]

(* Only a node that is online or was disabled can have a monitor, at most   *)
(* one, and only one that is online can have a monitor that finished.       *)
Monitored(x) ==
    /\ x.state = "online" => (x.monitors = 1 /\ ~x.finished) \/ (x.monitors = 0 /\ x.finished)
    /\ x.state \in {"offline", "error", "invalid"} => x.monitors = 0
    /\ x.state # "online" => ~x.finished
    /\ x.monitors <= 1

NdInv ==
    /\ node \in [ClnNodes -> NodeRec]
    /\ \A n \in ClnNodes : Monitored(node[n])
    /\ checking \subseteq ClnNodes /\ sub.node \subseteq WithHold

LEMMA NodeUpdate ==
    ASSUME NdInv, NEW n \in ClnNodes, NEW x \in NodeRec, Monitored(x),
           node' = [node EXCEPT ![n] = x], checking' \subseteq ClnNodes, sub' = sub
    PROVE  NdInv'
  <1>1. node' \in [ClnNodes -> NodeRec]
    BY Zenon DEF NdInv
  <1>2. \A m \in ClnNodes : node'[m] = IF m = n THEN x ELSE node[m]
    BY DEF NdInv
  <1>3. \A m \in ClnNodes : Monitored(node'[m])
    BY <1>2 DEF NdInv
  <1> QED
    BY <1>1, <1>3 DEF NdInv, Monitored

(* Updates of two fields of a node's record. *)
LEMMA EndedRec ==
    ASSUME NEW x \in NodeRec, NEW st, NEW y, y = [x EXCEPT !.state = st, !.finished = FALSE]
    PROVE  y = [state |-> st, up |-> x.up, monitors |-> x.monitors, finished |-> FALSE]
  BY Zenon DEF NodeRec

LEMMA OnlineRec ==
    ASSUME NEW x \in NodeRec, NEW k, NEW y, y = [x EXCEPT !.state = "online", !.monitors = k]
    PROVE  y = [state |-> "online", up |-> x.up, monitors |-> k, finished |-> x.finished]
  BY Zenon DEF NodeRec

LEMMA FinishedRec ==
    ASSUME NEW x \in NodeRec, NEW k, NEW f, NEW y, y = [x EXCEPT !.monitors = k, !.finished = f]
    PROVE  y = [state |-> x.state, up |-> x.up, monitors |-> k, finished |-> f]
  BY Zenon DEF NodeRec

LEMMA NodesSame ==
    ASSUME NdInv, node' = node, checking' \subseteq ClnNodes, sub'.node \subseteq WithHold
    PROVE  NdInv'
  BY Zenon DEF NdInv, Monitored

LEMMA NdInitInv == NdInit => NdInv
  BY DEF NdInit, NdInv, NodeRec, NodeStates, Monitored

LEMMA NdStepInv == NdInv /\ [NdNext]_ndVars => NdInv'
  <1> SUFFICES ASSUME NdInv, [NdNext]_ndVars PROVE NdInv'
    OBVIOUS
  <1>1. CASE UNCHANGED ndVars
    BY <1>1 DEF NdInv, Monitored, ndVars
  <1>2. CASE CheckBegins \/ PayEnds \/ AskStatus \/ PollStatus
    BY <1>2, NodesSame, Zenon DEF CheckBegins, PayEnds, AskStatus, PollStatus, NdInv
  <1>3. ASSUME NEW n \in ClnNodes,
               \/ CheckNode(n) \/ MonitorEnds(n) \/ NodeBreaks(n) \/ NodeReturns(n)
               \/ DisableNode(n) \/ EnableNode(n)
        PROVE  NdInv'
    <2> DEFINE x == node[n]
    <2>1. x \in NodeRec /\ Monitored(x) /\ checking \subseteq ClnNodes /\ checking \ {n} \subseteq ClnNodes
      BY Zenon DEF NdInv
    <2>2. CASE UNCHANGED <<node, sub>> /\ checking' = checking \ {n}
      BY <2>1, <2>2, NodesSame, Zenon DEF NdInv
    <2>3. CASE CheckOnline(n)
      <3>1. CASE ~x.finished
        BY <2>1, <3>1, <2>2, <2>3, Zenon DEF CheckOnline
      <3>2. CASE x.finished
        <4>1. PICK st \in {"error", "offline"} :
                 node' = [node EXCEPT ![n] = [x EXCEPT !.state = st, !.finished = FALSE]]
          BY <2>3, <3>2, Zenon DEF CheckOnline
        <4> DEFINE y == [x EXCEPT !.state = st, !.finished = FALSE]
        <4>2. y = [state |-> st, up |-> x.up, monitors |-> x.monitors, finished |-> FALSE]
          BY <2>1, EndedRec, Zenon
        <4>3. y \in NodeRec /\ Monitored(y)
          BY <2>1, <2>3, <3>2, <4>2, Zenon DEF NodeRec, NodeStates, Monitored, CheckOnline
        <4> HIDE DEF y
        <4>4. node' = [node EXCEPT ![n] = y] /\ sub' = sub /\ checking' \subseteq ClnNodes
          BY <2>1, <2>3, <4>1, Zenon DEF CheckOnline, y
        <4> QED
          BY <4>3, <4>4, NodeUpdate, Zenon
      <3> QED
        BY <3>1, <3>2, Zenon
    <2>4. CASE TryConnect(n)
      <3>1. CASE node' = node
        BY <2>1, <3>1, <2>2, <2>4, Zenon DEF TryConnect
      <3>2. CASE node' = [node EXCEPT ![n].state = "invalid"]
        <4> DEFINE y == [x EXCEPT !.state = "invalid"]
        <4>1. y \in NodeRec /\ Monitored(y)
          BY <2>1, <2>4, Zenon DEF NodeRec, NodeStates, Monitored, TryConnect
        <4> HIDE DEF y
        <4>2. node' = [node EXCEPT ![n] = y] /\ sub' = sub /\ checking' \subseteq ClnNodes
          BY <2>1, <2>4, <3>2, Zenon DEF TryConnect, y
        <4> QED
          BY <4>1, <4>2, NodeUpdate, Zenon
      <3>3. CASE node' = [node EXCEPT ![n] = [x EXCEPT !.state = "online", !.monitors = x.monitors + 1]]
        <4> DEFINE k == x.monitors + 1
                   y == [x EXCEPT !.state = "online", !.monitors = k]
        <4>1. k = 1 /\ ~x.finished
          BY <2>1, <2>4 DEF Monitored, TryConnect
        <4> HIDE DEF k
        <4>2. y = [state |-> "online", up |-> x.up, monitors |-> k, finished |-> x.finished]
          BY <2>1, OnlineRec, Zenon
        <4>3. y \in NodeRec /\ Monitored(y)
          BY <2>1, <4>1, <4>2 DEF NodeRec, NodeStates, Monitored
        <4> HIDE DEF y
        <4>4. node' = [node EXCEPT ![n] = y] /\ sub' = sub /\ checking' \subseteq ClnNodes
          BY <2>1, <2>4, <3>3, Zenon DEF TryConnect, y, k
        <4> QED
          BY <4>3, <4>4, NodeUpdate, Zenon
      <3> QED
        BY <2>4, <3>1, <3>2, <3>3, Zenon DEF TryConnect
    <2>5. CASE CheckOther(n)
      BY <2>2, <2>5, Zenon DEF CheckOther
    <2>6. CASE MonitorEnds(n)
      <3> DEFINE k == x.monitors - 1
                 f == x.state = "online"
                 y == [x EXCEPT !.monitors = k, !.finished = f]
      <3>1. k = 0
        BY <2>1, <2>6 DEF Monitored, MonitorEnds, NodeRec
      <3>2. f \in BOOLEAN
        OBVIOUS
      <3> HIDE DEF k
      <3> HIDE DEF f
      <3>3. y = [state |-> x.state, up |-> x.up, monitors |-> k, finished |-> f]
        BY <2>1, FinishedRec, Zenon
      <3>4. y \in NodeRec
        BY <2>1, <3>1, <3>2, <3>3, Zenon DEF NodeRec
      <3>5. Monitored(y)
        <4>1. CASE x.state = "online"
          <5>1. f = TRUE
            BY <4>1, Zenon DEF f
          <5> QED
            BY <2>1, <3>1, <3>3, <4>1, <5>1 DEF Monitored
        <4>2. CASE x.state # "online"
          <5>1. f = FALSE
            BY <4>2, Zenon DEF f
          <5> QED
            BY <2>1, <3>1, <3>3, <4>2, <5>1 DEF Monitored
        <4> QED
          BY <4>1, <4>2, Zenon
      <3> HIDE DEF y
      <3>6. sub' = sub /\ checking' \subseteq ClnNodes
        BY <2>1, <2>6, Zenon DEF MonitorEnds
      <3>7. node' = [node EXCEPT ![n] = y]
        BY <2>6, Zenon DEF MonitorEnds, y, k, f
      <3> QED
        BY <3>4, <3>5, <3>6, <3>7, NodeUpdate, Zenon
    <2>7. ASSUME NEW u \in BOOLEAN, node' = [node EXCEPT ![n].up = u], sub' = sub, checking' = checking
          PROVE  NdInv'
      <3> DEFINE y == [x EXCEPT !.up = u]
      <3>1. y \in NodeRec /\ Monitored(y)
        BY <2>1, Zenon DEF NodeRec, Monitored
      <3> HIDE DEF y
      <3>2. node' = [node EXCEPT ![n] = y]
        BY <2>7, Zenon DEF y
      <3> QED
        BY <2>1, <2>7, <3>1, <3>2, NodeUpdate, Zenon
    <2>8. CASE NodeBreaks(n) \/ NodeReturns(n)
      BY <2>7, <2>8, Zenon DEF NodeBreaks, NodeReturns
    <2>9. CASE DisableNode(n)
      <3> DEFINE y == [x EXCEPT !.state = "disabled", !.finished = FALSE]
      <3>1. y = [state |-> "disabled", up |-> x.up, monitors |-> x.monitors, finished |-> FALSE]
        BY <2>1, EndedRec, Zenon
      <3>2. y \in NodeRec /\ Monitored(y)
        BY <2>1, <3>1, Zenon DEF NodeRec, NodeStates, Monitored
      <3> HIDE DEF y
      <3>3. node' = [node EXCEPT ![n] = y] /\ sub' = sub /\ checking' \subseteq ClnNodes
        BY <2>1, <2>9, Zenon DEF DisableNode, y
      <3> QED
        BY <3>2, <3>3, NodeUpdate, Zenon
    <2>10. CASE EnableNode(n)
      <3> DEFINE y == [x EXCEPT !.state = "disabled"]
      <3>1. y \in NodeRec /\ Monitored(y)
        BY <2>1, <2>10, Zenon DEF NodeRec, NodeStates, Monitored, EnableNode
      <3> HIDE DEF y
      <3>2. node' = [node EXCEPT ![n] = y] /\ sub' = sub /\ checking' \subseteq ClnNodes
        BY <2>1, <2>10, Zenon DEF EnableNode, y
      <3> QED
        BY <3>1, <3>2, NodeUpdate, Zenon
    <2> QED
      BY <1>3, <2>3, <2>4, <2>5, <2>6, <2>8, <2>9, <2>10 DEF CheckNode
  <1>4. ASSUME NEW n \in ClnNodes, GenerateInvoice(n) PROVE NdInv'
    <2>1. n \in WithHold
      BY <1>4, Zenon DEF GenerateInvoice, Active, Online
    <2> QED
      BY <1>4, <2>1, NodesSame, Zenon DEF GenerateInvoice, NdInv
  <1>5. ASSUME NEW n \in ClnNodes, NEW how \in {"settled", "canceled"}, ReleaseInvoice(n, how) PROVE NdInv'
    <2>1. sub'.node = sub.node
      BY <1>5 DEF ReleaseInvoice
    <2> QED
      BY <1>5, <2>1, NodesSame, Zenon DEF ReleaseInvoice, NdInv
  <1> QED
    BY <1>1, <1>2, <1>3, <1>4, <1>5, Zenon DEF NdNext

(* A node has at most one monitor, and one that is online has a monitor or  *)
(* one that just ended, however checks, monitors that end, nodes that break *)
(* and operators interleave (ln/cln/mod.rs).                                *)
THEOREM OneMonitorAlways == NdSpec => [](NdTypeOK /\ OneMonitor)
  <1>1. NdInv => NdTypeOK /\ OneMonitor
    BY Zenon DEF NdInv, NdTypeOK, OneMonitor, NodeRec, NodeStates, Monitored
  <1> QED
    BY <1>1, NdInitInv, NdStepInv, PTL DEF NdSpec

-----------------------------------------------------------------------------
(* Each module's type invariant; every forfeited vtxo is watched and the    *)
(* watcher does not panic (forfeits.rs); a mailbox reader gets all entries  *)
(* once and in order (rpcserver/mailbox.rs, database/mod.rs); and a node    *)
(* has one monitor (ln/cln/mod.rs).                                         *)
ServicesSound ==
    /\ WatchTypeOK /\ MailTypeOK /\ RtTypeOK /\ NdTypeOK
    /\ WatchComplete /\ WatcherAlive
    /\ InOrder /\ NothingSkipped /\ PulledOnce
    /\ OneMonitor

(* ServicesSound for any rounds, posts, readers, callers, services and      *)
(* nodes. NothingSkipped needs posts of one vtxo each: the rows of a longer *)
(* post are inserted one by one under one checkpoint, which a reader may    *)
(* pass in between.                                                         *)
THEOREM ServicesSoundAlways ==
    SinglePosts => (WatchSpec /\ MailSpec /\ RtSpec /\ NdSpec => []ServicesSound)
  <1> SUFFICES ASSUME SinglePosts PROVE WatchSpec /\ MailSpec /\ RtSpec /\ NdSpec => []ServicesSound
    BY Zenon
  <1>1. ASSUME WatchTypeOK /\ WatchComplete /\ WatcherAlive,
               MailTypeOK /\ InOrder /\ PulledOnce /\ (SinglePosts => NothingSkipped),
               RtTypeOK, NdTypeOK /\ OneMonitor
        PROVE  ServicesSound
    BY <1>1 DEF ServicesSound
  <1> QED
    BY <1>1, WatcherSound, MailboxSound, RtTypes, OneMonitorAlways, PTL
=============================================================================
