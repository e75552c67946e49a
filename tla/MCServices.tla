----------------------------- MODULE MCServices ------------------------------
(***************************************************************************)
(* The server's services beside rounds and lightning, each in behaviours   *)
(* of its own.                                                             *)
(***************************************************************************)
EXTENDS ServicesProofs, TLC

CONSTANTS Parts, f1, f2, f3, a1, a2, a3, r1, r2, u1, u2, n1, n2

VARIABLE part   \* the service that moves

(***************************************************************************)
(* Forfeit watcher: two rounds; also a node that fails and a first start.  *)
(***************************************************************************)
MCForfeited == <<{f1, f2}, {f3}>>
MCWatch == [rounds |-> 1, prompt |-> TRUE, fails |-> FALSE, crash |-> FALSE]
MCWatchModes == {MCWatch, [MCWatch EXCEPT !.fails = TRUE], [MCWatch EXCEPT !.rounds = 0],
                 [MCWatch EXCEPT !.crash = TRUE]}

(***************************************************************************)
(* Mailbox: two posts of one vtxo each, with and without the old pull.     *)
(***************************************************************************)
MCPosts == << <<a1>>, <<a2>> >>
MCLongPosts == << <<a1, a3>>, <<a2>> >>
MCMail == [serial |-> TRUE, pulls |-> FALSE, quiet |-> TRUE]
MCMailModes == {MCMail, [MCMail EXCEPT !.pulls = TRUE]}
MCMailOverlap == {[MCMail EXCEPT !.serial = FALSE]}
MCMailBusy == {[MCMail EXCEPT !.pulls = TRUE, !.quiet = FALSE]}

(***************************************************************************)
(* Runtime manager: three of the services, one that breaks or hangs.       *)
(***************************************************************************)
MCServiceNames ==
    SelectSeq(CaptaindServices, LAMBDA s : s \in {"TxIndex", "VtxoSweeper", "PublicRpcServer"})
MCRuntime == [stuck |-> {}, breaks |-> {2}, fails |-> TRUE, prompt |-> TRUE]
MCRuntimeModes == {MCRuntime, [MCRuntime EXCEPT !.breaks = {}, !.stuck = {2}]}

(***************************************************************************)
(* Node manager: two nodes; the operator disables, or one is not ours.     *)
(***************************************************************************)
MCPriority == n1 :> 1 @@ n2 :> 2
MCNode == [operator |-> FALSE, invalid |-> {}]
MCNodeModes == {MCNode, [operator |-> TRUE, invalid |-> {n2}]}

-----------------------------------------------------------------------------
servicesVars == <<part, watchVars, mailVars, rtVars, ndVars>>

ServicesInit ==
    /\ part \in Parts
    /\ WatchInit /\ MailInit /\ RtInit /\ NdInit
    /\ part # "forfeits" => wmode = MCWatch
    /\ part # "mailbox" => mailMode = MCMail
    /\ part # "runtime" => rtMode = MCRuntime
    /\ part # "nodes" => ndMode = MCNode

WatchPart == part = "forfeits" /\ WatchNext /\ UNCHANGED <<part, mailVars, rtVars, ndVars>>
MailPart == part = "mailbox" /\ MailNext /\ UNCHANGED <<part, watchVars, rtVars, ndVars>>
RtPart == part = "runtime" /\ RtNext /\ UNCHANGED <<part, watchVars, mailVars, ndVars>>
NdPart == part = "nodes" /\ NdNext /\ UNCHANGED <<part, watchVars, mailVars, rtVars>>

ServicesNext == WatchPart \/ MailPart \/ RtPart \/ NdPart

(* The fairness of each part, where that part moves. *)
ServicesSpec ==
    /\ ServicesInit /\ [][ServicesNext]_servicesVars
    /\ WF_watchVars(part = "forfeits" /\ WatchStep) /\ WF_watchVars(part = "forfeits" /\ FfChain)
    /\ \A r \in Readers : WF_mailVars(part = "mailbox" /\ StreamStep(r))
    /\ \A p \in PostCalls : WF_mailVars(part = "mailbox" /\ PostProceeds(p))
    /\ WF_rtVars(part = "runtime" /\ RtStep)
    /\ \A s \in Svcs : WF_rtVars(part = "runtime" /\ ServiceStep(s))
    /\ WF_rtVars(part = "runtime" /\ WaitStep) /\ WF_rtVars(part = "runtime" /\ ListenerPolls)
    /\ WF_ndVars(part = "nodes" /\ CheckBegins) /\ WF_ndVars(part = "nodes" /\ PollStatus)
    /\ \A n \in ClnNodes : WF_ndVars(part = "nodes" /\ CheckNode(n))
    /\ \A n \in ClnNodes : WF_ndVars(part = "nodes" /\ MonitorEnds(n))
    /\ \A n \in ClnNodes : WF_ndVars(part = "nodes" /\ NodeReturns(n))
    /\ SF_ndVars(part = "nodes" /\ \E n \in ClnNodes, how \in {"settled", "canceled"} : ReleaseInvoice(n, how))

(* What the services owe in the end: forfeits are claimed, mail is          *)
(* delivered, a shutdown reaches every worker, nodes come back and their    *)
(* invoices and callers are served.                                         *)
ServicesProgress ==
    /\ ForfeitsClaimed
    /\ AnnouncedDelivered
    /\ CriticalStopsAll /\ SignalStopsAll
    /\ NodesRecover /\ InvoiceReleased /\ StatusReturned
=============================================================================
