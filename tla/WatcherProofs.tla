---------------------------- MODULE WatcherProofs ----------------------------
(***************************************************************************)
(* What TLAPS proves about the forfeit watcher.                            *)
(***************************************************************************)
EXTENDS ForfeitWatcher, FiniteSetTheorems, WellFoundedInduction, TLAPS

(***************************************************************************)
(* ForfeitWatcher, for any rounds and any number of faults.                *)
(***************************************************************************)
Claim == [vtxo : FfVtxos, conn : Nat, cpfp : BOOLEAN]

IsForfeit(f) == f[1] = "forfeit"

(* The counters of the rounds' connectors, and the claims. *)
Process ==
    /\ watcher.used \in [FfRounds -> Nat]
    /\ watcher.claims \in Seq(Claim)

(* A connector that a claim or a broadcast forfeit uses lies below the      *)
(* counter of its round.                                                    *)
Below ==
    /\ \A i \in 1 .. Len(watcher.claims) :
           watcher.claims[i].conn < watcher.used[RoundOf(watcher.claims[i].vtxo)]
    /\ \A f \in mined.sent : IsForfeit(f) =>
           f[2] \in FfVtxos /\ f[3] \in Nat /\ f[3] < watcher.used[RoundOf(f[2])]

(* Two claims of one round have two connectors, and a forfeit that was      *)
(* broadcast has the connector of no other vtxo's claim.                    *)
ClaimsApart ==
    \A i, j \in 1 .. Len(watcher.claims) :
        /\ RoundOf(watcher.claims[i].vtxo) = RoundOf(watcher.claims[j].vtxo)
        /\ watcher.claims[i].conn = watcher.claims[j].conn
        => watcher.claims[i].vtxo = watcher.claims[j].vtxo
SentApart ==
    \A f \in mined.sent, i \in 1 .. Len(watcher.claims) :
        /\ IsForfeit(f) /\ RoundOf(f[2]) = RoundOf(watcher.claims[i].vtxo)
        /\ f[3] = watcher.claims[i].conn
        => f[2] = watcher.claims[i].vtxo

Shapes ==
    /\ watcher = [last |-> watcher.last, exits |-> watcher.exits, used |-> watcher.used,
                  claims |-> watcher.claims, panic |-> watcher.panic]
    /\ mined = [rounds |-> mined.rounds, exits |-> mined.exits, conns |-> mined.conns,
                forfeits |-> mined.forfeits, sent |-> mined.sent, faults |-> mined.faults,
                crashed |-> mined.crashed]

Place ==
    /\ wpc = [pc |-> wpc.pc, todo |-> wpc.todo, confirmed |-> wpc.confirmed, idx |-> wpc.idx]
    /\ wpc.idx \in Nat \ {0}

WatchInv == ~wmode.crash => Process /\ Below /\ ClaimsApart /\ SentApart /\ ConnectorsDistinct

LEMMA RoundOfType == \A v \in FfVtxos : RoundOf(v) \in FfRounds
  BY WatchAssumption DEF RoundOf, FfVtxos, FfRounds, Range

LEMMA WatchInitInv == WatchInit => WatchInv
  BY DEF WatchInit, WatchInv, NewProcess, Process, Below, ClaimsApart, SentApart,
         ConnectorsDistinct

(* Steps that add no connector, claim or broadcast. *)
LEMMA Quiet ==
    ASSUME WatchInv, wmode' = wmode, watcher'.used = watcher.used,
           watcher'.claims = watcher.claims, mined'.sent = mined.sent
    PROVE  WatchInv'
  BY SMTT(60) DEF WatchInv, Process, Below, ClaimsApart, SentApart, ConnectorsDistinct, IsForfeit

LEMMA ShapesInit == WatchInit => Shapes
  BY DEF WatchInit, Shapes, NewProcess

LEMMA ShapesStep == Shapes /\ [WatchNext]_watchVars => Shapes'
  <1> SUFFICES ASSUME Shapes, [WatchNext]_watchVars PROVE Shapes'
    OBVIOUS
  <1> USE DEF Shapes
  <1>1. CASE LoadState \/ FetchAllForfeited \/ LoadFirst \/ LoadFresh \/ Detect \/ HandleEnd \/ ProgressEnd
    BY <1>1, Zenon DEF LoadState, FetchAllForfeited, LoadFirst, LoadFresh, Detect, HandleEnd, ProgressEnd
  <1>2. ASSUME NEW v \in FfVtxos, HandleExitTx(v) PROVE Shapes'
    <2> DEFINE r == RoundOf(v)
               i == watcher.used[r]
               claim == [vtxo |-> v, conn |-> i, cpfp |-> FALSE]
    <2>1. \/ watcher' = [watcher EXCEPT !.panic = TRUE] /\ UNCHANGED mined
          \/ /\ watcher' = [watcher EXCEPT !.used[r] = @ + 1, !.claims = Append(@, claim)]
             /\ \/ mined' = mined
                \/ mined' = [mined EXCEPT !.sent = @ \cup {<<"conn", r, ConnectorTx(NbInputs(r), i)>>}]
          \/ /\ watcher' \in {watcher, [watcher EXCEPT !.used[r] = @ + 1]}
             /\ mined' = [mined EXCEPT !.faults = @ + 1]
      BY <1>2 DEF HandleExitTx
    <2> QED
      BY <2>1, Zenon
  <1>3. CASE ProgressClaim
    BY <1>3 DEF ProgressClaim
  <1>4. CASE FfChain \/ StoreRound \/ \E v \in FfVtxos : MineExit(v)
    BY <1>4, Zenon DEF FfChain, StoreRound, MineExit, MineRoundTx, MineConnector, MineForfeit
  <1>5. CASE RestartWatcher
    BY <1>5, Zenon DEF RestartWatcher, NewProcess
  <1>6. CASE UNCHANGED watchVars
    BY <1>6 DEF watchVars
  <1> QED
    BY <1>1, <1>2, <1>3, <1>4, <1>5, <1>6 DEF WatchNext, WatchStep


LEMMA PlaceInit == WatchInit => Place
  BY DEF WatchInit, Place, Idle

LEMMA PlaceStep == Place /\ [WatchNext]_watchVars => Place'
  <1> SUFFICES ASSUME Place, [WatchNext]_watchVars PROVE Place'
    OBVIOUS
  <1>1. ASSUME NEW pc, GotoW(pc) PROVE Place'
    BY <1>1 DEF GotoW, Idle, Place
  <1>2. CASE UNCHANGED wpc
    BY <1>2 DEF Place
  <1>3. CASE LoadState \/ FetchAllForfeited \/ LoadFirst \/ LoadFresh \/ HandleEnd \/ ProgressEnd \/ RestartWatcher
    <2>1. \E pc : GotoW(pc)
      BY <1>3 DEF LoadState, FetchAllForfeited, LoadFirst, LoadFresh, HandleEnd, ProgressEnd,
             RestartWatcher
    <2> QED
      BY <1>1, <2>1
  <1>4. CASE Detect
    BY <1>4 DEF Detect, Place
  <1>5. ASSUME NEW v \in FfVtxos, HandleExitTx(v) PROVE Place'
    <2>1. wpc' = [wpc EXCEPT !.todo = @ \ {v}] \/ GotoW("idle") \/ GotoW("progress")
      BY <1>5 DEF HandleExitTx
    <2> QED
      BY <1>1, <2>1 DEF Place
  <1>6. CASE ProgressClaim
    <2>1. wpc' = [wpc EXCEPT !.idx = @ + 1] \/ wpc' = wpc \/ GotoW("idle")
      BY <1>6 DEF ProgressClaim
    <2> QED
      BY <1>1, <2>1 DEF Place
  <1>7. CASE FfChain \/ StoreRound \/ \E v \in FfVtxos : MineExit(v)
    BY <1>2, <1>7, Zenon DEF FfChain, StoreRound, MineExit, MineRoundTx, MineConnector, MineForfeit
  <1> QED
    BY <1>2, <1>3, <1>4, <1>5, <1>6, <1>7 DEF WatchNext, WatchStep, watchVars

-----------------------------------------------------------------------------
(* Vec::swap_remove leaves claims that were there before. *)
LEMMA SwapRemoveFacts ==
    ASSUME NEW S, NEW s \in Seq(S), NEW k \in 1 .. Len(s)
    PROVE  /\ SwapRemove(s, k) \in Seq(S)
           /\ \A i \in 1 .. Len(SwapRemove(s, k)) :
                  \E j \in 1 .. Len(s) : SwapRemove(s, k)[i] = s[j]
  <1>1. CASE k = Len(s)
    BY <1>1 DEF SwapRemove
  <1>2. CASE k # Len(s)
    <2> DEFINE t == [s EXCEPT ![k] = s[Len(s)]]
    <2>1. t \in Seq(S) /\ Len(t) = Len(s)
      OBVIOUS
    <2>2. \A i \in 1 .. Len(s) : \E j \in 1 .. Len(s) : t[i] = s[j]
      OBVIOUS
    <2>3. SwapRemove(s, k) = SubSeq(t, 1, Len(t) - 1)
      BY <1>2 DEF SwapRemove
    <2> HIDE DEF t
    <2>4. SubSeq(t, 1, Len(t) - 1) \in Seq(S) /\ Len(SubSeq(t, 1, Len(t) - 1)) = Len(s) - 1
      BY <2>1
    <2>5. \A i \in 1 .. Len(s) - 1 : i \in 1 .. Len(s) /\ SubSeq(t, 1, Len(t) - 1)[i] = t[i]
      BY <2>1
    <2> QED
      BY <2>2, <2>3, <2>4, <2>5, Zenon
  <1> QED
    BY <1>1, <1>2

(* Fewer claims keep the invariant. *)
LEMMA FewerClaims ==
    ASSUME WatchInv, ~wmode.crash, wmode' = wmode, watcher'.used = watcher.used,
           mined'.sent = mined.sent, watcher'.claims \in Seq(Claim),
           \A i \in 1 .. Len(watcher'.claims) :
               \E j \in 1 .. Len(watcher.claims) : watcher'.claims[i] = watcher.claims[j]
    PROVE  WatchInv'
  <1> USE DEF WatchInv
  <1>1. Process'
    BY DEF Process
  <1>2. Below'
    BY Zenon DEF Below, IsForfeit
  <1>3. ClaimsApart'
    <2> SUFFICES ASSUME NEW i \in 1 .. Len(watcher'.claims), NEW j \in 1 .. Len(watcher'.claims),
                        RoundOf(watcher'.claims[i].vtxo) = RoundOf(watcher'.claims[j].vtxo),
                        watcher'.claims[i].conn = watcher'.claims[j].conn
                 PROVE  watcher'.claims[i].vtxo = watcher'.claims[j].vtxo
      BY DEF ClaimsApart
    <2>1. PICK a \in 1 .. Len(watcher.claims) : watcher'.claims[i] = watcher.claims[a]
      OBVIOUS
    <2>2. PICK b \in 1 .. Len(watcher.claims) : watcher'.claims[j] = watcher.claims[b]
      OBVIOUS
    <2> QED
      BY <2>1, <2>2 DEF ClaimsApart
  <1>4. SentApart'
    BY Zenon DEF SentApart, IsForfeit
  <1>5. ConnectorsDistinct'
    BY DEF ConnectorsDistinct
  <1> QED
    BY <1>1, <1>2, <1>3, <1>4, <1>5

(* The next connector of a round is nobody's. *)
LEMMA NextConnector ==
    ASSUME WatchInv, Shapes, ~wmode.crash, wmode' = wmode, NEW v \in FfVtxos,
           watcher' = [watcher EXCEPT !.used[RoundOf(v)] = @ + 1,
                                      !.claims = Append(@, [vtxo |-> v, conn |-> watcher.used[RoundOf(v)],
                                                            cpfp |-> FALSE])],
           \A f \in mined'.sent : f \in mined.sent \/ ~IsForfeit(f)
    PROVE  WatchInv'
  <1> DEFINE r == RoundOf(v)
             n == watcher.used[r]
             new == [vtxo |-> v, conn |-> n, cpfp |-> FALSE]
             len == Len(watcher.claims)
  <1>1. r \in FfRounds /\ n \in Nat /\ len \in Nat /\ new \in Claim
    BY RoundOfType DEF WatchInv, Process, Claim
  <1>2. /\ watcher'.used = [watcher.used EXCEPT ![r] = n + 1]
        /\ watcher'.claims = Append(watcher.claims, new)
    BY DEF Shapes
  <1>3. /\ Len(watcher'.claims) = len + 1 /\ watcher'.claims[len + 1] = new
        /\ \A i \in 1 .. len : watcher'.claims[i] = watcher.claims[i]
        /\ watcher'.claims \in Seq(Claim)
    BY <1>1, <1>2 DEF WatchInv, Process
  <1>4. /\ watcher'.used \in [FfRounds -> Nat] /\ watcher'.used[r] = n + 1
        /\ \A q \in FfRounds : watcher.used[q] \in Nat /\ watcher'.used[q] \in Nat
                               /\ watcher.used[q] <= watcher'.used[q]
    BY <1>1, <1>2 DEF WatchInv, Process
  <1>5. \A i \in 1 .. len : /\ watcher.claims[i].vtxo \in FfVtxos /\ watcher.claims[i].conn \in Nat
                            /\ RoundOf(watcher.claims[i].vtxo) \in FfRounds
                            /\ watcher.claims[i].conn < watcher.used[RoundOf(watcher.claims[i].vtxo)]
    <2>1. \A i \in 1 .. len : watcher.claims[i] \in Claim
      BY DEF WatchInv, Process
    <2> QED
      BY <2>1, RoundOfType DEF WatchInv, Below, Claim
  <1>6. \A f \in mined'.sent : IsForfeit(f) =>
            /\ f \in mined.sent /\ f[2] \in FfVtxos /\ f[3] \in Nat /\ RoundOf(f[2]) \in FfRounds
            /\ f[3] < watcher.used[RoundOf(f[2])]
    BY RoundOfType DEF WatchInv, Below
  <1>7. \A i \in 1 .. len + 1 : i \in 1 .. len \/ i = len + 1
    BY <1>1
  <1>8. new.vtxo = v /\ new.conn = n
    OBVIOUS
  <1> HIDE DEF new, len, n, r
  <1>10. Process'
    BY <1>3, <1>4 DEF Process
  <1>11. Below'
    <2>1. \A i \in 1 .. len : watcher.claims[i].conn < watcher'.used[RoundOf(watcher.claims[i].vtxo)]
      BY <1>4, <1>5
    <2>2. new.conn < watcher'.used[RoundOf(new.vtxo)]
      BY <1>1, <1>4, <1>8 DEF r
    <2>3. \A i \in 1 .. len + 1 :
              watcher'.claims[i].conn < watcher'.used[RoundOf(watcher'.claims[i].vtxo)]
      BY <1>3, <1>7, <2>1, <2>2
    <2>4. \A f \in mined'.sent : IsForfeit(f) =>
              f[2] \in FfVtxos /\ f[3] \in Nat /\ f[3] < watcher'.used[RoundOf(f[2])]
      BY <1>4, <1>6
    <2> QED
      BY <1>3, <2>3, <2>4 DEF Below, IsForfeit
  <1>12. ClaimsApart'
    <2>1. \A i \in 1 .. len : RoundOf(watcher.claims[i].vtxo) = r => watcher.claims[i].conn # n
      BY <1>1, <1>5 DEF n
    <2> QED
      BY <1>3, <1>7, <1>8, <2>1 DEF WatchInv, ClaimsApart, len, r
  <1>13. SentApart'
    <2>1. \A f \in mined'.sent : IsForfeit(f) /\ RoundOf(f[2]) = r => f[3] # n
      BY <1>1, <1>6 DEF n
    <2> QED
      BY <1>3, <1>6, <1>7, <1>8, <2>1 DEF WatchInv, SentApart, IsForfeit, len, r
  <1>14. ConnectorsDistinct'
    BY <1>6 DEF WatchInv, ConnectorsDistinct, IsForfeit
  <1> QED
    BY <1>10, <1>11, <1>12, <1>13, <1>14 DEF WatchInv

(* A connector may also be taken and lost. *)
LEMMA LostConnector ==
    ASSUME WatchInv, Shapes, ~wmode.crash, wmode' = wmode, NEW v \in FfVtxos,
           watcher' = [watcher EXCEPT !.used[RoundOf(v)] = @ + 1], mined'.sent = mined.sent
    PROVE  WatchInv'
  <1>1. /\ watcher'.claims = watcher.claims
        /\ watcher'.used = [watcher.used EXCEPT ![RoundOf(v)] = watcher.used[RoundOf(v)] + 1]
    BY DEF Shapes
  <1>2. /\ watcher'.used \in [FfRounds -> Nat]
        /\ \A q \in FfRounds : watcher.used[q] \in Nat /\ watcher'.used[q] \in Nat
                               /\ watcher.used[q] <= watcher'.used[q]
    BY <1>1, RoundOfType DEF WatchInv, Process
  <1>3. \A i \in 1 .. Len(watcher.claims) :
            RoundOf(watcher.claims[i].vtxo) \in FfRounds /\ watcher.claims[i].conn \in Nat
    <2>1. \A i \in 1 .. Len(watcher.claims) : watcher.claims[i] \in Claim
      BY DEF WatchInv, Process
    <2> QED
      BY <2>1, RoundOfType DEF Claim
  <1>4. Below'
    BY <1>1, <1>2, <1>3, RoundOfType DEF WatchInv, Below, IsForfeit
  <1> QED
    BY <1>1, <1>2, <1>4 DEF WatchInv, Process, ClaimsApart, SentApart, ConnectorsDistinct, IsForfeit

(* A claim's forfeit is broadcast. *)
LEMMA ForfeitSent ==
    ASSUME WatchInv, Shapes, ~wmode.crash, wmode' = wmode, NEW k \in 1 .. Len(watcher.claims),
           watcher' = [watcher EXCEPT !.claims[k].cpfp = TRUE],
           mined' = [mined EXCEPT !.sent =
                         @ \cup {<<"forfeit", watcher.claims[k].vtxo, watcher.claims[k].conn>>}]
    PROVE  WatchInv'
  <1> DEFINE c == watcher.claims[k]
             sent == <<"forfeit", c.vtxo, c.conn>>
  <1>1. /\ watcher'.used = watcher.used /\ mined'.sent = mined.sent \cup {sent}
        /\ watcher'.claims = [watcher.claims EXCEPT ![k] = [c EXCEPT !.cpfp = TRUE]]
    BY DEF Shapes
  <1>2. watcher.claims \in Seq(Claim) /\ c \in Claim /\ [c EXCEPT !.cpfp = TRUE] \in Claim
    <2>1. watcher.claims \in Seq(Claim) /\ c \in Claim
      BY DEF WatchInv, Process
    <2> QED
      BY <2>1, Zenon DEF Claim
  <1>3. /\ watcher'.claims \in Seq(Claim) /\ Len(watcher'.claims) = Len(watcher.claims)
        /\ \A i \in 1 .. Len(watcher.claims) :
               /\ watcher'.claims[i].vtxo = watcher.claims[i].vtxo
               /\ watcher'.claims[i].conn = watcher.claims[i].conn
    BY <1>1, <1>2 DEF Claim
  <1>4. sent[1] = "forfeit" /\ sent[2] = c.vtxo /\ sent[3] = c.conn
    OBVIOUS
  <1>5. c.vtxo \in FfVtxos /\ c.conn \in Nat /\ c.conn < watcher.used[RoundOf(c.vtxo)]
    BY <1>2, Zenon DEF WatchInv, Below, Claim
  <1> HIDE DEF sent
  <1>6. Process' /\ Below'
    BY <1>1, <1>3, <1>4, <1>5, Zenon DEF WatchInv, Process, Below, IsForfeit
  <1>7. ClaimsApart'
    BY <1>3 DEF WatchInv, ClaimsApart
  <1>8. SentApart'
    BY <1>1, <1>3, <1>4, SMTT(60) DEF WatchInv, SentApart, ClaimsApart, IsForfeit
  <1>9. ConnectorsDistinct'
    BY <1>1, <1>4 DEF WatchInv, ConnectorsDistinct, SentApart, IsForfeit
  <1> QED
    BY <1>6, <1>7, <1>8, <1>9 DEF WatchInv

-----------------------------------------------------------------------------
LEMMA WatchStepInv == WatchInv /\ Shapes /\ Place /\ [WatchNext]_watchVars => WatchInv'
  <1> SUFFICES ASSUME WatchInv, Shapes, Place, [WatchNext]_watchVars PROVE WatchInv'
    OBVIOUS
  <1>1. CASE LoadState \/ FetchAllForfeited \/ LoadFirst \/ LoadFresh \/ Detect \/ HandleEnd \/ ProgressEnd
    <2>1. /\ wmode' = wmode /\ watcher'.used = watcher.used /\ watcher'.claims = watcher.claims
          /\ mined'.sent = mined.sent
      BY <1>1, Zenon DEF LoadState, FetchAllForfeited, LoadFirst, LoadFresh, Detect, HandleEnd,
             ProgressEnd, Shapes
    <2> QED
      BY <2>1, Quiet
  <1>2. CASE FfChain \/ StoreRound \/ \E v \in FfVtxos : MineExit(v)
    <2>1. /\ wmode' = wmode /\ watcher'.used = watcher.used /\ watcher'.claims = watcher.claims
          /\ mined'.sent = mined.sent
      BY <1>2, Zenon DEF FfChain, StoreRound, MineExit, MineRoundTx, MineConnector, MineForfeit, Shapes
    <2> QED
      BY <2>1, Quiet
  <1>3. CASE RestartWatcher
    BY <1>3 DEF RestartWatcher, WatchInv
  <1>4. CASE UNCHANGED watchVars
    BY <1>4, Quiet DEF watchVars
  <1>5. CASE wmode.crash /\ wmode' = wmode
    BY <1>5 DEF WatchInv
  <1>6. ASSUME ~wmode.crash, NEW v \in FfVtxos, HandleExitTx(v) PROVE WatchInv'
    <2> DEFINE r == RoundOf(v)
               i == watcher.used[r]
               claim == [vtxo |-> v, conn |-> i, cpfp |-> FALSE]
               conn == <<"conn", r, ConnectorTx(NbInputs(r), i)>>
    <2>1. wmode' = wmode
      BY <1>6 DEF HandleExitTx
    <2>2. \/ watcher' = [watcher EXCEPT !.panic = TRUE] /\ UNCHANGED mined
          \/ /\ watcher' = [watcher EXCEPT !.used[r] = @ + 1, !.claims = Append(@, claim)]
             /\ mined' = mined \/ mined' = [mined EXCEPT !.sent = @ \cup {conn}]
          \/ /\ watcher' \in {watcher, [watcher EXCEPT !.used[r] = @ + 1]}
             /\ mined' = [mined EXCEPT !.faults = @ + 1]
      BY <1>6 DEF HandleExitTx
    <2>3. CASE watcher' = [watcher EXCEPT !.panic = TRUE] /\ UNCHANGED mined
      BY <2>1, <2>3, Quiet DEF Shapes
    <2>4. CASE /\ watcher' = [watcher EXCEPT !.used[r] = @ + 1, !.claims = Append(@, claim)]
               /\ mined' = mined \/ mined' = [mined EXCEPT !.sent = @ \cup {conn}]
      <3>1. \A f \in mined'.sent : f \in mined.sent \/ ~IsForfeit(f)
        BY <2>4 DEF Shapes, IsForfeit
      <3> QED
        BY <1>6, <2>1, <2>4, <3>1, NextConnector, Zenon
    <2>5. CASE /\ watcher' \in {watcher, [watcher EXCEPT !.used[r] = @ + 1]}
               /\ mined' = [mined EXCEPT !.faults = @ + 1]
      <3>1. mined'.sent = mined.sent
        BY <2>5, Zenon DEF Shapes
      <3> QED
        BY <1>6, <2>1, <2>5, <3>1, Quiet, LostConnector
    <2> QED
      BY <2>2, <2>3, <2>4, <2>5
  <1>7. ASSUME ~wmode.crash, ProgressClaim PROVE WatchInv'
    <2> DEFINE k == wpc.idx
               c == watcher.claims[k]
    <2>1. wmode' = wmode /\ watcher.claims \in Seq(Claim) /\ k \in 1 .. Len(watcher.claims)
      BY <1>7, SMTT(60) DEF ProgressClaim, WatchInv, Process, Place
    <2>2. \/ watcher' = [watcher EXCEPT !.claims = SwapRemove(@, k)] /\ UNCHANGED mined
          \/ UNCHANGED <<mined, watcher>>
          \/ watcher' = [watcher EXCEPT !.panic = TRUE] /\ UNCHANGED mined
          \/ /\ watcher' = [watcher EXCEPT !.claims[k].cpfp = TRUE]
             /\ mined' = [mined EXCEPT !.sent = @ \cup {<<"forfeit", c.vtxo, c.conn>>}]
          \/ mined' = [mined EXCEPT !.faults = @ + 1] /\ UNCHANGED watcher
      BY <1>7 DEF ProgressClaim
    <2>3. CASE watcher' = [watcher EXCEPT !.claims = SwapRemove(@, k)] /\ UNCHANGED mined
      <3>1. watcher'.claims = SwapRemove(watcher.claims, k) /\ watcher'.used = watcher.used
        BY <2>3 DEF Shapes
      <3>2. /\ SwapRemove(watcher.claims, k) \in Seq(Claim)
            /\ \A i \in 1 .. Len(SwapRemove(watcher.claims, k)) :
                   \E j \in 1 .. Len(watcher.claims) :
                       SwapRemove(watcher.claims, k)[i] = watcher.claims[j]
        BY <2>1, SwapRemoveFacts, Zenon
      <3> QED
        BY <1>7, <2>1, <2>3, <3>1, <3>2, FewerClaims
    <2>4. CASE \/ UNCHANGED <<mined, watcher>>
               \/ watcher' = [watcher EXCEPT !.panic = TRUE] /\ UNCHANGED mined
               \/ mined' = [mined EXCEPT !.faults = @ + 1] /\ UNCHANGED watcher
      BY <2>1, <2>4, Quiet DEF Shapes
    <2>5. CASE /\ watcher' = [watcher EXCEPT !.claims[k].cpfp = TRUE]
               /\ mined' = [mined EXCEPT !.sent = @ \cup {<<"forfeit", c.vtxo, c.conn>>}]
      BY <1>7, <2>1, <2>5, ForfeitSent
    <2> QED
      BY <2>2, <2>3, <2>4, <2>5, Zenon
  <1>8. CASE wmode.crash /\ (ProgressClaim \/ \E v \in FfVtxos : HandleExitTx(v))
    BY <1>8, <1>5, Zenon DEF ProgressClaim, HandleExitTx
  <1> QED
    BY <1>1, <1>2, <1>3, <1>4, <1>6, <1>7, <1>8 DEF WatchNext, WatchStep

(* Unless the watcher restarts, it makes no two forfeit transactions for    *)
(* one connector, whatever fails and however exits, rounds and              *)
(* confirmations interleave.                                                *)
THEOREM ConnectorsDistinctAlways == WatchSpec => []ConnectorsDistinct
  <1>1. WatchInv => ConnectorsDistinct
    BY DEF WatchInv, ConnectorsDistinct
  <1> QED
    BY <1>1, WatchInitInv, ShapesInit, ShapesStep, PlaceInit, PlaceStep,
       WatchStepInv, PTL DEF WatchSpec

(* The vtxos of claims, and those that were handled: claimed, or forfeited  *)
(* on the chain.                                                            *)
VtxosOf(s) == {s[i].vtxo : i \in 1 .. Len(s)}
Handled == VtxosOf(watcher.claims) \cup {f[1] : f \in mined.forfeits}

WatchPlaces == {"start", "start_all", "idle", "load", "detect", "handle", "progress"}

WatchTypes ==
    /\ wmode \in WatchModes /\ tables \in 0 .. Len(Forfeited)
    /\ watcher.last \in 0 .. tables /\ watcher.exits \subseteq ForfeitedUpTo(tables)
    /\ wpc.pc \in {"detect", "handle"} => watcher.exits \subseteq ForfeitedUpTo(watcher.last)
    /\ Process
    /\ \A i \in 1 .. Len(watcher.claims) :
           watcher.claims[i].conn < NbInputs(RoundOf(watcher.claims[i].vtxo))
    /\ wpc.pc \in WatchPlaces /\ wpc.todo \subseteq wpc.confirmed
    /\ wpc.confirmed \subseteq watcher.exits \cap mined.exits
    /\ wpc.pc # "handle" => wpc.confirmed = {}

(* What the watcher has read is watched or handled, at every place after    *)
(* the start.                                                               *)
Complete ==
    wmode.rounds > 0 =>
        /\ tables > 0 /\ (wpc.pc # "start" => watcher.last > 0)
        /\ wpc.pc \notin {"start", "start_all"} =>
               ForfeitedUpTo(watcher.last) \subseteq watcher.exits \cup Handled
        /\ wpc.confirmed \ wpc.todo \subseteq Handled

(* A vtxo that was handled is not watched any more, so that no round gives  *)
(* out more connectors than it has.                                         *)
Once ==
    ~wmode.fails /\ wmode.prompt /\ ~wmode.crash =>
        /\ ~watcher.panic
        /\ \A v \in mined.exits : RoundOf(v) \in mined.rounds
        /\ VtxosOf(watcher.claims) \subseteq mined.exits
        /\ Handled \subseteq ForfeitedUpTo(watcher.last)
        /\ wpc.pc \in {"start", "start_all"} => Handled = {}
        /\ Handled \cap watcher.exits \subseteq wpc.confirmed \ wpc.todo
        /\ \A r \in FfRounds : watcher.used[r] <= Cardinality(Handled \cap Forfeited[r])
        /\ \A f \in mined.sent : IsForfeit(f) => f[2] \in Handled

FfInv == WatchTypes /\ Complete /\ Once

LEMMA VtxosOfMember ==
    ASSUME NEW s, NEW v
    PROVE  v \in VtxosOf(s) <=> \E i \in 1 .. Len(s) : v = s[i].vtxo
  BY Zenon DEF VtxosOf

LEMMA SameVtxos ==
    ASSUME NEW s, NEW t, Len(t) = Len(s), \A i \in 1 .. Len(s) : t[i].vtxo = s[i].vtxo
    PROVE  VtxosOf(t) = VtxosOf(s)
  BY Zenon DEF VtxosOf

LEMMA VtxosLess ==
    ASSUME NEW s, NEW t, NEW k,
           \A i \in 1 .. Len(t) : \E j \in 1 .. Len(s) : t[i] = s[j],
           \A j \in 1 .. Len(s) : j # k => \E i \in 1 .. Len(t) : t[i] = s[j]
    PROVE  VtxosOf(t) \subseteq VtxosOf(s) /\ VtxosOf(s) \subseteq VtxosOf(t) \cup {s[k].vtxo}
  <1>1. \A v : v \in VtxosOf(t) <=> \E i \in 1 .. Len(t) : v = t[i].vtxo
    BY VtxosOfMember
  <1>2. \A v : v \in VtxosOf(s) <=> \E i \in 1 .. Len(s) : v = s[i].vtxo
    BY VtxosOfMember
  <1>3. ASSUME NEW v \in VtxosOf(t) PROVE v \in VtxosOf(s)
    <2>1. PICK i \in 1 .. Len(t) : v = t[i].vtxo
      BY <1>1, <1>3
    <2>2. PICK j \in 1 .. Len(s) : t[i] = s[j]
      BY <2>1
    <2> QED
      BY <1>2, <2>1, <2>2
  <1>4. ASSUME NEW v \in VtxosOf(s) PROVE v \in VtxosOf(t) \cup {s[k].vtxo}
    <2>1. PICK j \in 1 .. Len(s) : v = s[j].vtxo
      BY <1>2, <1>4
    <2>2. CASE j = k
      BY <2>1, <2>2
    <2>3. CASE j # k
      <3>1. PICK i \in 1 .. Len(t) : t[i] = s[j]
        BY <2>3
      <3> QED
        BY <1>1, <2>1, <3>1
    <2> QED
      BY <2>2, <2>3
  <1> QED
    BY <1>3, <1>4

LEMMA RoundsUpTo ==
    ASSUME NEW r, NEW v
    PROVE  v \in ForfeitedUpTo(r) <=> \E q \in 1 .. r : v \in Forfeited[q]
  BY DEF ForfeitedUpTo

LEMMA ForfeitedFacts ==
    /\ Len(Forfeited) \in Nat
    /\ \A v : v \in FfVtxos <=> \E r \in FfRounds : v \in Forfeited[r]
    /\ \A v \in FfVtxos : RoundOf(v) \in FfRounds /\ v \in Forfeited[RoundOf(v)]
    /\ \A r \in FfRounds : IsFiniteSet(Forfeited[r]) /\ NbInputs(r) \in Nat
  <1>1. \A v : v \in FfVtxos <=> \E r \in FfRounds : v \in Forfeited[r]
    BY WatchAssumption DEF FfVtxos, FfRounds, Range
  <1>2. \A v \in FfVtxos : RoundOf(v) \in FfRounds /\ v \in Forfeited[RoundOf(v)]
    BY <1>1 DEF RoundOf
  <1>3. \A r \in FfRounds : IsFiniteSet(Forfeited[r]) /\ NbInputs(r) \in Nat
    BY WatchAssumption, FS_CardinalityType DEF FfRounds, NbInputs
  <1> QED
    BY <1>1, <1>2, <1>3, WatchAssumption

LEMMA UpToVtxos == \A r \in 0 .. Len(Forfeited) : ForfeitedUpTo(r) \subseteq FfVtxos
  BY RoundsUpTo, ForfeitedFacts DEF FfRounds

(* A round's vtxos are those of no earlier round. *)
LEMMA UpToApart ==
    ASSUME NEW r \in 0 .. Len(Forfeited), NEW q \in FfRounds, q > r
    PROVE  Forfeited[q] \cap ForfeitedUpTo(r) = {}
  BY RoundsUpTo, ForfeitedFacts, WatchAssumption DEF FfRounds

LEMMA FfInitInv == WatchInit => FfInv
  <1> SUFFICES ASSUME WatchInit PROVE FfInv
    OBVIOUS
  <1>1. wpc = [pc |-> "start", todo |-> {}, confirmed |-> {}, idx |-> 1]
    BY DEF WatchInit, Idle
  <1>2. Handled = {} /\ VtxosOf(watcher.claims) = {} /\ mined.sent = {} /\ mined.exits = {}
    BY DEF WatchInit, NewProcess, Handled, VtxosOf
  <1>3. wmode.rounds \in 0 .. Len(Forfeited) /\ tables = wmode.rounds
    BY WatchAssumption DEF WatchInit
  <1>4. WatchTypes
    BY <1>1, <1>3, WatchAssumption DEF WatchInit, NewProcess, WatchTypes, Process, WatchPlaces
  <1>5. Complete
    BY <1>1, <1>3, WatchAssumption DEF Complete
  <1>6. Once
    <2>1. \A r \in FfRounds : watcher.used[r] = 0 /\ Handled \cap Forfeited[r] = {}
      BY <1>2 DEF WatchInit, NewProcess
    <2>2. Cardinality({}) = 0
      BY FS_EmptySet
    <2>3. ~watcher.panic
      BY DEF WatchInit, NewProcess
    <2> QED
      BY <1>2, <2>1, <2>2, <2>3 DEF Once
  <1> QED
    BY <1>4, <1>5, <1>6 DEF FfInv


(* Steps of the chain and of the round tables. *)
LEMMA ChainMoves ==
    ASSUME FfInv, wmode' = wmode, watcher' = watcher, wpc' = wpc,
           tables' \in tables .. Len(Forfeited),
           mined.rounds \subseteq mined'.rounds, mined.exits \subseteq mined'.exits,
           mined'.sent = mined.sent, Handled \subseteq Handled',
           ~wmode.fails /\ wmode.prompt /\ ~wmode.crash =>
               /\ Handled' = Handled
               /\ \A v \in mined'.exits \ mined.exits : RoundOf(v) \in mined'.rounds
    PROVE  FfInv'
  <1>1. WatchTypes'
    <2>1. ForfeitedUpTo(tables) \subseteq ForfeitedUpTo(tables')
      BY RoundsUpTo, ForfeitedFacts DEF FfInv, WatchTypes
    <2> QED
      BY <2>1, ForfeitedFacts DEF FfInv, WatchTypes, Process
  <1>2. Complete'
    BY ForfeitedFacts DEF FfInv, WatchTypes, Complete
  <1>3. Once'
    BY DEF FfInv, Once, IsForfeit
  <1> QED
    BY <1>1, <1>2, <1>3 DEF FfInv

(* Steps that read rounds or drop vtxos. *)
LEMMA LoadMoves ==
    ASSUME FfInv, wmode' = wmode, tables' = tables,
           mined'.rounds = mined.rounds, mined'.exits = mined.exits,
           mined'.forfeits = mined.forfeits, mined'.sent = mined.sent,
           watcher'.used = watcher.used, watcher'.claims = watcher.claims,
           watcher'.panic = watcher.panic,
           watcher'.last \in watcher.last .. tables, watcher'.exits \subseteq ForfeitedUpTo(tables),
           wpc'.pc \in {"detect", "handle"} => watcher'.exits \subseteq ForfeitedUpTo(watcher'.last),
           wpc'.todo = {}, wpc'.confirmed = {}, wpc'.pc \in WatchPlaces,
           wmode.rounds > 0 =>
               /\ wpc'.pc # "start" => watcher'.last > 0
               /\ wpc'.pc \notin {"start", "start_all"} =>
                      ForfeitedUpTo(watcher'.last) \subseteq watcher'.exits \cup Handled,
           ~wmode.fails /\ wmode.prompt /\ ~wmode.crash =>
               Handled \cap watcher'.exits = {} /\ (wpc'.pc \in {"start", "start_all"} => Handled = {})
    PROVE  FfInv'
  <1>1. Handled' = Handled
    BY Zenon DEF Handled
  <1>2. WatchTypes'
    BY ForfeitedFacts DEF FfInv, WatchTypes, Process
  <1>3. Complete'
    BY <1>1, Zenon DEF FfInv, WatchTypes, Complete
  <1>4. ForfeitedUpTo(watcher.last) \subseteq ForfeitedUpTo(watcher'.last)
    BY RoundsUpTo, ForfeitedFacts DEF FfInv, WatchTypes
  <1>5. Once'
    BY <1>1, <1>4 DEF FfInv, Once, IsForfeit
  <1> QED
    BY <1>2, <1>3, <1>5 DEF FfInv

LEMMA SwapRemoveRest ==
    ASSUME NEW S, NEW s \in Seq(S), NEW k \in 1 .. Len(s), NEW j \in 1 .. Len(s), j # k
    PROVE  \E i \in 1 .. Len(SwapRemove(s, k)) : SwapRemove(s, k)[i] = s[j]
  <1>1. CASE k = Len(s)
    <2>1. SwapRemove(s, k) = SubSeq(s, 1, Len(s) - 1)
      BY <1>1 DEF SwapRemove
    <2>2. Len(SubSeq(s, 1, Len(s) - 1)) = Len(s) - 1 /\ j \in 1 .. Len(s) - 1
      BY <1>1
    <2>3. SubSeq(s, 1, Len(s) - 1)[j] = s[j]
      BY <2>2
    <2> QED
      BY <2>1, <2>2, <2>3
  <1>2. CASE k # Len(s)
    <2> DEFINE t == [s EXCEPT ![k] = s[Len(s)]]
    <2>1. t \in Seq(S) /\ Len(t) = Len(s) /\ t[k] = s[Len(s)] /\ t[j] = s[j]
      OBVIOUS
    <2>2. SwapRemove(s, k) = SubSeq(t, 1, Len(t) - 1)
      BY <1>2 DEF SwapRemove
    <2> HIDE DEF t
    <2>3. Len(SubSeq(t, 1, Len(t) - 1)) = Len(s) - 1
      BY <2>1
    <2>4. \A i \in 1 .. Len(s) - 1 : SubSeq(t, 1, Len(t) - 1)[i] = t[i]
      BY <2>1
    <2>5. k \in 1 .. Len(s) - 1 /\ (j = Len(s) \/ j \in 1 .. Len(s) - 1)
      BY <1>2
    <2> QED
      BY <2>1, <2>2, <2>3, <2>4, <2>5
  <1> QED
    BY <1>1, <1>2

(* A claim is added. *)
LEMMA ClaimAdded ==
    ASSUME NEW s \in Seq(Claim), NEW c \in Claim
    PROVE  VtxosOf(Append(s, c)) = VtxosOf(s) \cup {c.vtxo}
  <1>1. Len(Append(s, c)) = Len(s) + 1 /\ Len(s) \in Nat /\ Append(s, c)[Len(s) + 1] = c
    OBVIOUS
  <1>2. \A i \in 1 .. Len(s) : Append(s, c)[i] = s[i]
    OBVIOUS
  <1>3. \A i \in 1 .. Len(s) + 1 : i \in 1 .. Len(s) \/ i = Len(s) + 1
    BY <1>1
  <1>4. \A i \in 1 .. Len(s) : i \in 1 .. Len(s) + 1
    BY <1>1
  <1>5. Len(s) + 1 \in 1 .. Len(s) + 1
    BY <1>1
  <1> QED
    BY <1>1, <1>2, <1>3, <1>4, <1>5, Zenon DEF VtxosOf

(* Loading, in the order of the code. *)
LEMMA LoadSteps ==
    ASSUME FfInv, Shapes, LoadState \/ FetchAllForfeited \/ LoadFirst \/ LoadFresh \/ HandleEnd \/ ProgressEnd
    PROVE  FfInv'
  <1>1. /\ Len(Forfeited) \in Nat /\ wmode \in WatchModes /\ tables \in 0 .. Len(Forfeited)
        /\ watcher.last \in 0 .. tables /\ watcher.exits \subseteq ForfeitedUpTo(tables)
        /\ wpc.pc # "handle" => wpc.confirmed = {}
    BY ForfeitedFacts DEF FfInv, WatchTypes
  <1>2. ASSUME NEW pc, GotoW(pc) PROVE wpc'.pc = pc /\ wpc'.todo = {} /\ wpc'.confirmed = {}
    BY <1>2, Zenon DEF GotoW, Idle
  <1>3. CASE LoadState
    <2>1. /\ watcher'.last = tables /\ watcher'.exits = watcher.exits /\ watcher'.used = watcher.used
          /\ watcher'.claims = watcher.claims /\ watcher'.panic = watcher.panic
          /\ wmode' = wmode /\ tables' = tables /\ mined' = mined /\ wpc.pc = "start"
      BY <1>3 DEF LoadState, Shapes
    <2>2. wpc'.pc = "start_all" /\ wpc'.todo = {} /\ wpc'.confirmed = {}
      BY <1>2, <1>3, Zenon DEF LoadState
    <2> QED
      BY <1>1, <2>1, <2>2, LoadMoves DEF FfInv, Complete, Once, WatchPlaces
  <1>4. CASE FetchAllForfeited
    <2>1. /\ watcher'.last = watcher.last /\ watcher'.exits = ForfeitedUpTo(tables)
          /\ watcher'.used = watcher.used /\ watcher'.claims = watcher.claims
          /\ watcher'.panic = watcher.panic
          /\ wmode' = wmode /\ tables' = tables /\ mined' = mined /\ wpc.pc = "start_all"
      BY <1>4 DEF FetchAllForfeited, Shapes
    <2>2. wpc'.pc = "idle" /\ wpc'.todo = {} /\ wpc'.confirmed = {}
      BY <1>2, <1>4 DEF FetchAllForfeited
    <2>3. ForfeitedUpTo(watcher.last) \subseteq ForfeitedUpTo(tables)
      BY <1>1, RoundsUpTo
    <2> QED
      BY <1>1, <2>1, <2>2, <2>3, LoadMoves DEF FfInv, Complete, Once, WatchPlaces
  <1>5. CASE LoadFirst
    <2>1. /\ watcher'.used = watcher.used /\ watcher'.claims = watcher.claims
          /\ watcher'.panic = watcher.panic
          /\ wmode' = wmode /\ tables' = tables /\ mined' = mined /\ wpc.pc = "idle"
      BY <1>5 DEF LoadFirst, Shapes
    <2>2. /\ wpc'.pc = (IF watcher'.last = 0 THEN "detect" ELSE "load")
          /\ wpc'.todo = {} /\ wpc'.confirmed = {}
      BY <1>2, <1>5, Zenon DEF LoadFirst
    <2>3. CASE watcher.last = 0 /\ tables > 0
      <3>1. watcher'.last = tables /\ watcher'.exits = watcher.exits \cup Forfeited[tables]
        BY <1>5, <2>3 DEF LoadFirst, Shapes
      <3>2. tables \in FfRounds
        BY <1>1, <2>3 DEF FfRounds
      <3>3. Forfeited[tables] \subseteq ForfeitedUpTo(tables)
        BY <1>1, <2>3, RoundsUpTo
      <3>4. ForfeitedUpTo(watcher.last) = {}
        BY <2>3, RoundsUpTo
      <3> QED
        BY <1>1, <2>1, <2>2, <2>3, <3>1, <3>3, <3>4, LoadMoves DEF FfInv, Complete, Once, WatchPlaces
    <2>4. CASE ~(watcher.last = 0 /\ tables > 0)
      <3>1. watcher' = watcher /\ (watcher.last = 0 => tables = 0)
        BY <1>1, <1>5, <2>4 DEF LoadFirst
      <3> QED
        BY <1>1, <2>1, <2>2, <3>1, LoadMoves DEF FfInv, Complete, Once, WatchPlaces
    <2> QED
      BY <2>3, <2>4
  <1>6. CASE LoadFresh
    <2> DEFINE New == UNION {Forfeited[r] : r \in (watcher.last + 1) .. tables}
    <2>1. /\ watcher'.last = tables /\ watcher'.exits = watcher.exits \cup New
          /\ watcher'.used = watcher.used /\ watcher'.claims = watcher.claims
          /\ watcher'.panic = watcher.panic
          /\ wmode' = wmode /\ tables' = tables /\ mined' = mined /\ wpc.pc = "load"
      BY <1>6 DEF LoadFresh, Shapes
    <2>2. wpc'.pc = "detect" /\ wpc'.todo = {} /\ wpc'.confirmed = {}
      BY <1>2, <1>6 DEF LoadFresh
    <2>3. \A v : v \in New <=> \E r \in (watcher.last + 1) .. tables : v \in Forfeited[r]
      OBVIOUS
    <2> HIDE DEF New
    <2>4. \A r \in (watcher.last + 1) .. tables : r \in FfRounds /\ r > watcher.last
      BY <1>1 DEF FfRounds
    <2>5. New \subseteq ForfeitedUpTo(tables) /\ New \cap ForfeitedUpTo(watcher.last) = {}
      <3>1. \A r \in (watcher.last + 1) .. tables : r \in 1 .. tables
        BY <1>1
      <3> QED
        BY <1>1, <2>3, <2>4, <3>1, RoundsUpTo, UpToApart
    <2>6. ForfeitedUpTo(tables) \subseteq ForfeitedUpTo(watcher.last) \cup New
      <3>1. \A q \in 1 .. tables : q \in 1 .. watcher.last \/ q \in (watcher.last + 1) .. tables
        BY <1>1
      <3> QED
        BY <2>3, <3>1, RoundsUpTo
    <2> QED
      BY <1>1, <2>1, <2>2, <2>5, <2>6, LoadMoves DEF FfInv, Complete, Once, WatchPlaces
  <1>7. CASE HandleEnd
    <2>1. /\ watcher'.last = watcher.last /\ watcher'.exits = watcher.exits \ wpc.confirmed
          /\ watcher'.used = watcher.used /\ watcher'.claims = watcher.claims
          /\ watcher'.panic = watcher.panic
          /\ wmode' = wmode /\ tables' = tables /\ mined' = mined
          /\ wpc.pc = "handle" /\ wpc.todo = {}
      BY <1>7 DEF HandleEnd, Shapes
    <2>2. wpc'.pc = "progress" /\ wpc'.todo = {} /\ wpc'.confirmed = {}
      BY <1>2, <1>7, Zenon DEF HandleEnd
    <2> QED
      BY <1>1, <2>1, <2>2, LoadMoves DEF FfInv, Complete, Once, WatchPlaces
  <1>8. CASE ProgressEnd
    <2>1. watcher' = watcher /\ wmode' = wmode /\ tables' = tables /\ mined' = mined /\ wpc.pc = "progress"
      BY <1>8 DEF ProgressEnd
    <2>2. wpc'.pc = "idle" /\ wpc'.todo = {} /\ wpc'.confirmed = {}
      BY <1>2, <1>8 DEF ProgressEnd
    <2> QED
      BY <1>1, <2>1, <2>2, LoadMoves DEF FfInv, Complete, Once, WatchPlaces
  <1> QED
    BY <1>3, <1>4, <1>5, <1>6, <1>7, <1>8

(* A vtxo that waits to be handled has a connector left. *)
LEMMA ConnectorLeft ==
    ASSUME FfInv, ~wmode.fails, wmode.prompt, ~wmode.crash, NEW v \in wpc.todo
    PROVE  /\ v \notin Handled /\ watcher.used[RoundOf(v)] < NbInputs(RoundOf(v))
           /\ Cardinality((Handled \cup {v}) \cap Forfeited[RoundOf(v)])
                  = Cardinality(Handled \cap Forfeited[RoundOf(v)]) + 1
  <1> DEFINE r == RoundOf(v)
             H == Handled \cap Forfeited[r]
  <1>1. v \in watcher.exits /\ v \in FfVtxos /\ v \notin Handled
    BY UpToVtxos DEF FfInv, WatchTypes, Once
  <1>2. r \in FfRounds /\ v \in Forfeited[r] /\ IsFiniteSet(Forfeited[r]) /\ NbInputs(r) \in Nat
    BY <1>1, ForfeitedFacts, Zenon
  <1>3. watcher.used[r] \in Nat /\ watcher.used[r] <= Cardinality(H)
    BY <1>2, Zenon DEF FfInv, WatchTypes, Process, Once
  <1>4. IsFiniteSet(H) /\ v \notin H /\ H \subseteq Forfeited[r]
    BY <1>1, <1>2, FS_Subset, Zenon
  <1>5. Cardinality(H \cup {v}) = Cardinality(H) + 1 /\ Cardinality(H) \in Nat
    BY <1>4, FS_AddElement, FS_CardinalityType, Zenon
  <1>6. H \cup {v} \subseteq Forfeited[r]
    BY <1>2
  <1>7. Cardinality(H \cup {v}) <= NbInputs(r)
    BY <1>2, <1>6, FS_Subset DEF NbInputs
  <1>8. (Handled \cup {v}) \cap Forfeited[r] = H \cup {v}
    BY <1>2
  <1>9. watcher.used[r] < NbInputs(r)
    <2> HIDE DEF H, r
    <2> QED
      BY <1>2, <1>3, <1>5, <1>7
  <1>10. Cardinality((Handled \cup {v}) \cap Forfeited[r]) = Cardinality(H) + 1
    BY <1>5, <1>8
  <1> QED
    BY <1>1, <1>9, <1>10, Zenon

LEMMA ClaimMade ==
    ASSUME FfInv, Shapes, Place, NEW v \in wpc.todo, wpc.pc = "handle",
           watcher.used[RoundOf(v)] < NbInputs(RoundOf(v)), wmode' = wmode, tables' = tables,
           watcher' = [watcher EXCEPT !.used[RoundOf(v)] = @ + 1,
                                      !.claims = Append(@, [vtxo |-> v, conn |-> watcher.used[RoundOf(v)],
                                                            cpfp |-> FALSE])],
           wpc' = [wpc EXCEPT !.todo = @ \ {v}],
           mined'.rounds = mined.rounds, mined'.exits = mined.exits, mined'.forfeits = mined.forfeits,
           \A f \in mined'.sent : f \in mined.sent \/ ~IsForfeit(f)
    PROVE  FfInv'
  <1> DEFINE r == RoundOf(v)
             n == watcher.used[r]
             new == [vtxo |-> v, conn |-> n, cpfp |-> FALSE]
  <1>1. /\ v \in watcher.exits /\ v \in mined.exits /\ v \in wpc.confirmed /\ v \in FfVtxos
        /\ v \in ForfeitedUpTo(watcher.last)
    BY UpToVtxos DEF FfInv, WatchTypes
  <1>2. r \in FfRounds /\ v \in Forfeited[r]
    BY <1>1, ForfeitedFacts
  <1>3. watcher.used \in [FfRounds -> Nat] /\ n \in Nat /\ watcher.claims \in Seq(Claim) /\ new \in Claim
    BY <1>1, <1>2 DEF FfInv, WatchTypes, Process, Claim
  <1>4. /\ watcher'.used = [watcher.used EXCEPT ![r] = n + 1]
        /\ watcher'.claims = Append(watcher.claims, new)
        /\ watcher'.last = watcher.last /\ watcher'.exits = watcher.exits /\ watcher'.panic = watcher.panic
    BY DEF Shapes
  <1>5. wpc'.pc = wpc.pc /\ wpc'.confirmed = wpc.confirmed /\ wpc'.todo = wpc.todo \ {v}
    BY DEF Place
  <1>6. VtxosOf(watcher'.claims) = VtxosOf(watcher.claims) \cup {v}
    BY <1>3, <1>4, ClaimAdded
  <1>7. Handled' = Handled \cup {v}
    BY <1>6, Zenon DEF Handled
  <1>8. watcher'.used \in [FfRounds -> Nat]
    BY <1>2, <1>3, <1>4
  <1>9. /\ watcher'.claims \in Seq(Claim)
        /\ \A i \in 1 .. Len(watcher'.claims) :
               watcher'.claims[i].conn < NbInputs(RoundOf(watcher'.claims[i].vtxo))
    <2> HIDE DEF new
    <2>1. /\ watcher'.claims \in Seq(Claim) /\ Len(watcher'.claims) = Len(watcher.claims) + 1
          /\ watcher'.claims[Len(watcher.claims) + 1] = new
          /\ \A i \in 1 .. Len(watcher.claims) : watcher'.claims[i] = watcher.claims[i]
      <3> DEFINE s == watcher.claims
      <3>1. s \in Seq(Claim) /\ new \in Claim /\ watcher'.claims = Append(s, new)
        BY <1>3, <1>4
      <3> HIDE DEF s
      <3>2. /\ Append(s, new) \in Seq(Claim) /\ Len(Append(s, new)) = Len(s) + 1
            /\ Append(s, new)[Len(s) + 1] = new
            /\ \A i \in 1 .. Len(s) : Append(s, new)[i] = s[i]
        BY <3>1
      <3> QED
        BY <3>1, <3>2, Zenon DEF s
    <2>2. new.conn < NbInputs(RoundOf(new.vtxo))
      BY DEF new
    <2>3. \A i \in 1 .. Len(watcher.claims) + 1 : i \in 1 .. Len(watcher.claims) \/ i = Len(watcher.claims) + 1
      BY <1>3
    <2> QED
      BY <2>1, <2>2, <2>3, Zenon DEF FfInv, WatchTypes
  <1> HIDE DEF new, n
  <1>10. WatchTypes'
    BY <1>4, <1>5, <1>8, <1>9, Zenon DEF FfInv, WatchTypes, Process
  <1>11. Complete'
    BY <1>4, <1>5, <1>7, Zenon DEF FfInv, Complete
  <1>12. Once'
    <2> SUFFICES ASSUME ~wmode.fails, wmode.prompt, ~wmode.crash PROVE Once'
      BY Zenon DEF Once
    <2>1. Once
      BY DEF FfInv
    <2>2. \A q \in FfRounds : watcher'.used[q] <= Cardinality(Handled' \cap Forfeited[q])
      <3> SUFFICES ASSUME NEW q \in FfRounds
                   PROVE  watcher'.used[q] <= Cardinality(Handled' \cap Forfeited[q])
        OBVIOUS
      <3>1. watcher.used[q] <= Cardinality(Handled \cap Forfeited[q]) /\ watcher.used[q] \in Nat
        BY <1>3, <2>1 DEF Once
      <3>2. CASE q = r
        <4>1. watcher'.used[q] = watcher.used[q] + 1
          BY <1>3, <1>4, <3>2 DEF n
        <4>2. Cardinality(Handled' \cap Forfeited[q]) = Cardinality(Handled \cap Forfeited[q]) + 1
          BY <1>7, <3>2, ConnectorLeft
        <4>3. Cardinality(Handled \cap Forfeited[q]) \in Nat
          BY ForfeitedFacts, FS_Subset, FS_CardinalityType
        <4> QED
          BY <3>1, <4>1, <4>2, <4>3
      <3>3. CASE q # r
        <4>1. watcher'.used[q] = watcher.used[q]
          BY <1>3, <1>4, <3>3
        <4>2. Handled' \cap Forfeited[q] = Handled \cap Forfeited[q]
          BY <1>2, <1>7, <3>3, WatchAssumption DEF FfRounds
        <4> QED
          BY <3>1, <4>1, <4>2, Zenon
      <3> QED
        BY <3>2, <3>3
    <2> QED
      BY <1>1, <1>4, <1>5, <1>6, <1>7, <2>1, <2>2, Zenon DEF Once, IsForfeit
  <1> QED
    BY <1>10, <1>11, <1>12 DEF FfInv

(* Steps of progress_claim. *)
LEMMA ClaimMoves ==
    ASSUME FfInv, wpc.pc = "progress", wmode' = wmode, tables' = tables,
           mined'.rounds = mined.rounds, mined'.exits = mined.exits, mined'.forfeits = mined.forfeits,
           watcher'.last = watcher.last, watcher'.exits = watcher.exits, watcher'.used = watcher.used,
           watcher'.claims \in Seq(Claim),
           \A i \in 1 .. Len(watcher'.claims) : \E j \in 1 .. Len(watcher.claims) :
               /\ watcher'.claims[i].vtxo = watcher.claims[j].vtxo
               /\ watcher'.claims[i].conn = watcher.claims[j].conn,
           Handled' = Handled,
           ~wmode.fails /\ wmode.prompt /\ ~wmode.crash => watcher'.panic = watcher.panic,
           wpc'.pc \in {"progress", "idle"}, wpc'.todo = {}, wpc'.confirmed = {},
           \A f \in mined'.sent : f \in mined.sent \/ ~IsForfeit(f) \/ f[2] \in Handled
    PROVE  FfInv'
  <1>1. WatchTypes'
    <2>1. Process'
      BY Zenon DEF FfInv, WatchTypes, Process
    <2>2. \A i \in 1 .. Len(watcher'.claims) :
              watcher'.claims[i].conn < NbInputs(RoundOf(watcher'.claims[i].vtxo))
      BY Zenon DEF FfInv, WatchTypes
    <2> QED
      BY <2>1, <2>2 DEF FfInv, WatchTypes, WatchPlaces
  <1>2. Complete'
    BY Zenon DEF FfInv, Complete
  <1>3. Once'
    <2>1. VtxosOf(watcher'.claims) \subseteq VtxosOf(watcher.claims)
      BY Zenon DEF VtxosOf
    <2>2. wpc.confirmed = {}
      BY DEF FfInv, WatchTypes
    <2> QED
      BY <2>1, <2>2, Zenon DEF FfInv, Once, IsForfeit
  <1> QED
    BY <1>1, <1>2, <1>3 DEF FfInv

LEMMA ClaimSteps ==
    ASSUME FfInv, Shapes, Place, ProgressClaim
    PROVE  FfInv'
  <1> DEFINE k == wpc.idx
             s == watcher.claims
             c == s[k]
             r == RoundOf(c.vtxo)
  <1>1. wpc.pc = "progress" /\ wmode' = wmode /\ tables' = tables /\ k \in 1 .. Len(s) /\ s \in Seq(Claim)
    BY SMTT(60) DEF ProgressClaim, FfInv, WatchTypes, Process, Place
  <1>2. wpc.todo = {} /\ wpc.confirmed = {}
    BY <1>1 DEF FfInv, WatchTypes
  <1>3. c \in Claim
    BY <1>1
  <1>4. ASSUME NEW pc, GotoW(pc) PROVE wpc'.pc = pc /\ wpc'.todo = {} /\ wpc'.confirmed = {}
    BY <1>4 DEF GotoW, Idle
  <1>5. CASE /\ <<c.vtxo, c.conn>> \in mined.forfeits
             /\ watcher' = [watcher EXCEPT !.claims = SwapRemove(@, k)]
             /\ UNCHANGED <<mined, wpc>>
    <2> DEFINE t == SwapRemove(s, k)
    <2>1. /\ watcher'.claims = t /\ watcher'.last = watcher.last /\ watcher'.exits = watcher.exits
          /\ watcher'.used = watcher.used /\ watcher'.panic = watcher.panic
      BY <1>5 DEF Shapes
    <2>2. t \in Seq(Claim) /\ \A i \in 1 .. Len(t) : \E j \in 1 .. Len(s) : t[i] = s[j]
      BY <1>1, SwapRemoveFacts
    <2>3. \A j \in 1 .. Len(s) : j # k => \E i \in 1 .. Len(t) : t[i] = s[j]
      BY <1>1, SwapRemoveRest, Zenon
    <2>4. c.vtxo \in {f[1] : f \in mined.forfeits}
      BY <1>5
    <2> HIDE DEF t
    <2>5. VtxosOf(t) \subseteq VtxosOf(s) /\ VtxosOf(s) \subseteq VtxosOf(t) \cup {c.vtxo}
      BY <2>2, <2>3, VtxosLess, Zenon
    <2>6. Handled' = Handled
      <3>1. Handled' = VtxosOf(t) \cup {f[1] : f \in mined.forfeits}
        BY <1>5, <2>1 DEF Handled
      <3> QED
        BY <2>4, <2>5, <3>1 DEF Handled
    <2>7. /\ mined' = mined /\ wpc'.pc = "progress" /\ wpc'.todo = {} /\ wpc'.confirmed = {}
      BY <1>1, <1>2, <1>5
    <2> QED
      BY <1>1, <2>1, <2>2, <2>6, <2>7, ClaimMoves, Zenon
  <1>6. CASE wpc' = [wpc EXCEPT !.idx = @ + 1] /\ UNCHANGED <<mined, watcher>>
    <2>1. wpc'.pc = "progress" /\ wpc'.todo = {} /\ wpc'.confirmed = {}
      BY <1>1, <1>2, <1>6 DEF Place
    <2>2. Handled' = Handled
      BY <1>6 DEF Handled
    <2> QED
      BY <1>1, <1>6, <2>1, <2>2, ClaimMoves
  <1>7. CASE /\ ~c.cpfp /\ NbInputs(r) = 1 /\ r \notin mined.rounds
             /\ watcher' = [watcher EXCEPT !.panic = TRUE] /\ GotoW("idle") /\ UNCHANGED mined
    <2>1. /\ watcher'.claims = s /\ watcher'.last = watcher.last /\ watcher'.exits = watcher.exits
          /\ watcher'.used = watcher.used
      BY <1>7 DEF Shapes
    <2>2. Handled' = Handled
      BY <1>7, <2>1 DEF Handled
    <2>3. ~(~wmode.fails /\ wmode.prompt /\ ~wmode.crash)
      <3>1. c.vtxo \in VtxosOf(s)
        BY <1>1, Zenon DEF VtxosOf
      <3> QED
        BY <1>7, <3>1 DEF FfInv, Once
    <2> QED
      BY <1>1, <1>4, <1>7, <2>1, <2>2, <2>3, ClaimMoves, Zenon
  <1>8. CASE /\ watcher' = [watcher EXCEPT !.claims[k].cpfp = TRUE]
             /\ mined' = [mined EXCEPT !.sent = @ \cup {<<"forfeit", c.vtxo, c.conn>>}]
             /\ wpc' = [wpc EXCEPT !.idx = @ + 1]
    <2> DEFINE d == [c EXCEPT !.cpfp = TRUE]
               t == [s EXCEPT ![k] = d]
               sent == <<"forfeit", c.vtxo, c.conn>>
    <2>1. /\ watcher'.claims = t /\ watcher'.last = watcher.last /\ watcher'.exits = watcher.exits
          /\ watcher'.used = watcher.used /\ watcher'.panic = watcher.panic
          /\ mined'.rounds = mined.rounds /\ mined'.exits = mined.exits
          /\ mined'.forfeits = mined.forfeits /\ mined'.sent = mined.sent \cup {sent}
      BY <1>8 DEF Shapes
    <2>2. d \in Claim /\ d.vtxo = c.vtxo /\ d.conn = c.conn
      BY <1>3, Zenon DEF Claim
    <2>3. wpc'.pc = "progress" /\ wpc'.todo = {} /\ wpc'.confirmed = {}
      BY <1>1, <1>2, <1>8 DEF Place
    <2>4. sent[2] = c.vtxo
      OBVIOUS
    <2> HIDE DEF d, sent
    <2>5. t \in Seq(Claim) /\ Len(t) = Len(s) /\ \A i \in 1 .. Len(s) : t[i] = IF i = k THEN d ELSE s[i]
      BY <1>1, <2>2
    <2> HIDE DEF t
    <2>6. \A i \in 1 .. Len(s) : t[i].vtxo = s[i].vtxo /\ t[i].conn = s[i].conn
      BY <2>2, <2>5, Zenon
    <2>7. VtxosOf(t) = VtxosOf(s) /\ c.vtxo \in VtxosOf(s)
      <3>1. VtxosOf(t) = VtxosOf(s)
        BY <2>5, <2>6, SameVtxos
      <3> QED
        BY <1>1, <3>1, VtxosOfMember
    <2>8. Handled' = Handled /\ c.vtxo \in Handled
      BY <2>1, <2>7, Zenon DEF Handled
    <2>9. \A f \in mined'.sent : f \in mined.sent \/ ~IsForfeit(f) \/ f[2] \in Handled
      BY <2>1, <2>4, <2>8
    <2>10. \A i \in 1 .. Len(t) : \E j \in 1 .. Len(s) : t[i].vtxo = s[j].vtxo /\ t[i].conn = s[j].conn
      BY <2>5, <2>6
    <2> QED
      BY <1>1, <2>1, <2>3, <2>5, <2>8, <2>9, <2>10, ClaimMoves, Zenon
  <1>9. CASE mined' = [mined EXCEPT !.faults = @ + 1] /\ GotoW("idle") /\ UNCHANGED watcher
    <2>1. /\ mined'.rounds = mined.rounds /\ mined'.exits = mined.exits
          /\ mined'.forfeits = mined.forfeits /\ mined'.sent = mined.sent
      BY <1>9 DEF Shapes
    <2>2. Handled' = Handled
      BY <1>9, <2>1 DEF Handled
    <2> QED
      BY <1>1, <1>4, <1>9, <2>1, <2>2, ClaimMoves
  <1> QED
    BY <1>5, <1>6, <1>7, <1>8, <1>9, Zenon DEF ProgressClaim

LEMMA ChainSteps ==
    ASSUME FfInv, Shapes, FfChain \/ StoreRound \/ \E v \in FfVtxos : MineExit(v)
    PROVE  FfInv'
  <1>1. tables \in 0 .. Len(Forfeited) /\ Len(Forfeited) \in Nat /\ tables \in tables .. Len(Forfeited)
    BY ForfeitedFacts DEF FfInv, WatchTypes
  <1>2. CASE StoreRound
    <2>1. Handled' = Handled
      BY <1>2 DEF StoreRound, Handled
    <2> QED
      BY <1>1, <1>2, <2>1, ChainMoves DEF StoreRound
  <1>3. ASSUME NEW r, MineRoundTx(r) PROVE FfInv'
    <2>1. /\ mined'.rounds = mined.rounds \cup {r} /\ mined'.exits = mined.exits
          /\ mined'.forfeits = mined.forfeits /\ mined'.sent = mined.sent
      BY <1>3 DEF MineRoundTx, Shapes
    <2>2. Handled' = Handled
      BY <1>3, <2>1 DEF MineRoundTx, Handled
    <2> QED
      BY <1>1, <1>3, <2>1, <2>2, ChainMoves DEF MineRoundTx
  <1>4. ASSUME NEW r, NEW i, MineConnector(r, i) PROVE FfInv'
    <2>1. /\ mined'.rounds = mined.rounds /\ mined'.exits = mined.exits
          /\ mined'.forfeits = mined.forfeits /\ mined'.sent = mined.sent
      BY <1>4 DEF MineConnector, Shapes
    <2>2. Handled' = Handled
      BY <1>4, <2>1 DEF MineConnector, Handled
    <2> QED
      BY <1>1, <1>4, <2>1, <2>2, ChainMoves DEF MineConnector
  <1>5. ASSUME NEW v, NEW i, MineForfeit(v, i) PROVE FfInv'
    <2>1. /\ mined'.rounds = mined.rounds /\ mined'.exits = mined.exits
          /\ mined'.forfeits = mined.forfeits \cup {<<v, i>>} /\ mined'.sent = mined.sent
      BY <1>5 DEF MineForfeit, Shapes
    <2>2. Handled' = Handled \cup {v}
      <3> DEFINE p == <<v, i>>
      <3>1. p[1] = v /\ mined'.forfeits = mined.forfeits \cup {p} /\ watcher' = watcher
        BY <1>5, <2>1 DEF MineForfeit
      <3> HIDE DEF p
      <3>2. {f[1] : f \in mined.forfeits \cup {p}} = {f[1] : f \in mined.forfeits} \cup {p[1]}
        BY Zenon
      <3> QED
        BY <3>1, <3>2 DEF Handled
    <2>3. <<"forfeit", v, i>> \in mined.sent /\ IsForfeit(<<"forfeit", v, i>>)
      BY <1>5 DEF MineForfeit, IsForfeit
    <2>4. ~wmode.fails /\ wmode.prompt /\ ~wmode.crash => v \in Handled
      BY <2>3 DEF FfInv, Once
    <2> QED
      BY <1>1, <1>5, <2>1, <2>2, <2>4, ChainMoves DEF MineForfeit
  <1>6. ASSUME NEW v, MineExit(v) PROVE FfInv'
    <2>1. /\ mined'.rounds = mined.rounds /\ mined'.exits = mined.exits \cup {v}
          /\ mined'.forfeits = mined.forfeits /\ mined'.sent = mined.sent
      BY <1>6 DEF MineExit, Shapes
    <2>2. Handled' = Handled
      BY <1>6, <2>1 DEF MineExit, Handled
    <2> QED
      BY <1>1, <1>6, <2>1, <2>2, ChainMoves DEF MineExit
  <1> QED
    BY <1>2, <1>3, <1>4, <1>5, <1>6 DEF FfChain

LEMMA HandleSteps ==
    ASSUME FfInv, Shapes, Place, NEW v \in FfVtxos, HandleExitTx(v)
    PROVE  FfInv'
  <1> DEFINE r == RoundOf(v)
             i == watcher.used[r]
             claim == [vtxo |-> v, conn |-> i, cpfp |-> FALSE]
             conn == <<"conn", r, ConnectorTx(NbInputs(r), i)>>
  <1>1. wpc.pc = "handle" /\ v \in wpc.todo /\ wmode' = wmode /\ tables' = tables
    BY Zenon DEF HandleExitTx
  <1>2. r \in FfRounds /\ i \in Nat /\ NbInputs(r) \in Nat
    BY ForfeitedFacts DEF FfInv, WatchTypes, Process
  <1>3. ASSUME NEW pc, GotoW(pc) PROVE wpc'.pc = pc /\ wpc'.todo = {} /\ wpc'.confirmed = {}
    BY <1>3, Zenon DEF GotoW, Idle
  <1>4. CASE i >= NbInputs(r)
    <2>1. watcher' = [watcher EXCEPT !.panic = TRUE] /\ GotoW("idle") /\ mined' = mined
      BY <1>4 DEF HandleExitTx
    <2>2. /\ watcher'.used = watcher.used /\ watcher'.claims = watcher.claims
          /\ watcher'.last = watcher.last /\ watcher'.exits = watcher.exits
      BY <2>1 DEF Shapes
    <2>3. ~(~wmode.fails /\ wmode.prompt /\ ~wmode.crash)
      <3> SUFFICES ASSUME ~wmode.fails, wmode.prompt, ~wmode.crash PROVE FALSE
        OBVIOUS
      <3>1. watcher.used[RoundOf(v)] < NbInputs(RoundOf(v))
        BY <1>1, ConnectorLeft, Zenon
      <3> QED
        BY <1>2, <1>4, <3>1
    <2>4. Handled' = Handled /\ wpc'.pc = "idle" /\ wpc'.todo = {} /\ wpc'.confirmed = {}
      BY <1>3, <2>1, <2>2 DEF Handled
    <2>5. WatchTypes'
      BY <1>1, <2>1, <2>2, <2>4 DEF FfInv, WatchTypes, Process, WatchPlaces
    <2>6. Complete'
      BY <1>1, <2>2, <2>4 DEF FfInv, Complete
    <2> QED
      BY <1>1, <2>3, <2>5, <2>6 DEF FfInv, Once
  <1>5. CASE i < NbInputs(r)
    <2>1. \/ /\ watcher' = [watcher EXCEPT !.used[r] = @ + 1, !.claims = Append(@, claim)]
             /\ mined' = mined \/ mined' = [mined EXCEPT !.sent = @ \cup {conn}]
             /\ wpc' = [wpc EXCEPT !.todo = @ \ {v}]
          \/ /\ wmode.fails
             /\ watcher' \in {watcher, [watcher EXCEPT !.used[r] = @ + 1]}
             /\ mined' = [mined EXCEPT !.faults = @ + 1]
             /\ GotoW("progress")
      BY <1>2, <1>5 DEF HandleExitTx
    <2>2. CASE /\ watcher' = [watcher EXCEPT !.used[r] = @ + 1, !.claims = Append(@, claim)]
               /\ mined' = mined \/ mined' = [mined EXCEPT !.sent = @ \cup {conn}]
               /\ wpc' = [wpc EXCEPT !.todo = @ \ {v}]
      <3>1. /\ mined'.rounds = mined.rounds /\ mined'.exits = mined.exits
            /\ mined'.forfeits = mined.forfeits
            /\ \A f \in mined'.sent : f \in mined.sent \/ ~IsForfeit(f)
        BY <2>2 DEF Shapes, IsForfeit
      <3> QED
        BY <1>1, <1>5, <2>2, <3>1, ClaimMade, Zenon
    <2>3. CASE /\ wmode.fails
               /\ watcher' \in {watcher, [watcher EXCEPT !.used[r] = @ + 1]}
               /\ mined' = [mined EXCEPT !.faults = @ + 1]
               /\ GotoW("progress")
      <3>1. /\ watcher'.claims = watcher.claims /\ watcher'.last = watcher.last
            /\ watcher'.exits = watcher.exits
            /\ watcher'.used = watcher.used \/ watcher'.used = [watcher.used EXCEPT ![r] = i + 1]
            /\ mined'.exits = mined.exits /\ mined'.forfeits = mined.forfeits
        BY <2>3, Zenon DEF Shapes
      <3>2. watcher'.used \in [FfRounds -> Nat]
        <4>1. watcher.used \in [FfRounds -> Nat] /\ i + 1 \in Nat
          BY <1>2 DEF FfInv, WatchTypes, Process
        <4> QED
          BY <3>1, <4>1, Zenon
      <3>3. Handled' = Handled /\ wpc'.pc = "progress" /\ wpc'.todo = {} /\ wpc'.confirmed = {}
        BY <1>3, <2>3, <3>1 DEF Handled
      <3>4. WatchTypes'
        BY <1>1, <3>1, <3>2, <3>3, Zenon DEF FfInv, WatchTypes, Process, WatchPlaces
      <3>5. Complete'
        BY <1>1, <3>1, <3>3 DEF FfInv, Complete
      <3> QED
        BY <1>1, <2>3, <3>4, <3>5 DEF FfInv, Once
    <2> QED
      BY <2>1, <2>2, <2>3
  <1> QED
    BY <1>2, <1>4, <1>5

LEMMA FfStepInv == FfInv /\ Shapes /\ Place /\ [WatchNext]_watchVars => FfInv'
  <1> SUFFICES ASSUME FfInv, Shapes, Place, [WatchNext]_watchVars PROVE FfInv'
    OBVIOUS
  <1>1. CASE LoadState \/ FetchAllForfeited \/ LoadFirst \/ LoadFresh \/ HandleEnd \/ ProgressEnd
    BY <1>1, LoadSteps
  <1>2. CASE Detect
    <2>1. /\ wpc'.pc = "handle" /\ wpc'.todo = watcher.exits \cap mined.exits
          /\ wpc'.confirmed = watcher.exits \cap mined.exits
          /\ wmode' = wmode /\ tables' = tables /\ mined' = mined /\ watcher' = watcher
      BY <1>2, Zenon DEF Detect
    <2>2. Handled' = Handled /\ wpc.pc = "detect"
      BY <1>2, <2>1, Zenon DEF Handled, Detect
    <2>3. wpc.confirmed = {}
      BY <2>2, Zenon DEF FfInv, WatchTypes
    <2>4. WatchTypes'
      BY <2>1, <2>2, Zenon DEF FfInv, WatchTypes, Process, WatchPlaces
    <2>5. Complete'
      BY <2>1, <2>2, Zenon DEF FfInv, Complete
    <2>6. Once'
      BY <2>1, <2>2, <2>3, Zenon DEF FfInv, Once, IsForfeit
    <2> QED
      BY <2>4, <2>5, <2>6, Zenon DEF FfInv
  <1>3. CASE RestartWatcher
    <2>1. /\ watcher' = NewProcess /\ wmode.crash /\ wmode' = wmode /\ tables' = tables
          /\ wpc'.pc = "start" /\ wpc'.todo = {} /\ wpc'.confirmed = {}
      BY <1>3, Zenon DEF RestartWatcher, GotoW, Idle
    <2>2. WatchTypes'
      BY <2>1, ForfeitedFacts DEF FfInv, WatchTypes, Process, WatchPlaces, NewProcess
    <2>3. Complete'
      BY <2>1, Zenon DEF FfInv, Complete
    <2> QED
      BY <2>1, <2>2, <2>3 DEF FfInv, Once
  <1>4. CASE UNCHANGED watchVars
    <2>1. Handled' = Handled /\ tables \in tables .. Len(Forfeited)
      BY <1>4, ForfeitedFacts DEF watchVars, Handled, FfInv, WatchTypes
    <2> QED
      BY <1>4, <2>1, ChainMoves, Zenon DEF watchVars
  <1> QED
    BY <1>1, <1>2, <1>3, <1>4, ChainSteps, HandleSteps, ClaimSteps DEF WatchNext, WatchStep

(* Every vtxo forfeited in a round that the watcher has read is watched or  *)
(* claimed between two wakings, and if broadcasts succeed and round         *)
(* transactions confirm first, no expectation of forfeits.rs fails, for any *)
(* rounds and however their rows, exits and confirmations interleave.       *)
THEOREM WatcherSound == WatchSpec => [](WatchTypeOK /\ WatchComplete /\ WatcherAlive)
  <1>1. ASSUME FfInv PROVE WatchTypeOK /\ WatchComplete /\ WatcherAlive
    <2>1. watcher.claims \in Seq(Claim) /\ \A i \in 1 .. Len(watcher.claims) : watcher.claims[i] \in Claim
      BY <1>1 DEF FfInv, WatchTypes, Process
    <2>2. Range(watcher.claims) = {watcher.claims[i] : i \in 1 .. Len(watcher.claims)}
      BY <2>1 DEF Range
    <2>3. {c.vtxo : c \in Range(watcher.claims)} = VtxosOf(watcher.claims)
      BY <2>2, Zenon DEF VtxosOf
    <2>4. WatchTypeOK
      <3>1. \A i \in 1 .. Len(watcher.claims) :
                /\ watcher.claims[i].vtxo \in FfVtxos
                /\ watcher.claims[i].conn \in 0 .. NbInputs(RoundOf(watcher.claims[i].vtxo)) - 1
        BY <1>1, <2>1, ForfeitedFacts DEF FfInv, WatchTypes, Claim
      <3> QED
        BY <1>1, <2>2, <3>1, UpToVtxos, Zenon DEF FfInv, WatchTypes, WatchTypeOK
    <2>5. WatchComplete
      BY <1>1, <2>3, Zenon DEF FfInv, Complete, WatchComplete, Handled
    <2>6. WatcherAlive
      BY <1>1, Zenon DEF FfInv, Once, WatcherAlive
    <2> QED
      BY <2>4, <2>5, <2>6, Zenon
  <1>2. FfInv => WatchTypeOK /\ WatchComplete /\ WatcherAlive
    BY <1>1
  <1> QED
    BY <1>2, FfInitInv, FfStepInv, ShapesInit, ShapesStep, PlaceInit, PlaceStep, PTL DEF WatchSpec
=============================================================================
