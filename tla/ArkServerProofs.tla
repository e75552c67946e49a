--------------------------- MODULE ArkServerProofs ---------------------------
(***************************************************************************)
(* Proofs about ArkServer, for every value of its constants.                *)
(***************************************************************************)
EXTENDS ArkServer, FiniteSetTheorems, TLAPS

(* The data of a payment or request is well typed. *)
LEMMA InputTypes ==
    /\ \A p \in Payments : Inputs[p] \subseteq Vtxos /\ Inputs[p] # {}
    /\ \A p \in Payments : RoundOut[p] \subseteq Vtxos
    /\ \A r \in Requests : ReqInputs[r] \subseteq Vtxos
    /\ \A r \in Requests : Spends[r] \subseteq Spend
    /\ \A r \in Requests : NewVtxos(r) \subseteq Vtxos
  <1>1. \A r \in Requests : Spends[r] \subseteq Spend
    BY RequestAssumption
  <1>2. \A r \in Requests : NewVtxos(r) \subseteq Vtxos
    BY <1>1, RequestAssumption DEF NewVtxos, Spend
  <1>3. \A p \in Payments : Inputs[p] \subseteq Vtxos /\ Inputs[p] # {}
    BY PaymentAssumption
  <1>4. \A p \in Payments : RoundOut[p] \subseteq Vtxos
    BY PaymentAssumption
  <1>5. \A r \in Requests : ReqInputs[r] \subseteq Vtxos
    BY RequestAssumption
  <1> QED
    BY <1>1, <1>2, <1>3, <1>4, <1>5

LEMMA AllInputsType ==
    ASSUME registered \subseteq Payments
    PROVE  AllInputs \subseteq Vtxos
  BY InputTypes DEF AllInputs

LEMMA OorAfterType ==
    ASSUME TableTypeOK, NEW spends, spends \subseteq Spend
    PROVE  OorAfter(spends) \in [Vtxos -> Txids \cup {NULL}]
  <1>1. \A v \in Vtxos : (\E s \in spends : s.vtxo = v) =>
            (CHOOSE s \in spends : s.vtxo = v).txid \in Txids
    BY DEF Spend
  <1> QED
    BY <1>1 DEF OorAfter, TableTypeOK

LEMMA HoldersFacts ==
    /\ RoundGuard \in Holders /\ PaymentGuard \in Holders
    /\ Requests \subseteq Holders
    /\ RoundGuard # PaymentGuard
    /\ \A r \in Requests : r # RoundGuard /\ r # PaymentGuard
  BY RequestAssumption DEF Holders, RoundGuard, PaymentGuard

-----------------------------------------------------------------------------

(* Type correctness *)

LEMMA TypeInit == Init => TypeOK
  BY DEF Init, TypeOK, FluxInit, TableInit, FluxTypeOK, TableTypeOK,
         CoordStates, RpcStates

LEMMA ReleaseType ==
    ASSUME FluxTypeOK, NEW h \in Holders, Release(h)
    PROVE  FluxTypeOK'
  BY DEF FluxTypeOK, Release

LEMMA LockType ==
    ASSUME FluxTypeOK, NEW h \in Holders, NEW S \in SUBSET Vtxos, Lock(h, S)
    PROVE  FluxTypeOK'
  BY DEF FluxTypeOK, Lock

LEMMA AbsorbType ==
    ASSUME FluxTypeOK, NEW h \in Holders, NEW g \in Holders, Absorb(h, g)
    PROVE  FluxTypeOK'
  BY Zenon DEF FluxTypeOK, Absorb

LEMMA EndRoundType ==
    ASSUME TypeOK, pc \notin {"check", "verify"},
           NEW next \in CoordStates \ {"check", "verify"}, EndRound(next),
           UNCHANGED <<tableVars, roundTxs, rpc, cosigned, crashes>>
    PROVE  TypeOK'
  BY ReleaseType, HoldersFacts
     DEF EndRound, TypeOK, TableTypeOK, tableVars
LEMMA RestartType ==
    ASSUME TypeOK, pc \notin {"check", "verify"},
           NEW ok \in SUBSET Vtxos, Restart(ok),
           UNCHANGED <<tableVars, roundTxs, rpc, cosigned, crashes>>
    PROVE  TypeOK'
  <1>1. CASE ok = {}
    <2>1. EndRound("start")
      BY <1>1 DEF Restart
    <2> QED
      BY <2>1, EndRoundType DEF CoordStates
  <1>2. CASE ok # {}
    BY <1>2 DEF Restart, TypeOK, FluxTypeOK, TableTypeOK, tableVars, CoordStates
  <1> QED
    BY <1>1, <1>2

LEMMA TypeNext == TypeOK /\ [Next]_vars => TypeOK'
  <1> SUFFICES ASSUME TypeOK, [Next]_vars
               PROVE  TypeOK'
    OBVIOUS
  <1> USE HoldersFacts
  <1>a. AllInputs \subseteq Vtxos
    BY AllInputsType, Zenon DEF TypeOK
  <1>1. CASE StartRound
    BY <1>1 DEF StartRound, TypeOK, FluxTypeOK, TableTypeOK, tableVars, CoordStates
  <1>2. CASE StartAttempt
    BY <1>2, ReleaseType, Zenon DEF StartAttempt, TypeOK, TableTypeOK, tableVars, CoordStates
  <1>3. ASSUME NEW p \in Payments, LockPayment(p)
        PROVE  TypeOK'
    BY <1>3, LockType, InputTypes, Zenon
       DEF LockPayment, TypeOK, TableTypeOK, tableVars, CoordStates
  <1>4. CASE CheckPayment
    BY <1>4, Zenon DEF CheckPayment, TypeOK, FluxTypeOK, TableTypeOK, tableVars, CoordStates
  <1>5. CASE RefusePayment
    BY <1>5, ReleaseType, Zenon DEF RefusePayment, TypeOK, TableTypeOK, tableVars, CoordStates
  <1>6. CASE RegisterPayment
    <2>1. FluxTypeOK'
      BY <1>6, ReleaseType, AbsorbType, Zenon DEF RegisterPayment, TypeOK
    <2>2. registered' \subseteq Payments
      BY <1>6 DEF RegisterPayment, TypeOK
    <2> QED
      BY <1>6, <2>1, <2>2, Zenon DEF RegisterPayment, TypeOK, TableTypeOK, tableVars, CoordStates
  <1>7. CASE CloseRegistration
    <2>1. CASE registered = {}
      BY <1>7, <2>1, EndRoundType DEF CloseRegistration, CoordStates
    <2>2. CASE registered # {}
      BY <1>7, <2>2, Zenon
         DEF CloseRegistration, TypeOK, FluxTypeOK, TableTypeOK, tableVars, CoordStates
    <2> QED
      BY <2>1, <2>2
  <1>8. CASE ConstructVtxoTree
    BY <1>8 DEF ConstructVtxoTree, TypeOK, FluxTypeOK, TableTypeOK, tableVars, CoordStates
  <1>9. CASE WalletError
    BY <1>9, EndRoundType, Zenon DEF WalletError, CoordStates
  <1>10. ASSUME NEW p \in Payments, RegisterSignature(p)
         PROVE  TypeOK'
    BY <1>10 DEF RegisterSignature, AfterSignature, TypeOK, FluxTypeOK, TableTypeOK, tableVars, CoordStates
  <1>11. CASE VtxoSignaturesTimeout
    BY <1>11, <1>a, RestartType, Zenon DEF VtxoSignaturesTimeout
  <1>12. ASSUME NEW vs \in SUBSET Vtxos, RegisterForfeits(vs)
         PROVE  TypeOK'
    BY <1>12 DEF RegisterForfeits, AfterForfeits, TypeOK, FluxTypeOK, TableTypeOK, tableVars, CoordStates
  <1>13. CASE ForfeitsTimeout
    BY <1>13, <1>a, RestartType, Zenon DEF ForfeitsTimeout
  <1>14. CASE BroadcastRoundTx
    BY <1>14, <1>a
       DEF BroadcastRoundTx, TypeOK, FluxTypeOK, TableTypeOK, tableVars, CoordStates
  <1>15. CASE BroadcastError
    BY <1>15, EndRoundType, Zenon DEF BroadcastError, CoordStates
  <1>16. CASE PersistRound
    <2>1. TableTypeOK'
      BY <1>16, InputTypes
         DEF PersistRound, FinishRound, UpsertVtxos, TypeOK, TableTypeOK
    <2> QED
      BY <1>16, <2>1, ReleaseType, Zenon DEF PersistRound, EndRound, TypeOK, CoordStates
  <1>17. CASE PersistError
    BY <1>17, EndRoundType DEF PersistError, CoordStates
  <1>18. CASE RefusalPanics
    BY <1>18, EndRoundType, Zenon DEF RefusalPanics, CoordStates
  <1>19. ASSUME NEW v \in Boards, RegisterBoard(v)
         PROVE  TypeOK'
    BY <1>19, PaymentAssumption, Zenon
       DEF RegisterBoard, UpsertVtxos, TypeOK, FluxTypeOK, TableTypeOK, coordVars
  <1>20. ASSUME NEW r \in Requests, FetchInputs(r)
         PROVE  TypeOK'
    BY <1>20, Zenon DEF FetchInputs, TypeOK, FluxTypeOK, TableTypeOK, tableVars, coordVars, RpcStates
  <1>21. ASSUME NEW r \in Requests, LockInputs(r)
         PROVE  TypeOK'
    BY <1>21, LockType, InputTypes, Zenon
       DEF LockInputs, TypeOK, TableTypeOK, tableVars, coordVars, RpcStates
  <1>22. ASSUME NEW r \in Requests, InputsInFlux(r)
         PROVE  TypeOK'
    BY <1>22, Zenon DEF InputsInFlux, TypeOK, FluxTypeOK, TableTypeOK, tableVars, coordVars, RpcStates
  <1>23. ASSUME NEW r \in Requests, MarkSpent(r)
         PROVE  TypeOK'
    <2>1. /\ oor' = OorAfter(Spends[r])
          /\ known' = known \cup NewVtxos(r)
          /\ UNCHANGED <<forfeit, rounds>>
      BY <1>23, Zenon DEF MarkSpent, UpsertVtxosAndMarkSpends, CheckSetVtxoOorSpentPackage,
                   UpsertVtxos
    <2>2. TableTypeOK'
      BY <2>1, OorAfterType, InputTypes, Zenon DEF TypeOK, TableTypeOK
    <2> QED
      BY <1>23, <2>2 DEF MarkSpent, TypeOK, FluxTypeOK, coordVars, RpcStates
  <1>24. ASSUME NEW r \in Requests, MarkRefused(r)
         PROVE  TypeOK'
    BY <1>24, ReleaseType, Zenon DEF MarkRefused, TypeOK, TableTypeOK, tableVars, coordVars, RpcStates
  <1>25. ASSUME NEW r \in Requests, ServerCosign(r)
         PROVE  TypeOK'
    BY <1>25, ReleaseType, InputTypes, Zenon
       DEF ServerCosign, TypeOK, TableTypeOK, tableVars, coordVars, RpcStates
  <1>26. CASE CrashRestart
    BY <1>26
       DEF CrashRestart, ResetFlux, TypeOK, FluxTypeOK, TableTypeOK, tableVars,
           CoordStates, RpcStates
  <1>27. CASE UNCHANGED vars
    BY <1>27 DEF vars, coordVars, TypeOK, FluxTypeOK, TableTypeOK
  <1> QED
    BY <1>1, <1>2, <1>3, <1>4, <1>5, <1>6, <1>7, <1>8, <1>9, <1>10, <1>11, <1>12,
       <1>13, <1>14, <1>15, <1>16, <1>17, <1>18, <1>19, <1>20, <1>21, <1>22,
       <1>23, <1>24, <1>25, <1>26, <1>27
       DEF Next, CoordNext, RequestNext
(* The type invariant of the round coordinator, the arkoor requests, the    *)
(* flux lock and the tables.                                                *)
THEOREM TypeCorrect == Spec => []TypeOK
  BY TypeInit, TypeNext, PTL DEF Spec

-----------------------------------------------------------------------------

(* The flux lock *)

(* Whatever the tasks do, they use the flux lock only through its           *)
(* operations.                                                              *)
LEMMA FluxUse == TypeOK /\ [Next]_vars => [FluxNext]_<<flux, held>>
  <1> SUFFICES ASSUME TypeOK, [Next]_vars
               PROVE  FluxNext \/ UNCHANGED <<flux, held>>
    OBVIOUS
  <1> USE HoldersFacts
  <1>a. \A h \in Holders : Release(h) => FluxNext
    BY DEF FluxNext
  <1>b. \A h \in Holders, S \in SUBSET Vtxos : Lock(h, S) => FluxNext
    BY Zenon DEF FluxNext
  <1>1. CASE StartRound
    BY <1>1 DEF StartRound
  <1>2. CASE StartAttempt
    BY <1>2, <1>a, Zenon DEF StartAttempt
  <1>3. ASSUME NEW p \in Payments, LockPayment(p)
        PROVE  FluxNext
    BY <1>3, <1>b, InputTypes DEF LockPayment
  <1>4. CASE CheckPayment
    BY <1>4 DEF CheckPayment
  <1>5. CASE RefusePayment
    BY <1>5, <1>a, Zenon DEF RefusePayment
  <1>6. CASE RegisterPayment
    BY <1>6, <1>a DEF RegisterPayment, FluxNext
  <1>7. CASE CloseRegistration
    BY <1>7, <1>a DEF CloseRegistration, EndRound
  <1>8. CASE ConstructVtxoTree
    BY <1>8 DEF ConstructVtxoTree
  <1>9. CASE WalletError
    BY <1>9, <1>a DEF WalletError, EndRound
  <1>10. ASSUME NEW p \in Payments, RegisterSignature(p)
         PROVE  UNCHANGED <<flux, held>>
    BY <1>10, Zenon DEF RegisterSignature, AfterSignature
  <1>11. CASE VtxoSignaturesTimeout
    BY <1>11, <1>a DEF VtxoSignaturesTimeout, Restart, EndRound
  <1>12. ASSUME NEW vs \in SUBSET Vtxos, RegisterForfeits(vs)
         PROVE  UNCHANGED <<flux, held>>
    BY <1>12, Zenon DEF RegisterForfeits, AfterForfeits
  <1>13. CASE ForfeitsTimeout
    BY <1>13, <1>a DEF ForfeitsTimeout, Restart, EndRound
  <1>14. CASE BroadcastRoundTx
    BY <1>14, Zenon DEF BroadcastRoundTx
  <1>15. CASE BroadcastError \/ PersistRound \/ PersistError \/ RefusalPanics
    BY <1>15, <1>a
       DEF BroadcastError, PersistRound, PersistError, RefusalPanics, EndRound
  <1>16. ASSUME NEW v \in Boards, RegisterBoard(v)
         PROVE  UNCHANGED <<flux, held>>
    BY <1>16, Zenon DEF RegisterBoard
  <1>17. ASSUME NEW r \in Requests, RequestNext(r)
         PROVE  FluxNext \/ UNCHANGED <<flux, held>>
    BY <1>17, <1>a, <1>b, InputTypes, Zenon
       DEF RequestNext, FetchInputs, LockInputs, InputsInFlux, MarkSpent, MarkRefused,
           ServerCosign
  <1>18. CASE CrashRestart
    BY <1>18 DEF CrashRestart, FluxNext
  <1>19. CASE UNCHANGED vars
    BY <1>19, Zenon DEF vars
  <1> QED
    BY <1>1, <1>2, <1>3, <1>4, <1>5, <1>6, <1>7, <1>8, <1>9, <1>10, <1>11, <1>12,
       <1>13, <1>14, <1>15, <1>16, <1>17, <1>18, <1>19
       DEF Next, CoordNext

LEMMA FluxStep ==
    ASSUME FluxTypeOK, FluxAccounted, FluxExclusive, [FluxNext]_<<flux, held>>
    PROVE  FluxAccounted' /\ FluxExclusive'
  <1>1. ASSUME NEW h \in Holders, NEW S \in SUBSET Vtxos, Lock(h, S)
        PROVE  FluxAccounted' /\ FluxExclusive'
    <2>1. \A g \in Holders : held'[g] = IF g = h THEN S ELSE held[g]
      BY <1>1 DEF Lock, FluxTypeOK
    <2>2. \A g \in Holders : held[g] \cap S = {}
      BY <1>1, Zenon DEF Lock, CanLock, FluxAccounted
    <2> QED
      BY <1>1, <2>1, <2>2 DEF Lock, FluxAccounted, FluxExclusive
  <1>2. ASSUME NEW h \in Holders, Release(h)
        PROVE  FluxAccounted' /\ FluxExclusive'
    <2>1. \A g \in Holders : held'[g] = IF g = h THEN {} ELSE held[g]
      BY <1>2 DEF Release, FluxTypeOK
    <2> QED
      BY <1>2, <2>1 DEF Release, FluxAccounted, FluxExclusive
  <1>3. ASSUME NEW h \in Holders, NEW o \in Holders, h # o, Absorb(h, o)
        PROVE  FluxAccounted' /\ FluxExclusive'
    <2>1. \A g \in Holders : held'[g] = IF g = h THEN held[h] \cup held[o]
                                        ELSE IF g = o THEN {} ELSE held[g]
      BY <1>3, Zenon DEF Absorb, FluxTypeOK
    <2>2. \A x : (\E g \in Holders : x \in held'[g]) <=> (\E g \in Holders : x \in held[g])
      BY <1>3, <2>1, Zenon
    <2>3. UNION {held'[g] : g \in Holders} = UNION {held[g] : g \in Holders}
      <3> DEFINE A == UNION {held'[g] : g \in Holders}
                 B == UNION {held[g] : g \in Holders}
      <3>1. \A x : x \in A <=> \E g \in Holders : x \in held'[g]
        BY Zenon
      <3>2. \A x : x \in B <=> \E g \in Holders : x \in held[g]
        OBVIOUS
      <3> HIDE DEF A, B
      <3>3. A = B
        BY <2>2, <3>1, <3>2, Zenon
      <3> QED
        BY <3>3, Zenon DEF A, B
    <2>4. FluxAccounted'
      BY <1>3, <2>3, Zenon DEF Absorb, FluxAccounted
    <2>5. FluxExclusive'
      BY <1>3, <2>1, Zenon DEF FluxExclusive
    <2> QED
      BY <2>4, <2>5
  <1>4. CASE ResetFlux
    BY <1>4, Zenon DEF ResetFlux, FluxAccounted, FluxExclusive
  <1>5. CASE UNCHANGED <<flux, held>>
    BY <1>5 DEF FluxAccounted, FluxExclusive
  <1> QED
    BY <1>1, <1>2, <1>3, <1>4, <1>5 DEF FluxNext

(* The flux set is exactly what the live guards own and no two guards own   *)
(* the same vtxo, whatever interleaving of payments, retries of a round,    *)
(* arkoor requests, panics and crashes happens.                             *)
THEOREM FluxCorrect == Spec => [](FluxAccounted /\ FluxExclusive)
  <1>1. Init => FluxAccounted /\ FluxExclusive
    BY Zenon DEF Init, FluxInit, FluxAccounted, FluxExclusive
  <1>2. TypeOK /\ FluxAccounted /\ FluxExclusive /\ [Next]_vars
            => FluxAccounted' /\ FluxExclusive'
    BY FluxUse, FluxStep DEF TypeOK
  <1> QED
    BY <1>1, <1>2, TypeCorrect, PTL DEF Spec

(* The same as one property: the lock table is what its guards say.         *)
THEOREM FluxSoundAlways == Spec => []FluxSound
  BY FluxCorrect, PTL DEF FluxSound

-----------------------------------------------------------------------------

(* Spends *)

(* Every signature given out is for the spend on record. *)
CosignedRecorded == \A s \in cosigned : oor[s.vtxo] = s.txid

(* A request that is about to sign has its spends on record. *)
MarkedRecorded ==
    \A r \in Requests : rpc[r] = "marked" => \A s \in Spends[r] : oor[s.vtxo] = s.txid

SpendInv == SpentOnce /\ VtxosFunded /\ CosignedRecorded /\ MarkedRecorded

(* What OorAfter leaves in the column. *)
LEMMA OorAfterValue ==
    ASSUME NEW r \in Requests
    PROVE  /\ \A s \in Spends[r] : OorAfter(Spends[r])[s.vtxo] = s.txid
           /\ \A v \in Vtxos : (\A s \in Spends[r] : s.vtxo # v) =>
                                 OorAfter(Spends[r])[v] = oor[v]
  <1>1. \A s \in Spends[r] : s.vtxo \in Vtxos
    BY InputTypes, Zenon DEF Spend
  <1>2. ASSUME NEW s \in Spends[r]
        PROVE  (CHOOSE x \in Spends[r] : x.vtxo = s.vtxo) = s
    BY RequestAssumption
  <1> QED
    BY <1>1, <1>2, Zenon DEF OorAfter

(* Every step leaves recorded spends, stored vtxos and stored rounds alone; *)
(* the table only changes in the three transactions and in register_board.  *)
TableUnchanged == UNCHANGED tableVars

Marked(r) ==
    /\ \A s \in Spends[r] : IsSpendable(s.vtxo) \/ oor[s.vtxo] = s.txid
    /\ oor' = OorAfter(Spends[r])
    /\ known' = known \cup NewVtxos(r)
    /\ UNCHANGED <<forfeit, rounds>>

LEMMA MarkSpentMarks ==
    ASSUME NEW r \in Requests, MarkSpent(r)
    PROVE  Marked(r)
  <1>1. CASE r \in Checkpointed
    BY <1>1, Zenon DEF MarkSpent, Marked, UpsertVtxosAndMarkSpends, UpsertVtxos, CanMarkSpends
  <1>2. CASE r \notin Checkpointed
    BY <1>2, Zenon DEF MarkSpent, Marked, CheckSetVtxoOorSpentPackage, UpsertVtxos,
                CanSetOorSpent
  <1> QED
    BY <1>1, <1>2, Zenon

(* The steps that do not touch the tables. *)
LEMMA TableSteps ==
    ASSUME [Next]_vars
    PROVE  \/ TableUnchanged
           \/ PersistRound
           \/ \E v \in Boards : RegisterBoard(v)
           \/ \E r \in Requests : MarkSpent(r)
  BY Zenon DEF Next, CoordNext, RequestNext, TableUnchanged, tableVars, vars,
         StartRound, StartAttempt, LockPayment, CheckPayment, RefusePayment,
         RegisterPayment, CloseRegistration, ConstructVtxoTree, WalletError,
         RegisterSignature, AfterSignature, VtxoSignaturesTimeout, RegisterForfeits, AfterForfeits, ForfeitsTimeout,
         BroadcastRoundTx, BroadcastError, PersistError, RefusalPanics,
         FetchInputs, LockInputs, InputsInFlux, MarkRefused, ServerCosign, CrashRestart

(* A recorded arkoor spend never changes, and neither does a forfeit. *)
LEMMA SpendsStable ==
    ASSUME TypeOK, SpentOnce, [Next]_vars
    PROVE  \A v \in Vtxos : /\ oor[v] # NULL => oor'[v] = oor[v]
                            /\ forfeit[v] # NULL => forfeit'[v] = forfeit[v]
  <1>1. CASE TableUnchanged
    BY <1>1, Zenon DEF TableUnchanged, tableVars
  <1>2. CASE PersistRound
    BY <1>2 DEF PersistRound, FinishRound, CanFinishRound, IsSpendable
  <1>3. ASSUME NEW v \in Boards, RegisterBoard(v)
        PROVE  UNCHANGED <<oor, forfeit>>
    BY <1>3 DEF RegisterBoard
  <1>4. ASSUME NEW r \in Requests, MarkSpent(r), NEW v \in Vtxos, oor[v] # NULL
        PROVE  oor'[v] = oor[v]
    <2>1. CASE \E s \in Spends[r] : s.vtxo = v
      BY <1>4, <2>1, MarkSpentMarks, OorAfterValue, SMTT(60) DEF Marked, IsSpendable
    <2>2. CASE \A s \in Spends[r] : s.vtxo # v
      BY <1>4, <2>2, MarkSpentMarks, OorAfterValue, Zenon DEF Marked
    <2> QED
      BY <2>1, <2>2, Zenon
  <1>5. ASSUME NEW r \in Requests, MarkSpent(r)
        PROVE  forfeit' = forfeit
    BY <1>5, MarkSpentMarks DEF Marked
  <1> QED
    BY <1>1, <1>2, <1>3, <1>4, <1>5, TableSteps

LEMMA SpentOnceStep ==
    ASSUME TypeOK, SpentOnce, [Next]_vars
    PROVE  SpentOnce'
  <1>1. CASE TableUnchanged
    BY <1>1, Zenon DEF TableUnchanged, tableVars, SpentOnce
  <1>2. CASE PersistRound
    BY <1>2, Zenon DEF PersistRound, FinishRound, CanFinishRound, IsSpendable, SpentOnce
  <1>3. ASSUME NEW v \in Boards, RegisterBoard(v)
        PROVE  SpentOnce'
    BY <1>3, Zenon DEF RegisterBoard, SpentOnce
  <1>4. ASSUME NEW r \in Requests, MarkSpent(r)
        PROVE  SpentOnce'
    <2> SUFFICES ASSUME NEW v \in Vtxos
                 PROVE  oor'[v] = NULL \/ forfeit'[v] = NULL
      BY Zenon DEF SpentOnce
    <2>1. CASE \E s \in Spends[r] : s.vtxo = v
      <3>1. PICK s \in Spends[r] : s.vtxo = v
        BY <2>1, Zenon
      <3>2. s.txid # NULL
        BY InputTypes, NullAssumption, Zenon DEF Spend
      <3>3. forfeit[v] = NULL
        BY <1>4, <3>1, <3>2, MarkSpentMarks, Zenon DEF Marked, IsSpendable, SpentOnce
      <3> QED
        BY <1>4, <3>3, MarkSpentMarks DEF Marked
    <2>2. CASE \A s \in Spends[r] : s.vtxo # v
      BY <1>4, <2>2, MarkSpentMarks, OorAfterValue, Zenon DEF Marked, SpentOnce
    <2> QED
      BY <2>1, <2>2, Zenon
  <1> QED
    BY <1>1, <1>2, <1>3, <1>4, TableSteps, Zenon

LEMMA RecordedStep ==
    ASSUME TypeOK, SpentOnce, CosignedRecorded, MarkedRecorded, [Next]_vars
    PROVE  CosignedRecorded' /\ MarkedRecorded'
  <1>1. \A r \in Requests : \A s \in Spends[r] :
            s.vtxo \in Vtxos /\ (oor[s.vtxo] = s.txid => oor'[s.vtxo] = s.txid)
    BY SpendsStable, InputTypes, NullAssumption, Zenon DEF Spend
  <1>2. \A s \in cosigned : oor'[s.vtxo] = s.txid
    BY SpendsStable, NullAssumption DEF CosignedRecorded, TypeOK, Spend
  <1>3. ASSUME NEW r \in Requests, MarkSpent(r)
        PROVE  CosignedRecorded' /\ MarkedRecorded'
    <2>1. cosigned' = cosigned
      BY <1>3, Zenon DEF MarkSpent
    <2>2. \A q \in Requests : q # r => rpc'[q] = rpc[q]
      BY <1>3, Zenon DEF MarkSpent, TypeOK
    <2>3. \A s \in Spends[r] : oor'[s.vtxo] = s.txid
      BY <1>3, MarkSpentMarks, OorAfterValue, SMTT(60) DEF Marked
    <2> QED
      BY <1>1, <1>2, <2>1, <2>2, <2>3, Zenon DEF CosignedRecorded, MarkedRecorded
  <1>4. ASSUME NEW r \in Requests, ServerCosign(r)
        PROVE  CosignedRecorded' /\ MarkedRecorded'
    <2>1. cosigned' = cosigned \cup Spends[r] /\ rpc[r] = "marked"
      BY <1>4, Zenon DEF ServerCosign
    <2>2. \A q \in Requests : rpc'[q] = "marked" => rpc[q] = "marked"
      BY <1>4, Zenon DEF ServerCosign, TypeOK
    <2> QED
      BY <1>1, <1>2, <2>1, <2>2, Zenon DEF CosignedRecorded, MarkedRecorded
  <1>5. ASSUME cosigned' = cosigned,
               \A q \in Requests : rpc'[q] = "marked" => rpc[q] = "marked"
        PROVE  CosignedRecorded' /\ MarkedRecorded'
    BY <1>1, <1>2, <1>5, Zenon DEF CosignedRecorded, MarkedRecorded
  <1>6. ASSUME NEW r \in Requests,
               FetchInputs(r) \/ LockInputs(r) \/ InputsInFlux(r) \/ MarkRefused(r)
        PROVE  /\ cosigned' = cosigned
               /\ \A q \in Requests : rpc'[q] = "marked" => rpc[q] = "marked"
    BY <1>6, Zenon DEF FetchInputs, LockInputs, InputsInFlux, MarkRefused, TypeOK
  <1>7. CASE CrashRestart
    BY <1>5, <1>7 DEF CrashRestart
  <1>8. CASE CoordNext \/ (\E v \in Boards : RegisterBoard(v)) \/ UNCHANGED vars
    <2>1. cosigned' = cosigned /\ rpc' = rpc
      BY <1>8, Zenon
         DEF CoordNext, vars, RegisterBoard, StartRound, StartAttempt, LockPayment,
             CheckPayment, RefusePayment, RegisterPayment, CloseRegistration,
             ConstructVtxoTree, WalletError, RegisterSignature, AfterSignature, VtxoSignaturesTimeout,
             RegisterForfeits, AfterForfeits, ForfeitsTimeout, BroadcastRoundTx, BroadcastError,
             PersistRound, PersistError, RefusalPanics
    <2> QED
      BY <1>5, <2>1
  <1> QED
    BY <1>3, <1>4, <1>5, <1>6, <1>7, <1>8, Zenon DEF Next, RequestNext

LEMMA VtxosFundedStep ==
    ASSUME TypeOK, SpentOnce, VtxosFunded, [Next]_vars
    PROVE  VtxosFunded'
  <1> DEFINE Funded(v) ==
               \/ \E u \in Vtxos : oor'[u] # NULL /\ v \in TxOut[oor'[u]]
               \/ \E p \in Payments, n \in rounds' :
                     v \in RoundOut[p] /\ \A u \in Inputs[p] : forfeit'[u] = n
  <1>1. rounds \subseteq rounds'
    BY TableSteps, MarkSpentMarks, Zenon
       DEF TableUnchanged, tableVars, PersistRound, FinishRound, RegisterBoard, Marked
  <1>2. ASSUME NEW v \in known \ Boards
        PROVE  Funded(v)
    <2>1. CASE \E u \in Vtxos : oor[u] # NULL /\ v \in TxOut[oor[u]]
      BY <2>1, SpendsStable, Zenon
    <2>2. CASE \E p \in Payments, n \in rounds :
                  v \in RoundOut[p] /\ \A u \in Inputs[p] : forfeit[u] = n
      <3>1. PICK p \in Payments, n \in rounds :
                  v \in RoundOut[p] /\ \A u \in Inputs[p] : forfeit[u] = n
        BY <2>2
      <3>2. n # NULL
        BY NullAssumption, Zenon DEF TypeOK, TableTypeOK
      <3>3. \A u \in Inputs[p] : forfeit'[u] = n
        BY <3>1, <3>2, SpendsStable, InputTypes, Zenon
      <3> QED
        BY <1>1, <3>1, <3>3, Zenon
    <2> QED
      BY <2>1, <2>2, Zenon DEF VtxosFunded
  <1>3. ASSUME NEW v \in known' \ known, v \notin Boards
        PROVE  Funded(v)
    <2>1. CASE PersistRound
      <3>1. PICK p \in registered : v \in RoundOut[p]
        BY <1>3, <2>1, Zenon DEF PersistRound, FinishRound, UpsertVtxos
      <3>2. seq \in rounds' /\ \A u \in Inputs[p] : u \in Vtxos => forfeit'[u] = seq
        BY <2>1, <3>1, Zenon DEF PersistRound, FinishRound, AllInputs
      <3> QED
        BY <3>1, <3>2, InputTypes, Zenon DEF TypeOK
    <2>2. ASSUME NEW r \in Requests, MarkSpent(r)
          PROVE  Funded(v)
      <3>1. PICK s \in Spends[r] : v \in TxOut[s.txid]
        BY <1>3, <2>2, MarkSpentMarks, SMTT(60) DEF Marked, NewVtxos
      <3>2. oor'[s.vtxo] = s.txid
        BY <2>2, MarkSpentMarks, OorAfterValue, Zenon DEF Marked
      <3>3. s.vtxo \in Vtxos /\ s.txid # NULL
        BY InputTypes, NullAssumption, Zenon DEF Spend
      <3> QED
        BY <3>1, <3>2, <3>3, Zenon
    <2>3. ~ TableUnchanged /\ ~ \E u \in Boards : RegisterBoard(u)
      BY <1>3, Zenon DEF TableUnchanged, tableVars, RegisterBoard, UpsertVtxos
    <2> QED
      BY <2>1, <2>2, <2>3, TableSteps, Zenon
  <1> QED
    BY <1>2, <1>3, SMTT(60) DEF VtxosFunded

LEMMA SpendInvariant == Spec => []SpendInv
  <1>1. Init => SpendInv
    BY Zenon DEF Init, TableInit, SpendInv, SpentOnce, VtxosFunded, CosignedRecorded,
           MarkedRecorded
  <1>2. TypeOK /\ SpendInv /\ [Next]_vars => SpendInv'
    BY SpentOnceStep, RecordedStep, VtxosFundedStep DEF SpendInv
  <1> QED
    BY <1>1, <1>2, TypeCorrect, PTL DEF Spec

(* No vtxo is ever both spent in an arkoor and forfeited in a round.        *)
THEOREM SpentOnceAlways == Spec => []SpentOnce
  BY SpendInvariant, PTL DEF SpendInv

(* Every stored vtxo is a board or was paid for by recorded spends. *)
THEOREM VtxosFundedAlways == Spec => []VtxosFunded
  BY SpendInvariant, PTL DEF SpendInv

-----------------------------------------------------------------------------

(* Refinement of the abstract ledger *)

LEMMA LedgerStep ==
    ASSUME TypeOK, SpendInv, [Next]_vars
    PROVE  [Ledger!LedgerNext]_(Ledger!ledgerVars)
  <1> DEFINE S == {<<s.vtxo, s.txid>> : s \in cosigned}
  <1>2. ASSUME cosigned' = cosigned,
               oor' \in [Vtxos -> Txids \cup {NULL}],
               forfeit' \in [Vtxos -> Nat \cup {NULL}]
        PROVE  [Ledger!LedgerNext]_(Ledger!ledgerVars)
    <2>1. SpentBy' \in [Vtxos -> (Txids \cup Nat) \cup {NULL}]
      BY <1>2, Zenon DEF SpentBy
    <2>2. \A v \in Vtxos : SpentBy[v] # NULL => SpentBy'[v] = SpentBy[v]
      <3>1. SUFFICES ASSUME NEW v \in Vtxos, SpentBy[v] # NULL
                     PROVE  SpentBy'[v] = SpentBy[v]
        BY Zenon
      <3>2. CASE oor[v] # NULL
        BY <3>2, SpendsStable, Zenon DEF SpentBy, SpendInv
      <3>3. CASE oor[v] = NULL /\ forfeit[v] # NULL
        <4>1. forfeit'[v] = forfeit[v] /\ oor'[v] = NULL
          BY <3>3, SpendsStable, SpentOnceStep, Zenon DEF SpendInv, SpentOnce
        <4> QED
          BY <3>3, <4>1, Zenon DEF SpentBy
      <3> QED
        BY <3>1, <3>2, <3>3 DEF SpentBy
    <2> QED
      BY <1>2, <2>1, <2>2 DEF Ledger!LedgerNext, Ledger!Record
  <1>3. ASSUME NEW r \in Requests, ServerCosign(r)
        PROVE  [Ledger!LedgerNext]_(Ledger!ledgerVars)
    <2>1. UNCHANGED <<oor, forfeit>> /\ cosigned' = cosigned \cup Spends[r]
      BY <1>3, Zenon DEF ServerCosign, tableVars
    <2>2. S \subseteq S'
      BY <2>1, Zenon
    <2>3. ASSUME NEW x \in S' \ S
          PROVE  x \in Vtxos \X (Txids \cup Nat) /\ SpentBy[x[1]] = x[2]
      <3>1. PICK s \in Spends[r] : x = <<s.vtxo, s.txid>>
        BY <2>1, <2>3, Zenon
      <3>2. s.vtxo \in Vtxos /\ s.txid \in Txids /\ s.txid # NULL
        BY InputTypes, NullAssumption, Zenon DEF Spend
      <3>3. oor[s.vtxo] = s.txid
        BY <1>3, Zenon DEF ServerCosign, SpendInv, MarkedRecorded
      <3> QED
        BY <3>1, <3>2, <3>3, Zenon DEF SpentBy
    <2>4. SpentBy' = SpentBy
      BY <2>1 DEF SpentBy
    <2> QED
      BY <2>2, <2>3, <2>4, Zenon DEF Ledger!LedgerNext, Ledger!Sign
  <1>4. TypeOK'
    BY TypeNext, Zenon
  <1>5. (\E r \in Requests : ServerCosign(r)) \/ cosigned' = cosigned
    BY Zenon DEF Next, CoordNext, RequestNext, vars,
         StartRound, StartAttempt, LockPayment, CheckPayment, RefusePayment,
         RegisterPayment, CloseRegistration, ConstructVtxoTree, WalletError,
         RegisterSignature, AfterSignature, VtxoSignaturesTimeout, RegisterForfeits, AfterForfeits, ForfeitsTimeout,
         BroadcastRoundTx, BroadcastError, PersistRound, PersistError, RefusalPanics,
         RegisterBoard, FetchInputs, LockInputs, InputsInFlux, MarkSpent, MarkRefused,
         CrashRestart
  <1> QED
    BY <1>2, <1>3, <1>4, <1>5, Zenon DEF TypeOK, TableTypeOK

(* The server implements the abstract ledger: a recorded spend is final and *)
(* every signature it gives out is for the recorded spend, across retries,  *)
(* failed transactions and crashes.                                         *)
THEOREM LedgerRefinement == Spec => ImplementsLedger
  <1>1. Init => Ledger!LedgerInit
    BY DEF Init, TableInit, Ledger!LedgerInit, SpentBy
  <1>2. TypeOK /\ SpendInv /\ [Next]_vars => [Ledger!LedgerNext]_(Ledger!ledgerVars)
    BY LedgerStep
  <1> QED
    BY <1>1, <1>2, TypeCorrect, SpendInvariant, PTL
       DEF Spec, ImplementsLedger, Ledger!LedgerSpec

-----------------------------------------------------------------------------

(* The course of a round *)

(* What each phase of the coordinator knows. *)
PhaseInv ==
    /\ pc \in {"sleep", "start", "halted"} => attempt = 0 /\ allowed = Vtxos
    /\ pc \in {"sleep", "start", "attempt", "halted"} => registered = {}
    /\ pc \notin {"sigtree", "forfeits", "finish", "persist"} => sigs = {}
    /\ pc \notin {"forfeits", "finish", "persist"} => forfeits = {}
    /\ pc \in {"construct", "sigtree", "forfeits", "finish", "persist"} => registered # {}
    /\ pc = "sigtree" => sigs \subseteq Cosigners /\ sigs # Cosigners
    /\ pc \in {"forfeits", "finish", "persist"} => Cosigners \subseteq sigs
    /\ pc = "forfeits" => forfeits \subseteq AllInputs /\ forfeits # AllInputs
    /\ pc \in {"finish", "persist"} => forfeits = AllInputs

(* Registered payments offer distinct, allowed inputs. *)
RegisteredInv ==
    /\ \A p \in registered : Inputs[p] \subseteq allowed
    /\ \A p, q \in registered : p # q => Inputs[p] \cap Inputs[q] = {}
    /\ pc \in {"check", "verify"} =>
          /\ Inputs[current] \subseteq allowed
          /\ \A p \in registered : Inputs[current] \cap Inputs[p] = {}

RoundInv == PhaseInv /\ RegisteredInv /\ AttemptsBounded

LEMMA EndRoundStep ==
    ASSUME NEW next \in {"sleep", "start", "halted"}, EndRound(next)
    PROVE  RoundInv'
  <1>1. PhaseInv'
    BY Zenon DEF EndRound, PhaseInv
  <1>2. RegisteredInv'
    BY DEF EndRound, RegisteredInv
  <1>3. AttemptsBounded'
    <2>1. Cardinality(Vtxos) \in Nat
      BY BoundAssumption, FS_CardinalityType, Zenon
    <2> QED
      BY <2>1 DEF EndRound, AttemptsBounded
  <1> QED
    BY <1>1, <1>2, <1>3, Zenon DEF RoundInv

(* An attempt is restarted with fewer allowed inputs. *)
LEMMA RestartStep ==
    ASSUME TypeOK, RoundInv, NEW ok \in SUBSET allowed, ok # allowed, Restart(ok)
    PROVE  RoundInv'
  <1>1. CASE ok = {}
    BY <1>1, EndRoundStep, Zenon DEF Restart
  <1>2. CASE ok # {}
    <2>1. PhaseInv'
      BY <1>2, Zenon DEF Restart, PhaseInv
    <2>2. RegisteredInv'
      BY <1>2, Zenon DEF Restart, RegisteredInv
    <2>3. IsFiniteSet(allowed)
      BY BoundAssumption, FS_Subset DEF TypeOK
    <2>4. /\ Cardinality(ok) <= Cardinality(allowed)
          /\ Cardinality(ok) # Cardinality(allowed)
          /\ IsFiniteSet(ok)
      BY <2>3, FS_Subset, Zenon
    <2>5. /\ Cardinality(ok) \in Nat
          /\ Cardinality(allowed) \in Nat
          /\ Cardinality(Vtxos) \in Nat
      BY <2>3, <2>4, BoundAssumption, FS_CardinalityType, Zenon
    <2>6. AttemptsBounded'
      BY <1>2, <2>4, <2>5 DEF Restart, AttemptsBounded, RoundInv, TypeOK
    <2> QED
      BY <2>1, <2>2, <2>6, Zenon DEF RoundInv
  <1> QED
    BY <1>1, <1>2, Zenon

LEMMA RoundStep == TypeOK /\ RoundInv /\ [Next]_vars => RoundInv'
  <1> SUFFICES ASSUME TypeOK, RoundInv, [Next]_vars
               PROVE  RoundInv'
    BY Zenon
  <1>a. registered # {} => AllInputs # {}
    BY InputTypes DEF AllInputs, TypeOK
  <1>b. AllInputs \subseteq allowed
    BY DEF AllInputs, RoundInv, RegisteredInv
  <1>c. attempt' = attempt /\ allowed' = allowed => AttemptsBounded'
    BY Zenon DEF AttemptsBounded, RoundInv
  <1>1. CASE StartRound
    BY <1>1, <1>c, Zenon DEF StartRound, RoundInv, PhaseInv, RegisteredInv
  <1>2. CASE StartAttempt
    BY <1>2, <1>c, Zenon DEF StartAttempt, RoundInv, PhaseInv, RegisteredInv
  <1>3. ASSUME NEW p \in Payments, LockPayment(p)
        PROVE  RoundInv'
    <2>1. \A q \in registered : Inputs[p] \cap Inputs[q] = {}
      BY <1>3, Zenon DEF LockPayment, ValidPaymentData, AllInputs
    <2> QED
      BY <1>3, <1>c, <2>1, Zenon DEF LockPayment, ValidPaymentData, RoundInv, PhaseInv, RegisteredInv
  <1>4. CASE CheckPayment
    BY <1>4, <1>c, Zenon DEF CheckPayment, RoundInv, PhaseInv, RegisteredInv
  <1>5. CASE RefusePayment
    BY <1>5, <1>c, Zenon DEF RefusePayment, RoundInv, PhaseInv, RegisteredInv
  <1>6. CASE RegisterPayment
    <2>1. PhaseInv'
      BY <1>6, Zenon DEF RegisterPayment, RoundInv, PhaseInv
    <2>2. RegisteredInv'
      BY <1>6, Zenon DEF RegisterPayment, RoundInv, RegisteredInv
    <2> QED
      BY <1>6, <1>c, <2>1, <2>2, Zenon DEF RegisterPayment, RoundInv
  <1>7. CASE CloseRegistration
    <2>1. CASE registered = {}
      BY <1>7, <2>1, EndRoundStep, Zenon DEF CloseRegistration
    <2>2. CASE registered # {}
      BY <1>7, <1>c, <2>2, Zenon DEF CloseRegistration, RoundInv, PhaseInv, RegisteredInv
    <2> QED
      BY <2>1, <2>2, Zenon
  <1>8. CASE ConstructVtxoTree
    <2>1. PhaseInv'
      BY <1>8, <1>a, Zenon DEF ConstructVtxoTree, RoundInv, PhaseInv, Cosigners, AllInputs
    <2> QED
      BY <1>8, <1>c, <2>1, Zenon DEF ConstructVtxoTree, RoundInv, RegisteredInv
  <1>9. CASE WalletError
    BY <1>9, EndRoundStep, Zenon DEF WalletError
  <1>10. ASSUME NEW p \in Payments, RegisterSignature(p)
         PROVE  RoundInv'
    <2>1. PhaseInv'
      BY <1>10, <1>a, Zenon DEF RegisterSignature, AfterSignature, RoundInv, PhaseInv, Cosigners, AllInputs
    <2> QED
      BY <1>10, <1>c, <2>1, Zenon DEF RegisterSignature, AfterSignature, RoundInv, RegisteredInv
  <1>11. CASE VtxoSignaturesTimeout
    <2> DEFINE ok == AllInputs \ UNION {Inputs[p] : p \in Cosigners \ sigs}
    <2>1. PICK p \in Cosigners : p \notin sigs
      BY <1>11, Zenon DEF VtxoSignaturesTimeout, RoundInv, PhaseInv
    <2>2. PICK v \in Inputs[p] : TRUE
      BY <2>1, InputTypes, Zenon DEF Cosigners, TypeOK
    <2>3. v \in AllInputs /\ v \notin ok
      BY <2>1, <2>2, Zenon DEF AllInputs, Cosigners
    <2>4. ok \in SUBSET allowed /\ ok # allowed
      BY <1>b, <2>3, Zenon
    <2> QED
      BY <1>11, <2>4, RestartStep, Zenon DEF VtxoSignaturesTimeout
  <1>12. ASSUME NEW vs \in SUBSET Vtxos, RegisterForfeits(vs)
         PROVE  RoundInv'
    <2>1. PhaseInv'
      BY <1>12 DEF RegisterForfeits, AfterForfeits, RoundInv, PhaseInv, Cosigners, AllInputs
    <2> QED
      BY <1>12, <1>c, <2>1, Zenon DEF RegisterForfeits, AfterForfeits, RoundInv, RegisteredInv
  <1>13. CASE ForfeitsTimeout
    <2>1. /\ AllInputs \cap forfeits \in SUBSET allowed
          /\ AllInputs \cap forfeits # allowed
      BY <1>13, <1>b, Zenon DEF ForfeitsTimeout, RoundInv, PhaseInv
    <2> QED
      BY <1>13, <2>1, RestartStep, Zenon DEF ForfeitsTimeout
  <1>14. CASE BroadcastRoundTx
    BY <1>14, <1>c, Zenon
       DEF BroadcastRoundTx, RoundInv, PhaseInv, RegisteredInv, Cosigners, AllInputs
  <1>15. CASE BroadcastError \/ PersistRound \/ PersistError \/ RefusalPanics
    BY <1>15, EndRoundStep, Zenon DEF BroadcastError, PersistRound, PersistError, RefusalPanics
  <1>16. CASE UNCHANGED coordVars
    BY <1>16, <1>c, Zenon DEF coordVars, RoundInv, PhaseInv, RegisteredInv, Cosigners, AllInputs
  <1>17. CASE CrashRestart
    <2>1. Cardinality(Vtxos) \in Nat
      BY BoundAssumption, FS_CardinalityType, Zenon
    <2>2. PhaseInv'
      BY <1>17, Zenon DEF CrashRestart, PhaseInv
    <2>3. RegisteredInv'
      BY <1>17, Zenon DEF CrashRestart, RegisteredInv
    <2>4. AttemptsBounded'
      BY <1>17, <2>1 DEF CrashRestart, AttemptsBounded
    <2> QED
      BY <2>2, <2>3, <2>4 DEF RoundInv
  <1>18. ASSUME NEW r \in Requests, RequestNext(r)
         PROVE  UNCHANGED coordVars
    BY <1>18, Zenon
       DEF RequestNext, FetchInputs, LockInputs, InputsInFlux, MarkSpent, MarkRefused,
           ServerCosign, coordVars
  <1>19. ASSUME NEW v \in Boards, RegisterBoard(v)
         PROVE  UNCHANGED coordVars
    BY <1>19, Zenon DEF RegisterBoard, coordVars
  <1> QED
    BY <1>1, <1>2, <1>3, <1>4, <1>5, <1>6, <1>7, <1>8, <1>9, <1>10, <1>11, <1>12,
       <1>13, <1>14, <1>15, <1>16, <1>17, <1>18, <1>19
       DEF Next, CoordNext, vars, coordVars

LEMMA RoundInvariant == Spec => []RoundInv
  <1>1. Init => RoundInv
    <2>1. Cardinality(Vtxos) \in Nat
      BY BoundAssumption, FS_CardinalityType, Zenon
    <2>2. Init => PhaseInv
      BY Zenon DEF Init, PhaseInv
    <2>3. Init => RegisteredInv
      BY Zenon DEF Init, RegisteredInv
    <2>4. Init => AttemptsBounded
      BY <2>1 DEF Init, AttemptsBounded
    <2> QED
      BY <2>2, <2>3, <2>4 DEF RoundInv
  <1> QED
    BY <1>1, RoundStep, TypeCorrect, PTL DEF Spec

(* A round makes at most as many attempts as there are vtxos: every restart *)
(* bans at least one input.                                                 *)
THEOREM AttemptsBoundedAlways == Spec => []AttemptsBounded
  BY RoundInvariant, PTL DEF RoundInv

(* When the round transaction is signed, the forfeits of all inputs and the *)
(* signatures of all cosigners are there.                                   *)
THEOREM FinishCompleteAlways == Spec => []FinishComplete
  <1>1. RoundInv => FinishComplete
    BY DEF RoundInv, PhaseInv, FinishComplete
  <1> QED
    BY <1>1, RoundInvariant, PTL

(* What the coordinator counts on in every phase of a round: its types, the *)
(* bound on its attempts and the signatures that finish unwraps.            *)
THEOREM CoordinatorSoundAlways == Spec => []CoordinatorSound
  BY TypeCorrect, AttemptsBoundedAlways, FinishCompleteAlways, PTL DEF CoordinatorSound

(* A participant that did its part keeps its place when the others time out. *)
THEOREM DiligentNotBannedAlways == Spec => DiligentNotBanned
  <1> DEFINE A == (pc = "sigtree" /\ pc' \in {"attempt", "start"} /\ crashes' = crashes) =>
                     \A p \in sigs \cup (registered \cap Offboards) :
                         pc' = "attempt" /\ Inputs[p] \subseteq allowed'
  <1>1. TypeOK /\ RoundInv /\ [Next]_vars => [A]_vars
    <2> SUFFICES ASSUME TypeOK, RoundInv, Next, pc = "sigtree",
                        pc' \in {"attempt", "start"}, crashes' = crashes,
                        NEW p \in sigs \cup (registered \cap Offboards)
                 PROVE  pc' = "attempt" /\ Inputs[p] \subseteq allowed'
      BY Zenon
    <2>1. VtxoSignaturesTimeout
      <3>1. ~ \E r \in Requests : RequestNext(r)
        BY Zenon DEF RequestNext, FetchInputs, LockInputs, InputsInFlux, MarkSpent,
               MarkRefused, ServerCosign, coordVars
      <3>2. ~ (CrashRestart \/ \E v \in Boards : RegisterBoard(v))
        <4>1. ~ CrashRestart
          <5>1. crashes + 1 # crashes
            BY DEF TypeOK
          <5> QED
            BY <5>1, Zenon DEF CrashRestart
        <4>2. ~ \E v \in Boards : RegisterBoard(v)
          BY Zenon DEF RegisterBoard, coordVars
        <4> QED
          BY <4>1, <4>2, Zenon
      <3>3. CoordNext
        BY <3>1, <3>2, Zenon DEF Next
      <3>4. ~ \E q \in Payments : LockPayment(q) \/ RegisterSignature(q)
        BY Zenon DEF LockPayment, RegisterSignature, AfterSignature
      <3>5. ~ (StartRound \/ StartAttempt \/ CheckPayment \/ RefusePayment
               \/ RegisterPayment \/ CloseRegistration \/ ConstructVtxoTree)
        BY Zenon DEF StartRound, StartAttempt, CheckPayment, RefusePayment,
               RegisterPayment, CloseRegistration, ConstructVtxoTree
      <3>6. ~ (WalletError \/ ForfeitsTimeout \/ BroadcastRoundTx \/ BroadcastError
               \/ PersistRound \/ PersistError \/ RefusalPanics)
        BY Zenon DEF WalletError, ForfeitsTimeout, BroadcastRoundTx, BroadcastError,
               PersistRound, PersistError, RefusalPanics, EndRound
      <3>7. ~ \E vs \in SUBSET Vtxos : RegisterForfeits(vs)
        BY Zenon DEF RegisterForfeits, AfterForfeits
      <3> QED
        BY <3>3, <3>4, <3>5, <3>6, <3>7 DEF CoordNext
    <2> DEFINE ok == AllInputs \ UNION {Inputs[q] : q \in Cosigners \ sigs}
    <2>2. p \in registered /\ \A q \in Cosigners \ sigs : q \in registered /\ p # q
      BY Zenon DEF RoundInv, PhaseInv, Cosigners
    <2>3. Inputs[p] \subseteq ok
      BY <2>2, Zenon DEF RoundInv, RegisteredInv, AllInputs
    <2>4. Inputs[p] # {}
      BY <2>2, InputTypes, Zenon DEF TypeOK
    <2> QED
      BY <2>1, <2>3, <2>4, Zenon DEF VtxoSignaturesTimeout, Restart
  <1> QED
    BY <1>1, RoundInvariant, TypeCorrect, PTL DEF Spec, DiligentNotBanned

-----------------------------------------------------------------------------

(* What the flux lock protects *)

(* The guards hold what their owners count on. *)
GuardInv ==
    /\ attempt = 0 => \A p \in registered : Inputs[p] \subseteq held[RoundGuard]
    /\ pc \in {"check", "verify"} => held[PaymentGuard] = Inputs[current]
    /\ \A r \in Requests \ Checkpointed :
          rpc[r] \in {"locked", "marked"} => held[r] = ReqInputs[r]

LEMMA GuardStep == TypeOK /\ RoundInv /\ GuardInv /\ [Next]_vars => GuardInv'
  <1> SUFFICES ASSUME TypeOK, RoundInv, GuardInv, [Next]_vars
               PROVE  GuardInv'
    BY Zenon
  <1> USE HoldersFacts
  <1>a. held \in [Holders -> SUBSET Vtxos]
    BY DEF TypeOK, FluxTypeOK
  <1>b. ASSUME NEW next \in {"sleep", "start", "halted"}, EndRound(next), rpc' = rpc
        PROVE  GuardInv'
    BY <1>a, <1>b, Zenon DEF EndRound, Release, GuardInv
  <1>c. ASSUME NEW ok \in SUBSET Vtxos, Restart(ok), rpc' = rpc
        PROVE  GuardInv'
    BY <1>b, <1>c, Zenon DEF Restart, GuardInv
  <1>d. AllInputs \subseteq Vtxos
    BY AllInputsType DEF TypeOK
  <1>1. CASE StartRound \/ CheckPayment \/ ConstructVtxoTree \/ BroadcastRoundTx
    BY <1>1, Zenon DEF StartRound, CheckPayment, ConstructVtxoTree, BroadcastRoundTx, GuardInv
  <1>2. CASE StartAttempt
    BY <1>2, <1>a, Zenon DEF StartAttempt, Release, GuardInv, RoundInv, PhaseInv
  <1>3. ASSUME NEW p \in Payments, LockPayment(p)
        PROVE  GuardInv'
    BY <1>3, <1>a, Zenon DEF LockPayment, Lock, GuardInv
  <1>4. CASE RefusePayment
    BY <1>4, <1>a, Zenon DEF RefusePayment, Release, GuardInv
  <1>5. CASE RegisterPayment
    <2>1. CASE attempt = 0
      <3>1. /\ held'[RoundGuard] = held[RoundGuard] \cup held[PaymentGuard]
            /\ \A r \in Requests : held'[r] = held[r]
        BY <1>5, <1>a, <2>1, Zenon DEF RegisterPayment, Absorb
      <3>2. /\ registered' = registered \cup {current}
            /\ held[PaymentGuard] = Inputs[current]
            /\ pc' \in {"construct", "collect"} /\ rpc' = rpc
        BY <1>5, Zenon DEF RegisterPayment, GuardInv
      <3> QED
        BY <2>1, <3>1, <3>2, Zenon DEF GuardInv
    <2>2. CASE attempt # 0
      BY <1>5, <1>a, <2>2, Zenon DEF RegisterPayment, Release, GuardInv
    <2> QED
      BY <2>1, <2>2
  <1>6. CASE CloseRegistration
    BY <1>6, <1>b, Zenon DEF CloseRegistration, GuardInv
  <1>7. CASE \/ WalletError \/ BroadcastError \/ PersistRound \/ PersistError
             \/ RefusalPanics
    BY <1>7, <1>b, Zenon DEF WalletError, BroadcastError, PersistRound, PersistError, RefusalPanics
  <1>8. ASSUME NEW p \in Payments, RegisterSignature(p)
        PROVE  GuardInv'
    BY <1>8, Zenon DEF RegisterSignature, AfterSignature, GuardInv
  <1>9. ASSUME NEW vs \in SUBSET Vtxos, RegisterForfeits(vs)
        PROVE  GuardInv'
    BY <1>9, Zenon DEF RegisterForfeits, AfterForfeits, GuardInv
  <1>10. CASE VtxoSignaturesTimeout
    BY <1>10, <1>c, <1>d, Zenon DEF VtxoSignaturesTimeout
  <1>11. CASE ForfeitsTimeout
    BY <1>11, <1>c, <1>d, Zenon DEF ForfeitsTimeout
  <1>12. ASSUME NEW v \in Boards, RegisterBoard(v)
         PROVE  GuardInv'
    BY <1>12 DEF RegisterBoard, coordVars, GuardInv
  <1>13. ASSUME NEW r \in Requests, FetchInputs(r) \/ InputsInFlux(r) \/ MarkSpent(r)
         PROVE  GuardInv'
    BY <1>13, Zenon DEF FetchInputs, InputsInFlux, MarkSpent, coordVars, GuardInv, TypeOK
  <1>14. ASSUME NEW r \in Requests, LockInputs(r)
         PROVE  GuardInv'
    BY <1>14, <1>a, Zenon DEF LockInputs, Lock, coordVars, GuardInv, TypeOK
  <1>15. ASSUME NEW r \in Requests, MarkRefused(r) \/ ServerCosign(r)
         PROVE  GuardInv'
    BY <1>15, <1>a, Zenon DEF MarkRefused, ServerCosign, Release, coordVars, GuardInv, TypeOK
  <1>16. CASE CrashRestart
    BY <1>16, Zenon DEF CrashRestart, ResetFlux, GuardInv
  <1>17. CASE UNCHANGED vars
    BY <1>17, Zenon DEF vars, coordVars, GuardInv
  <1> QED
    BY <1>1, <1>2, <1>3, <1>4, <1>5, <1>6, <1>7, <1>8, <1>9, <1>10, <1>11, <1>12,
       <1>13, <1>14, <1>15, <1>16, <1>17 DEF Next, CoordNext, RequestNext

LEMMA GuardInvariant == Spec => []GuardInv
  <1>1. Init => GuardInv
    BY Zenon DEF Init, GuardInv
  <1> QED
    BY <1>1, GuardStep, TypeCorrect, RoundInvariant, PTL DEF Spec

(* The inputs that were found unspent under a guard. *)
CheckedInputs ==
    (IF attempt = 0 THEN AllInputs ELSE {})
    \cup (IF pc = "verify" THEN Inputs[current] ELSE {})

CheckedInv ==
    Checkpointed = {} => \A v \in CheckedInputs : v \in known /\ IsSpendable(v)

LEMMA CheckedStep ==
    TypeOK /\ RoundInv /\ GuardInv /\ FluxExclusive /\ CheckedInv /\ [Next]_vars
        => CheckedInv'
  <1> SUFFICES ASSUME TypeOK, RoundInv, GuardInv, FluxExclusive, CheckedInv, [Next]_vars,
                      Checkpointed = {}, NEW v \in CheckedInputs'
               PROVE  v \in known' /\ IsSpendable(v)'
    BY Zenon DEF CheckedInv
  <1>1. CASE v \in CheckedInputs
    <2>1. v \in known /\ IsSpendable(v)
      BY <1>1, Zenon DEF CheckedInv
    <2>2. v \in Vtxos
      BY <2>1, Zenon DEF TypeOK, TableTypeOK
    <2>3. CASE TableUnchanged
      BY <2>1, <2>3 DEF TableUnchanged, tableVars, IsSpendable
    <2>4. CASE PersistRound
      BY <2>4, Zenon DEF PersistRound, EndRound, CheckedInputs, AllInputs
    <2>5. ASSUME NEW u \in Boards, RegisterBoard(u)
          PROVE  v \in known' /\ IsSpendable(v)'
      BY <2>1, <2>5, Zenon DEF RegisterBoard, UpsertVtxos, IsSpendable
    <2>6. ASSUME NEW r \in Requests, MarkSpent(r)
          PROVE  v \in known' /\ IsSpendable(v)'
      <3>1. held[r] = ReqInputs[r]
        BY <2>6, Zenon DEF MarkSpent, GuardInv
      <3>2. v \in held[RoundGuard] \/ v \in held[PaymentGuard]
        BY <1>1 DEF CheckedInputs, AllInputs, GuardInv
      <3>3. v \notin ReqInputs[r]
        BY <3>1, <3>2, HoldersFacts, Zenon DEF FluxExclusive
      <3>4. \A s \in Spends[r] : s.vtxo # v
        BY <3>3, RequestAssumption
      <3>5. oor'[v] = oor[v] /\ forfeit'[v] = forfeit[v] /\ v \in known'
        BY <2>1, <2>2, <2>6, <3>4, MarkSpentMarks, OorAfterValue, Zenon DEF Marked
      <3> QED
        BY <2>1, <3>5, Zenon DEF IsSpendable
    <2> QED
      BY <2>3, <2>4, <2>5, <2>6, TableSteps, Zenon
  <1>2. CASE v \notin CheckedInputs
    <2>1. ~ (CheckedInputs' \subseteq CheckedInputs) => CheckPayment
      <3>1. CASE UNCHANGED coordVars
        BY <3>1 DEF coordVars, CheckedInputs, AllInputs
      <3>2. CASE CrashRestart
        BY <3>2, Zenon DEF CrashRestart, CheckedInputs, AllInputs
      <3>3. ASSUME NEW r \in Requests, RequestNext(r)
            PROVE  UNCHANGED coordVars
        BY <3>3, Zenon
           DEF RequestNext, FetchInputs, LockInputs, InputsInFlux, MarkSpent, MarkRefused,
               ServerCosign, coordVars
      <3>4. ASSUME NEW u \in Boards, RegisterBoard(u)
            PROVE  UNCHANGED coordVars
        BY <3>4 DEF RegisterBoard, coordVars
      <3>5. ASSUME registered' = {}, pc' # "verify"
            PROVE  CheckedInputs' = {}
        BY <3>5, Zenon DEF CheckedInputs, AllInputs
      <3>6. ASSUME registered' = registered, attempt' = attempt, pc' # "verify"
            PROVE  CheckedInputs' \subseteq CheckedInputs
        BY <3>6, Zenon DEF CheckedInputs, AllInputs
      <3>7. CASE RegisterPayment
        BY <3>7, Zenon DEF RegisterPayment, CheckedInputs, AllInputs
      <3>8. ASSUME NEW p \in Payments, LockPayment(p) \/ RegisterSignature(p)
            PROVE  CheckedInputs' \subseteq CheckedInputs
        BY <3>6, <3>8, Zenon DEF LockPayment, RegisterSignature, AfterSignature
      <3>9. ASSUME NEW vs \in SUBSET Vtxos, RegisterForfeits(vs)
            PROVE  CheckedInputs' \subseteq CheckedInputs
        BY <3>6, <3>9, Zenon DEF RegisterForfeits, AfterForfeits
      <3>10. CASE StartRound \/ StartAttempt \/ RefusePayment \/ ConstructVtxoTree
                  \/ BroadcastRoundTx
        BY <3>6, <3>10, Zenon DEF StartRound, StartAttempt, RefusePayment, ConstructVtxoTree,
                           BroadcastRoundTx
      <3>11. CASE CloseRegistration \/ VtxoSignaturesTimeout \/ ForfeitsTimeout
        BY <3>5, <3>6, <3>11, Zenon
           DEF CloseRegistration, VtxoSignaturesTimeout, ForfeitsTimeout, Restart, EndRound
      <3>12. CASE WalletError \/ BroadcastError \/ PersistRound \/ PersistError
                  \/ RefusalPanics
        BY <3>5, <3>12, Zenon
           DEF WalletError, BroadcastError, PersistRound, PersistError, RefusalPanics,
               EndRound
      <3>13. CASE UNCHANGED vars
        BY <3>1, <3>13 DEF vars, coordVars
      <3> QED
        BY <3>1, <3>2, <3>3, <3>4, <3>7, <3>8, <3>9, <3>10, <3>11, <3>12, <3>13, Zenon
           DEF Next, CoordNext
    <2>2. CheckPayment
      BY <1>2, <2>1
    <2> QED
      BY <1>2, <2>2, Zenon DEF CheckPayment, CheckedInputs, AllInputs, tableVars, Found, IsSpendable
  <1> QED
    BY <1>1, <1>2, Zenon

(* While only package requests run, nobody spends the inputs of a round's   *)
(* first attempt: they are in the round's guard from before they are looked *)
(* up until the round is over.                                              *)
THEOREM FirstAttemptProtectedAlways == Spec => []FirstAttemptProtected
  <1>1. Init => CheckedInv
    BY Zenon DEF Init, CheckedInv, CheckedInputs, AllInputs
  <1>2. CheckedInv => FirstAttemptProtected
    BY Zenon DEF CheckedInv, CheckedInputs, FirstAttemptProtected
  <1> QED
    BY <1>1, <1>2, CheckedStep, TypeCorrect, RoundInvariant, GuardInvariant, FluxCorrect,
       PTL DEF Spec

LEMMA FirstAttemptRecordedStep ==
    TypeOK /\ FirstAttemptProtected /\ FirstAttemptRecorded /\ [Next]_vars
        => FirstAttemptRecorded'
  <1> SUFFICES ASSUME TypeOK, FirstAttemptProtected, FirstAttemptRecorded, [Next]_vars,
                      Checkpointed = {}, "db" \notin Faults, MaxCrashes = 0,
                      NEW tx \in roundTxs', tx.attempt = 0
               PROVE  \/ tx.seq \in rounds'
                      \/ pc' = "persist" /\ seq' = tx.seq /\ attempt' = 0
    BY DEF FirstAttemptRecorded
  <1>1. rounds \subseteq rounds'
    BY TableSteps, MarkSpentMarks, Zenon
       DEF TableUnchanged, tableVars, PersistRound, FinishRound, RegisterBoard, Marked
  <1>2. CASE BroadcastRoundTx
    BY <1>1, <1>2, SMTT(60) DEF BroadcastRoundTx, FirstAttemptRecorded
  <1>3. CASE ~ BroadcastRoundTx
    <2>1. roundTxs' = roundTxs
      BY <1>3, Zenon
         DEF Next, CoordNext, RequestNext, vars,
             StartRound, StartAttempt, LockPayment, CheckPayment, RefusePayment,
             RegisterPayment, CloseRegistration, ConstructVtxoTree, WalletError,
             RegisterSignature, AfterSignature, VtxoSignaturesTimeout, RegisterForfeits, AfterForfeits, ForfeitsTimeout,
             BroadcastError, PersistRound, PersistError, RefusalPanics, RegisterBoard,
             FetchInputs, LockInputs, InputsInFlux, MarkSpent, MarkRefused, ServerCosign,
             CrashRestart
    <2>2. CASE tx.seq \in rounds
      BY <1>1, <2>2, Zenon
    <2>3. CASE pc = "persist" /\ seq = tx.seq /\ attempt = 0
      <3>1. ~ PersistError
        BY <2>3, Zenon DEF PersistError, CanFinishRound, FirstAttemptProtected
      <3>2. ~ CrashRestart
        BY DEF CrashRestart, TypeOK
      <3>3. CASE PersistRound
        BY <2>3, <3>3 DEF PersistRound, FinishRound
      <3>4. ASSUME CoordNext, ~ PersistRound
            PROVE  FALSE
        <4>1. ~ \E q \in Payments : LockPayment(q) \/ RegisterSignature(q)
          BY <2>3, Zenon DEF LockPayment, RegisterSignature, AfterSignature
        <4>2. ~ \E vs \in SUBSET Vtxos : RegisterForfeits(vs)
          BY <2>3, Zenon DEF RegisterForfeits, AfterForfeits
        <4> QED
          BY <1>3, <2>3, <3>1, <3>4, <4>1, <4>2, Zenon
             DEF CoordNext, StartRound, StartAttempt, CheckPayment, RefusePayment,
                 RegisterPayment, CloseRegistration, ConstructVtxoTree, WalletError,
                 VtxoSignaturesTimeout, ForfeitsTimeout, BroadcastError, RefusalPanics
      <3>5. ASSUME ~ CoordNext
            PROVE  UNCHANGED coordVars
        BY <3>2, <3>5, Zenon
           DEF Next, RequestNext, vars, coordVars, RegisterBoard, FetchInputs, LockInputs,
               InputsInFlux, MarkSpent, MarkRefused, ServerCosign
      <3> QED
        BY <2>3, <3>3, <3>4, <3>5, Zenon DEF coordVars
    <2> QED
      BY <2>1, <2>2, <2>3, Zenon DEF FirstAttemptRecorded
  <1> QED
    BY <1>2, <1>3, Zenon

(* Without database errors and crashes, a first attempt whose transaction   *)
(* went to the network is stored.                                           *)
THEOREM FirstAttemptRecordedAlways == Spec => []FirstAttemptRecorded
  <1>1. Init => FirstAttemptRecorded
    BY DEF Init, FirstAttemptRecorded
  <1> QED
    BY <1>1, FirstAttemptRecordedStep, TypeCorrect, FirstAttemptProtectedAlways, PTL DEF Spec
=============================================================================
