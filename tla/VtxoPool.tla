------------------------------ MODULE VtxoPool ------------------------------
(***************************************************************************)
(* The server's pool of its own vtxos (server/src/vtxopool.rs,              *)
(* database/vtxopool.rs): an in-memory index over table vtxo_pool, from     *)
(* which concurrent lightning receives take inputs, and a task that issues  *)
(* new vtxos when the pool runs low.                                        *)
(*                                                                          *)
(* A vtxo is a record; its id is the number of the transaction tree or      *)
(* package that made it and its place there.                                *)
(***************************************************************************)
EXTENDS Naturals, FiniteSets, FiniteSetsExt

CONSTANTS
    Sends,          \* the calls of send_arkoor
    Required,       \* Required[s]: the amount of request s
    Targets,        \* vtxo_targets: [amount -> count]
    Threshold,      \* vtxo_target_issue_threshold, in percent
    Lifetime,       \* vtxo_lifetime
    PreExpiry,      \* vtxo_pre_expiry
    MaxDepth,       \* vtxo_max_arkoor_depth
    Dust,           \* P2TR_DUST
    Initial,        \* rows of table vtxo_pool at the first start
    MaxTip,         \* bound on the chain
    MaxIssues,      \* bound on the issuances
    Faults          \* how many calls may fail, and how often the server restarts

VARIABLES
    pool,       \* Data.pool
    rows,       \* table vtxo_pool
    marked,     \* ids of the rows with spent_at set
    spends,     \* <<id, s>>: table vtxo says that send s spent vtxo id
    funded,     \* ids of vtxos whose issuance transaction was broadcast
    step,       \* step[s]: where send s is
    inputs,     \* inputs[s]: what it took
    paid,       \* paid[s]: the inputs it spent
    change,     \* change[s]: its change vtxo, not stored yet
    issue,      \* where the issuance task is
    issuance,   \* [amount -> count] it decided to issue
    batch,      \* the vtxos it is issuing
    tip,        \* chain tip height
    nextId,     \* next fresh vtxo id
    issues,     \* issuances so far
    poolFaults      \* poolFaults left

sendVars == <<step, inputs, paid, change>>
taskVars == <<issue, issuance, batch, issues>>
poolVars == <<pool, rows, marked, spends, funded, sendVars, taskVars, tip, nextId, poolFaults>>

Vtxo == [id : Nat \X Nat \X Nat, expiry : Nat, amount : Nat, depth : Nat]

ASSUME PoolAssumption ==
    /\ \A s \in Sends : Required[s] \in Nat \ {0}
    /\ IsFiniteSet(DOMAIN Targets) /\ DOMAIN Targets \subseteq Nat
    /\ \A a \in DOMAIN Targets : Targets[a] \in Nat
    /\ Threshold \in 0 .. 100
    /\ Lifetime \in Nat /\ PreExpiry \in Nat /\ Dust \in Nat
    /\ MaxTip \in Nat /\ MaxIssues \in Nat /\ Faults \in Nat
    /\ IsFiniteSet(Initial) /\ Initial \subseteq Vtxo
    /\ \A v \in Initial : v.id[1] = 0

-----------------------------------------------------------------------------

Total(vs) == MapThenSumSet(LAMBDA v : v.amount, vs)

Ids(vs) == {v.id : v \in vs}

(* The order in which take_inputs visits the pool: by expiry, then from the *)
(* highest amount down; equal ones are interchangeable.                     *)
Before(v, w) == v.expiry < w.expiry \/ (v.expiry = w.expiry /\ v.amount > w.amount)

LastVisited(vs) == CHOOSE v \in vs : \A w \in vs : ~Before(v, w)

(* The next lower amount of v's expiry bucket. *)
NextAmount(p, v) ==
    Max({0} \cup {w.amount : w \in {x \in p : x.expiry = v.expiry /\ x.amount < v.amount}})

(* Faulty variant: takes no vtxo larger than what remains. *)
TakeInputsNoSkip(p, required) ==
    LET Take(v, acc) ==
            IF acc.remaining >= v.amount
              THEN [ret |-> acc.ret \cup {v}, remaining |-> acc.remaining - v.amount]
              ELSE acc
        res == MapThenFoldSet(Take, [ret |-> {}, remaining |-> required],
                              LAMBDA v : v, LastVisited, p)
    IN IF res.remaining # 0 THEN {} ELSE res.ret

(* Data::take_inputs: a vtxo is taken while the next lower amount would not *)
(* do, and nothing is taken when all of them do not suffice.                *)
TakeInputs(p, required) ==
    LET Take(v, acc) ==
            IF acc.remaining > NextAmount(p, v)
              THEN [ret |-> acc.ret \cup {v},
                    remaining |-> IF acc.remaining > v.amount
                                    THEN acc.remaining - v.amount ELSE 0]
              ELSE acc
        res == MapThenFoldSet(Take, [ret |-> {}, remaining |-> required],
                              LAMBDA v : v, LastVisited, p)
    IN IF res.remaining # 0 THEN {} ELSE res.ret

(* Data::prune_expiring *)
PruneExpiring(p, threshold) == {v \in p : v.expiry > threshold}

(* Data::count_amount *)
CountAmount(p, amount) == Cardinality({v \in p : v.amount = amount})

(* Data::load_from_db, load_vtxopool *)
LoadVtxoPool == {v \in rows : v.id \notin marked}

SpentIds == {p[1] : p \in spends}

-----------------------------------------------------------------------------

NoVtxos == {}
NoIssuance == [a \in DOMAIN Targets |-> 0]

PoolInit ==
    /\ rows = Initial
    /\ marked = {}
    /\ pool = Initial
    /\ spends = {}
    /\ funded = Ids(Initial)
    /\ step = [s \in Sends |-> "idle"]
    /\ inputs = [s \in Sends |-> {}]
    /\ paid = [s \in Sends |-> {}]
    /\ change = [s \in Sends |-> NoVtxos]
    /\ issue = "idle"
    /\ issuance = NoIssuance
    /\ batch = {}
    /\ tip = 0
    /\ nextId = 1
    /\ issues = 0
    /\ poolFaults = Faults

NewBlock ==
    /\ tip < MaxTip
    /\ tip' = tip + 1
    /\ UNCHANGED <<pool, rows, marked, spends, funded, sendVars, taskVars, nextId, poolFaults>>

-----------------------------------------------------------------------------

(* send_arkoor takes its inputs under the mutex; none is "vtxo pool is      *)
(* empty".                                                                  *)
SendArkoor(s) ==
    /\ step[s] = "idle"
    /\ LET taken == TakeInputs(pool, Required[s]) IN
       /\ pool' = pool \ taken
       /\ inputs' = [inputs EXCEPT ![s] = taken]
       /\ step' = [step EXCEPT ![s] = IF taken = {} THEN "failed" ELSE "taken"]
    /\ UNCHANGED <<rows, marked, spends, funded, paid, change, taskVars, tip, nextId, poolFaults>>

(* prepare_arkoor failed: "we place back the inputs". *)
PlaceBack(s) ==
    /\ pool' = pool \cup inputs[s]
    /\ inputs' = [inputs EXCEPT ![s] = {}]
    /\ change' = [change EXCEPT ![s] = NoVtxos]
    /\ step' = [step EXCEPT ![s] = "failed"]

(* ArkoorPackageBuilder::new walks the rows in the order the database       *)
(* returns them and stops once the amount is reached; the change goes back  *)
(* to the pool unless it is dust.                                           *)
Package(s, used, last) ==
    /\ used \subseteq inputs[s]
    /\ last \in used
    /\ Total(used) >= Required[s]
    /\ Total(used \ {last}) < Required[s]

ChangeOf(s, used, last) ==
    LET rest == Total(used) - Required[s] IN
    IF rest < Dust THEN NoVtxos
    ELSE {[id |-> <<nextId, 0, 0>>, expiry |-> last.expiry, amount |-> rest, depth |-> last.depth + 1]}

(* Faulty variant: table vtxo is not asked whether the inputs are spent. *)
InputsUnspentAny(used) == TRUE

(* check_set_vtxo_oor_spent_package *)
InputsUnspent(used) == Ids(used) \cap SpentIds = {}

(* prepare_arkoor up to build_vtxos: the inputs are marked spent in table   *)
(* vtxo before the server signs.                                            *)
CosignArkoor(s) ==
    /\ step[s] = "taken"
    /\ \E used \in SUBSET inputs[s] : \E last \in used :
          /\ Package(s, used, last)
          /\ IF InputsUnspent(used)
               THEN /\ spends' = spends \cup {<<v.id, s>> : v \in used}
                    /\ paid' = [paid EXCEPT ![s] = used]
                    /\ change' = [change EXCEPT ![s] = ChangeOf(s, used, last)]
                    /\ nextId' = nextId + 1
                    /\ step' = [step EXCEPT ![s] = "cosigned"]
                    /\ UNCHANGED <<pool, inputs>>
               ELSE PlaceBack(s) /\ UNCHANGED <<spends, paid, nextId>>
    /\ UNCHANGED <<rows, marked, funded, taskVars, tip, poolFaults>>

(* mark_vtxopool_vtxos_spent is called with the ids of the new vtxos, which *)
(* no row has.                                                              *)
SpentPoolIds(s) == {}

MarkPoolVtxos(s) ==
    /\ step[s] = "cosigned"
    /\ marked' = marked \cup SpentPoolIds(s)
    /\ step' = [step EXCEPT ![s] = "marked"]
    /\ UNCHANGED <<pool, rows, spends, funded, inputs, paid, change, taskVars, tip, nextId, poolFaults>>

(* The change is stored, then it joins the pool. *)
StoreChange(s) ==
    /\ step[s] = "marked"
    /\ rows' = rows \cup change[s]
    /\ pool' = pool \cup change[s]
    /\ funded' = IF Ids(paid[s]) \subseteq funded THEN funded \cup Ids(change[s]) ELSE funded
    /\ change' = [change EXCEPT ![s] = NoVtxos]
    /\ inputs' = [inputs EXCEPT ![s] = {}]
    /\ step' = [step EXCEPT ![s] = "done"]
    /\ UNCHANGED <<marked, spends, paid, taskVars, tip, nextId, poolFaults>>

(* A database call fails: before the cosigning or when marking, the inputs  *)
(* are placed back; when storing the change, a warning is logged.           *)
SendFault(s) ==
    /\ poolFaults > 0
    /\ poolFaults' = poolFaults - 1
    /\ \/ /\ step[s] \in {"taken", "cosigned"}
          /\ PlaceBack(s)
       \/ /\ step[s] = "marked"
          /\ change' = [change EXCEPT ![s] = NoVtxos]
          /\ inputs' = [inputs EXCEPT ![s] = {}]
          /\ step' = [step EXCEPT ![s] = "done"]
          /\ UNCHANGED pool
    /\ UNCHANGED <<rows, marked, spends, funded, paid, taskVars, tip, nextId>>

-----------------------------------------------------------------------------

Missing(p) ==
    [a \in DOMAIN Targets |->
        IF CountAmount(p, a) <= Targets[a] THEN Targets[a] - CountAmount(p, a) ELSE 0]

(* Faulty variant: a target counts as low only when nothing of it is left. *)
LowTargetsEmpty(p) == {a \in DOMAIN Targets : CountAmount(p, a) = 0 /\ Targets[a] > 0}

(* The targets below their threshold. *)
LowTargets(p) ==
    {a \in DOMAIN Targets : CountAmount(p, a) * 100 < Targets[a] * Threshold}

(* check_maybe_issue_vtxos, calculate_required_issuance: under the mutex,   *)
(* expiring vtxos are pruned and what is missing is counted.                *)
CheckMaybeIssue ==
    /\ issue = "idle"
    /\ LET kept == PruneExpiring(pool, tip + PreExpiry) IN
       /\ pool' = kept
       /\ IF LowTargets(kept) # {} /\ issues < MaxIssues
            THEN issue' = "build" /\ issuance' = Missing(kept) /\ issues' = issues + 1
            ELSE UNCHANGED <<issue, issuance, issues>>
    /\ UNCHANGED <<rows, marked, spends, funded, sendVars, batch, tip, nextId, poolFaults>>

(* The vtxos of an issuance, the leaves of one tree. *)
NewVtxos ==
    {[id |-> <<nextId, w[1], w[2]>>, expiry |-> tip + Lifetime, amount |-> w[1], depth |-> 0] :
        w \in UNION {{a} \X (1 .. issuance[a]) : a \in DOMAIN Targets}}

(* issue_vtxos up to register_cosigned_vtxo_tree. *)
RegisterTree ==
    /\ issue = "build"
    /\ batch' = NewVtxos
    /\ nextId' = nextId + 1
    /\ issuance' = NoIssuance
    /\ issue' = "registered"
    /\ UNCHANGED <<pool, rows, marked, spends, funded, sendVars, issues, tip, poolFaults>>

(* The funding transaction is signed and stored, then the pool vtxos are    *)
(* stored and can be used.                                                  *)
StoreBatch ==
    /\ issue = "registered"
    /\ rows' = rows \cup batch
    /\ pool' = pool \cup batch
    /\ issue' = "stored"
    /\ UNCHANGED <<marked, spends, funded, sendVars, issuance, batch, issues, tip, nextId, poolFaults>>

(* The funding transaction goes to the nursery. *)
BroadcastBatch ==
    /\ issue = "stored"
    /\ funded' = funded \cup Ids(batch)
    /\ batch' = {}
    /\ issue' = "idle"
    /\ UNCHANGED <<pool, rows, marked, spends, sendVars, issuance, issues, tip, nextId, poolFaults>>

(* An error anywhere in issue_vtxos: a warning is logged. *)
IssueFault ==
    /\ poolFaults > 0
    /\ poolFaults' = poolFaults - 1
    /\ issue # "idle"
    /\ issue' = "idle"
    /\ issuance' = NoIssuance
    /\ batch' = {}
    /\ UNCHANGED <<pool, rows, marked, spends, funded, sendVars, issues, tip, nextId>>

(* The server stops and starts again: VtxoPool::new loads the table. *)
Restart ==
    /\ poolFaults > 0
    /\ poolFaults' = poolFaults - 1
    /\ pool' = LoadVtxoPool
    /\ step' = [s \in Sends |-> IF step[s] \in {"idle", "done"} THEN step[s] ELSE "failed"]
    /\ inputs' = [s \in Sends |-> {}]
    /\ change' = [s \in Sends |-> NoVtxos]
    /\ issue' = "idle"
    /\ issuance' = NoIssuance
    /\ batch' = {}
    /\ UNCHANGED <<rows, marked, spends, funded, paid, issues, tip, nextId>>

-----------------------------------------------------------------------------

Send(s) == SendArkoor(s) \/ CosignArkoor(s) \/ MarkPoolVtxos(s) \/ StoreChange(s)

Issue == CheckMaybeIssue \/ RegisterTree \/ StoreBatch \/ BroadcastBatch

PoolNext ==
    \/ NewBlock
    \/ \E s \in Sends : Send(s) \/ SendFault(s)
    \/ Issue
    \/ IssueFault
    \/ Restart

PoolSpec == PoolInit /\ [][PoolNext]_poolVars

(* Calls run to their end, and the issuance timer keeps ticking. *)
PoolFairness == WF_poolVars(Issue) /\ \A s \in Sends : WF_poolVars(Send(s))

PoolFairSpec == PoolSpec /\ PoolFairness

-----------------------------------------------------------------------------

PoolTypeOK ==
    /\ pool \subseteq rows
    /\ rows \subseteq Vtxo
    /\ spends \subseteq (Nat \X Nat \X Nat) \X Sends
    /\ step \in [Sends -> {"idle", "taken", "cosigned", "marked", "done", "failed"}]
    /\ \A s \in Sends : inputs[s] \cup paid[s] \subseteq rows /\ change[s] \subseteq Vtxo
    /\ issue \in {"idle", "build", "registered", "stored"}
    /\ issuance \in [DOMAIN Targets -> Nat]
    /\ batch \subseteq Vtxo
    /\ tip \in 0 .. MaxTip
    /\ issues \in 0 .. MaxIssues
    /\ poolFaults \in 0 .. Faults

(* Whatever the pool holds, take_inputs finds inputs for an amount exactly  *)
(* when the pool has that much, uses a later expiry only when all earlier   *)
(* ones are used ("always prioritize VTXOs that are closer to expiry"), and *)
(* takes no vtxo of the last expiry it uses that it could do without.       *)
SelectionSound ==
    \A required \in 1 .. Total(pool) + 1 :
        LET taken == TakeInputs(pool, required) IN
        /\ taken \subseteq pool
        /\ IF Total(pool) < required
             THEN taken = {}
             ELSE /\ Total(taken) >= required
                  /\ \A v \in taken, w \in pool \ taken : v.expiry <= w.expiry
                  /\ LET latest == Max({x.expiry : x \in taken}) IN
                     \A v \in taken : v.expiry = latest => Total(taken \ {v}) < required

(* A vtxo is in the pool or held by one send, never by two, through         *)
(* concurrent sends, failures that place inputs back, issuances and         *)
(* restarts.                                                                *)
HeldOnce ==
    /\ \A s, t \in Sends : s # t => inputs[s] \cap inputs[t] = {}
    /\ \A s \in Sends : inputs[s] \cap pool = {}

(* Although the pool may offer a vtxo again that was spent before, no two   *)
(* sends are signed for the same one.                                       *)
SpentOnce == \A p, q \in spends : p[1] = q[1] => p[2] = q[2]

(* One input pays one send (vtxopool.rs): while it is selected, by the      *)
(* pool's own bookkeeping; once it is signed for, by the vtxo table, also   *)
(* after a restart that has lost the bookkeeping.  The state keeps its      *)
(* types.                                                                   *)
InputsUsedOnce == PoolTypeOK /\ HeldOnce /\ SpentOnce

(* The least number of vtxos of amount a that is not below the threshold. *)
Least(a) == (Targets[a] * Threshold + 99) \div 100

(* Unless the bound on issuances was reached, every target is in the end    *)
(* above its threshold and stays there.                                     *)
PoolRefilled ==
    <>[](issues = MaxIssues \/ \A a \in DOMAIN Targets : CountAmount(pool, a) >= Least(a))

-----------------------------------------------------------------------------

(* mark_vtxopool_vtxos_spent, "failed to mark vtxopool vtxos as spent" and  *)
(* "a VTXO pool vtxo was spent": the pool offers no vtxo that a completed   *)
(* send spent.                                                              *)
PoolUnspent ==
    \A s \in Sends : step[s] = "done" => Ids(pool) \cap Ids(paid[s]) = {}

(* vtxo_max_arkoor_depth, "maximum arkoor depth to keep change until". *)
DepthBounded == \A v \in pool : v.depth <= MaxDepth

(* vtxo_pre_expiry, "Time in blocks before the expiry to no longer use      *)
(* VTXOs": a send that takes its inputs takes none within that time.        *)
PreExpiryRespected ==
    [][\A s \in Sends : step[s] = "idle" /\ step'[s] = "taken" =>
          \A v \in inputs'[s] : v.expiry > tip + PreExpiry]_poolVars

(* register_cosigned_vtxo_tree, "This should only be called once we trust   *)
(* that the root of the tree will confirm.": the funding transaction of a   *)
(* stored pool vtxo is broadcast, or the issuance task is about to.         *)
RegisteredFunded ==
    \A v \in rows : v.depth = 0 => v.id \in funded \cup Ids(batch)
=============================================================================
