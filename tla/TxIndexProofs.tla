---------------------------- MODULE TxIndexProofs ----------------------------
(***************************************************************************)
(* Proofs about the server's index of blocks and transactions, for any     *)
(* tree of blocks and any reorganisations.                                 *)
(***************************************************************************)
EXTENDS TxIndex, WellFoundedInduction, TLAPS

-----------------------------------------------------------------------------
(* Chains *)

Height(b) == Len(Path[b])

(* x is a block of the chain that ends in b. *)
On(x, b) == x \in Blocks /\ Height(x) <= Height(b) /\ Path[b][Height(x)] = x

LEMMA Least ==
    ASSUME NEW B, B \subseteq Nat, B # {}
    PROVE  \E n \in B : \A m \in Nat : m < n => m \notin B
  <1>1. PICK n \in B : \A y \in B : ~(<<y, n>> \in OpToRel(<, Nat))
    BY WFMin, NatLessThanWellFounded, Zenon
  <1>2. \A m \in Nat : m < n /\ m \in B => <<m, n>> \in OpToRel(<, Nat)
    BY DEF OpToRel
  <1> QED
    BY <1>1, <1>2, Zenon

LEMMA RangeOf ==
    ASSUME NEW S, NEW s \in Seq(S)
    PROVE  Range(s) = {s[i] : i \in 1 .. Len(s)} /\ Range(s) \subseteq S
  BY DEF Range

LEMMA BaseHeight == Height(Base) = 1 /\ Path[Base][1] = Base
  BY BlocksAssumption DEF Height

LEMMA ParentHeight ==
    ASSUME NEW b \in Blocks, b # Base
    PROVE  /\ Parent[b] \in Blocks
           /\ Height(b) = Height(Parent[b]) + 1 /\ Path[b][Height(b)] = b
           /\ \A i \in 1 .. Height(Parent[b]) : Path[b][i] = Path[Parent[b]][i]
  <1> DEFINE q == Parent[b]
  <1>1. q \in Blocks /\ Path[q] \in Seq(Blocks) /\ Path[b] = Append(Path[q], b)
    BY BlocksAssumption
  <1> HIDE DEF q
  <1>2. /\ Len(Append(Path[q], b)) = Len(Path[q]) + 1
        /\ Append(Path[q], b)[Len(Path[q]) + 1] = b
        /\ \A i \in 1 .. Len(Path[q]) : Append(Path[q], b)[i] = Path[q][i]
    BY <1>1
  <1> QED
    BY <1>1, <1>2 DEF Height, q

(* Sequences with the same elements are the same. *)
LEMMA SameSeq ==
    ASSUME NEW S, NEW s \in Seq(S), NEW t \in Seq(S), Len(s) = Len(t),
           \A i \in 1 .. Len(s) : s[i] = t[i]
    PROVE  s = t
  <1>1. s = [i \in 1 .. Len(s) |-> s[i]] /\ t = [i \in 1 .. Len(t) |-> t[i]]
    OBVIOUS
  <1> QED
    BY <1>1

LEMMA HeightNat ==
    ASSUME NEW b \in Blocks
    PROVE  /\ Path[b] \in Seq(Blocks) /\ Height(b) \in Nat /\ Height(b) >= 1
           /\ Path[b][Height(b)] = b /\ (Height(b) > 1 <=> b # Base)
  <1>1. \A c \in Blocks : Path[c] \in Seq(Blocks) /\ Height(c) \in Nat
    BY BlocksAssumption DEF Height
  <1>2. CASE b = Base
    BY <1>1, <1>2, BaseHeight
  <1>3. CASE b # Base
    <2>1. Parent[b] \in Blocks /\ Height(b) = Height(Parent[b]) + 1 /\ Path[b][Height(b)] = b
      BY <1>3, ParentHeight
    <2>2. b # Base => Parent[b] # Base \/ Parent[b] = Base
      OBVIOUS
    <2>3. Height(Parent[b]) >= 1
      <3>1. CASE Parent[b] = Base
        BY <3>1, BaseHeight
      <3>2. CASE Parent[b] # Base
        <4>1. /\ Parent[Parent[b]] \in Blocks
              /\ Height(Parent[b]) = Height(Parent[Parent[b]]) + 1
          BY <2>1, <3>2, ParentHeight
        <4> QED
          BY <1>1, <4>1
      <3> QED
        BY <3>1, <3>2
    <2> QED
      BY <1>1, <1>3, <2>1, <2>3
  <1> QED
    BY <1>2, <1>3

(* The blocks of a chain are at their heights, and their own chains are its *)
(* prefixes.                                                                *)
Fits(b) ==
    \A i \in 1 .. Height(b) :
        /\ Path[b][i] \in Blocks /\ Height(Path[b][i]) = i
        /\ \A j \in 1 .. i : Path[Path[b][i]][j] = Path[b][j]

LEMMA PathPrefix == \A b \in Blocks : Fits(b)
  <1> DEFINE B == {n \in Nat : \E b \in Blocks : Height(b) = n /\ ~Fits(b)}
  <1> SUFFICES ASSUME NEW b0 \in Blocks, ~Fits(b0) PROVE FALSE
    OBVIOUS
  <1>1. Height(b0) \in B
    BY HeightNat
  <1>2. PICK n \in B : \A m \in Nat : m < n => m \notin B
    BY <1>1, Least, Zenon
  <1>3. PICK b \in Blocks : Height(b) = n /\ ~Fits(b)
    BY <1>2
  <1>4. CASE b = Base
    BY <1>3, <1>4, BaseHeight DEF Fits
  <1>5. CASE b # Base
    <2> DEFINE q == Parent[b]
    <2>1. /\ q \in Blocks /\ Height(b) = Height(q) + 1 /\ Path[b][Height(b)] = b
          /\ \A i \in 1 .. Height(q) : Path[b][i] = Path[q][i]
      BY <1>5, ParentHeight
    <2> HIDE DEF q
    <2>2. Height(q) \in Nat /\ Height(q) < n
      BY <1>3, <2>1, HeightNat
    <2>3. Fits(q)
      BY <1>2, <2>1, <2>2
    <2>4. ASSUME NEW i \in 1 .. Height(b)
          PROVE  /\ Path[b][i] \in Blocks /\ Height(Path[b][i]) = i
                 /\ \A j \in 1 .. i : Path[Path[b][i]][j] = Path[b][j]
      <3>1. CASE i = Height(b)
        BY <2>1, <3>1
      <3>2. CASE i # Height(b)
        <4>1. i \in 1 .. Height(q)
          BY <2>1, <2>2, <3>2
        <4>2. Path[b][i] = Path[q][i] /\ \A j \in 1 .. i : Path[b][j] = Path[q][j]
          BY <2>1, <2>2, <4>1
        <4> QED
          BY <2>3, <4>1, <4>2 DEF Fits
      <3> QED
        BY <3>1, <3>2
    <2> QED
      BY <1>3, <2>4, Zenon DEF Fits
  <1> QED
    BY <1>4, <1>5

LEMMA OnPath == \A b \in Blocks : \A x : x \in Range(Path[b]) <=> On(x, b)
  <1> SUFFICES ASSUME NEW b \in Blocks, NEW x PROVE x \in Range(Path[b]) <=> On(x, b)
    OBVIOUS
  <1>1. Range(Path[b]) = {Path[b][i] : i \in 1 .. Height(b)} /\ Height(b) \in Nat
    BY HeightNat, RangeOf DEF Height
  <1>2. ASSUME NEW i \in 1 .. Height(b), x = Path[b][i] PROVE On(x, b)
    BY <1>1, <1>2, PathPrefix DEF Fits, On
  <1>3. ASSUME On(x, b) PROVE x \in Range(Path[b])
    <2>1. Height(x) \in 1 .. Height(b) /\ x = Path[b][Height(x)]
      BY <1>1, <1>3, HeightNat DEF On
    <2> QED
      BY <1>1, <2>1
  <1> QED
    BY <1>1, <1>2, <1>3

(* Two blocks of one height are not on one chain, and the chain of a block  *)
(* on a chain is part of it.                                                *)
LEMMA OnChain ==
    ASSUME NEW b \in Blocks
    PROVE  /\ On(b, b)
           /\ \A x, y : On(x, b) /\ On(y, b) /\ Height(x) = Height(y) => x = y
           /\ \A x, y : On(y, b) /\ On(x, y) => On(x, b)
           /\ \A x, y : On(y, b) /\ On(x, b) /\ Height(x) <= Height(y) => On(x, y)
  <1>1. On(b, b)
    BY HeightNat DEF On
  <1>2. ASSUME NEW y, On(y, b) PROVE \A j \in 1 .. Height(y) : Path[y][j] = Path[b][j]
    <2>1. Height(y) \in 1 .. Height(b) /\ Path[b][Height(y)] = y
      BY <1>2, HeightNat DEF On
    <2> QED
      BY <2>1, PathPrefix DEF Fits
  <1>3. ASSUME NEW x, NEW y, On(y, b), On(x, y) PROVE On(x, b)
    <2>1. Height(x) \in 1 .. Height(y) /\ Height(y) <= Height(b) /\ Height(b) \in Nat /\ Height(y) \in Nat
      BY <1>3, HeightNat DEF On
    <2> QED
      BY <1>2, <1>3, <2>1 DEF On
  <1>4. ASSUME NEW x, NEW y, On(y, b), On(x, b), Height(x) <= Height(y) PROVE On(x, y)
    <2>1. Height(x) \in 1 .. Height(y)
      BY <1>4, HeightNat DEF On
    <2> QED
      BY <1>2, <1>4, <2>1 DEF On
  <1> QED
    BY <1>1, <1>3, <1>4 DEF On

(* What try_insert makes of the chain that ends in l: the chain of b, whose  *)
(* other blocks it had, or the same chain, which has b.                      *)
LEMMA Inserted ==
    ASSUME NEW l \in Blocks, blocks = Path[l], NEW b \in Blocks, CanInsert(b)
    PROVE  \/ /\ TryInsert(b) = Path[b]
              /\ \A x : On(x, b) <=> (x = b \/ (On(x, l) /\ Height(x) < Height(b)))
           \/ TryInsert(b) = blocks /\ On(b, l)
  <1> DEFINE h == Height(b)
             q == Parent[b]
  <1>1. /\ h \in Nat /\ h > 1 /\ h <= Height(l) + 1 /\ Path[l][h - 1] = q
        /\ Height(l) \in Nat /\ b # Base
    BY HeightNat DEF CanInsert, Height
  <1>2. /\ q \in Blocks /\ h = Height(q) + 1 /\ Height(q) \in Nat /\ Path[b] = Append(Path[q], b)
        /\ On(q, b) /\ On(q, l)
    <2>1. q \in Blocks /\ h = Height(q) + 1 /\ Path[b] = Append(Path[q], b)
      BY <1>1, ParentHeight, BlocksAssumption
    <2>2. Height(q) \in Nat /\ Height(q) >= 1 /\ Path[q][Height(q)] = q
      BY <2>1, HeightNat, Zenon
    <2>3. Path[b][Height(q)] = q
      <3>1. Height(q) \in 1 .. Height(q)
        BY <2>2
      <3>2. \A i \in 1 .. Height(q) : Path[b][i] = Path[q][i]
        BY <1>1, ParentHeight
      <3> QED
        BY <2>2, <3>1, <3>2
    <2>4. Height(q) = h - 1 /\ Height(q) <= h /\ Height(q) <= Height(l)
      BY <1>1, <2>1, <2>2
    <2>5. On(q, b)
      BY <2>1, <2>3, <2>4 DEF On
    <2>6. On(q, l)
      BY <1>1, <2>1, <2>4 DEF On
    <2> QED
      BY <2>1, <2>2, <2>5, <2>6
  <1>3. CASE h <= Height(l) /\ Path[l][h] = b
    <2>1. TryInsert(b) = blocks
      BY <1>3, Zenon DEF TryInsert, Height
    <2> QED
      BY <1>3, <2>1 DEF On
  <1>4. CASE ~(h <= Height(l) /\ Path[l][h] = b)
    <2>1. TryInsert(b) = Append(SubSeq(Path[l], 1, h - 1), b)
      BY <1>4 DEF TryInsert, Height
    <2>2. SubSeq(Path[l], 1, h - 1) = Path[q]
      <3> DEFINE s == SubSeq(Path[l], 1, h - 1)
      <3>1. Path[l] \in Seq(Blocks) /\ Path[q] \in Seq(Blocks) /\ h - 1 = Height(q)
        BY <1>2, HeightNat
      <3>2. Height(q) \in 1 .. Height(l) /\ Path[l][Height(q)] = q
        BY <1>2, HeightNat DEF On
      <3>3. \A j \in 1 .. Height(q) : Path[q][j] = Path[l][j]
        BY <3>2, PathPrefix DEF Fits
      <3>4. s \in Seq(Blocks) /\ Len(s) = Height(q) /\ \A j \in 1 .. Height(q) : s[j] = Path[l][j]
        <4> HIDE DEF h, q
        <4>1. \A j \in 1 .. Len(Path[l]) : Path[l][j] \in Blocks
          BY <3>1
        <4>2. 1 .. Height(q) \subseteq 1 .. Len(Path[l])
          BY <3>2, <1>1, <1>2 DEF Height
        <4> QED
          BY <1>1, <1>2, <3>1, <3>2, <4>1, <4>2, SMTT(60)
      <3> HIDE DEF s, h, q
      <3>5. Len(Path[q]) = Height(q)
        BY DEF Height
      <3> QED
        BY <3>1, <3>3, <3>4, <3>5, SameSeq DEF s
    <2>3. ASSUME NEW x, On(x, b), x # b PROVE On(x, l) /\ Height(x) < h
      <3>1. Height(x) \in Nat /\ Height(x) <= h /\ Height(x) # h
        BY <2>3, HeightNat, OnChain DEF On
      <3>2. On(x, q)
        BY <1>2, <2>3, <3>1, OnChain
      <3> QED
        BY <1>1, <1>2, <3>1, <3>2, OnChain
    <2>4. ASSUME NEW x, On(x, l), Height(x) < h PROVE On(x, b)
      <3>1. Height(x) \in Nat
        BY <2>4, HeightNat DEF On
      <3>2. On(x, q)
        BY <1>2, <2>4, <3>1, OnChain
      <3> QED
        BY <1>2, <3>2, OnChain
    <2> QED
      BY <1>2, <2>1, <2>2, <2>3, <2>4, OnChain, SMTT(60)
  <1> QED
    BY <1>3, <1>4

-----------------------------------------------------------------------------
(* The inductive invariant *)

(* The index is the chain of its last block. *)
Indexed == blocks = Path[Last(blocks)]

(* All blocks the update task has were on bitcoind's chain. *)
WasBest(x) == (On(x, tip) \/ x \in left) /\ Height(x) <= Height(tip)
Seen ==
    /\ \A x \in Range(blocks) : WasBest(x)
    /\ \A i \in 1 .. Len(new_blocks) : WasBest(new_blocks[i])

NotBack == ~returned => \A x \in left : ~On(x, tip)

(* The blocks to apply go down, and the next one is not below a block of    *)
(* the index's chain that is still bitcoind's.                              *)
Descending ==
    \A i, j \in 1 .. Len(new_blocks) : i < j => Height(new_blocks[i]) > Height(new_blocks[j])
Fetching ==
    upd = "fetch" =>
        /\ height >= 1
        /\ \A i \in 1 .. Len(new_blocks) : Height(new_blocks[i]) > height
        /\ ~returned /\ height < Len(blocks) => blocks[height] \in left
Applying ==
    upd = "apply" =>
        /\ Len(new_blocks) > 0
        /\ ~returned /\ Height(Last(new_blocks)) < Len(blocks) =>
               blocks[Height(Last(new_blocks))] # Last(new_blocks)

MempoolOut == \A t \in mempool : \A x : On(x, tip) => t \notin TxsOf[x]
SnapshotOut ==
    upd = "mempool" =>
        \A t \in snapshot : \A x \in Range(blocks) : t \in TxsOf[x] => x \in left

(* A status that is not the index's is of a block bitcoind has left. *)
Entry(c) == c \in tracked /\ Slot(TxOf[c]) = c
Sound(c) ==
    status[c] \in Blocks => status[c] \in Range(blocks) /\ TxOf[c] \in TxsOf[status[c]]
Complete(c) ==
    ~returned => \A x \in Range(blocks) : TxOf[c] \in TxsOf[x] => status[c] = x \/ x \in left
Statused == \A c \in Callers : Entry(c) => Sound(c) /\ Complete(c)

TxInv ==
    /\ TypeOK /\ Indexed /\ Seen /\ NotBack /\ Descending /\ Fetching /\ Applying
    /\ MempoolOut /\ SnapshotOut /\ Statused

LEMMA IndexFacts ==
    ASSUME TypeOK, Indexed
    PROVE  /\ Last(blocks) \in Blocks /\ blocks = Path[Last(blocks)]
           /\ Len(blocks) = Height(Last(blocks)) /\ Len(blocks) \in Nat /\ Len(blocks) >= 1
           /\ \A x : x \in Range(blocks) <=> On(x, Last(blocks))
           /\ \A i \in 1 .. Len(blocks) : blocks[i] \in Range(blocks) /\ Height(blocks[i]) = i
           /\ \A i \in 1 .. Len(new_blocks) : new_blocks[i] \in Blocks
  <1>1. blocks \in Seq(Blocks) /\ blocks # <<>> /\ new_blocks \in Seq(Blocks)
    BY DEF TypeOK
  <1>2. Len(blocks) \in Nat /\ Len(blocks) >= 1
    BY <1>1
  <1>3. Last(blocks) \in Blocks
    BY <1>1, <1>2 DEF Last
  <1>4. PICK l \in Blocks : l = Last(blocks)
    BY <1>3
  <1>5. blocks = Path[l] /\ Len(blocks) = Height(l)
    BY <1>4 DEF Indexed, Height
  <1>6. \A i \in 1 .. Len(blocks) : blocks[i] \in Range(blocks) /\ Height(blocks[i]) = i
    <2>1. \A i \in 1 .. Height(l) : Height(Path[l][i]) = i
      BY PathPrefix DEF Fits
    <2> QED
      BY <1>1, <1>5, <2>1, RangeOf
  <1>7. \A i \in 1 .. Len(new_blocks) : new_blocks[i] \in Blocks
    BY <1>1
  <1> QED
    BY <1>2, <1>4, <1>5, <1>6, <1>7, OnPath, Zenon

(* The chain of the last block of an index that is up to date is bitcoind's. *)
LEMMA TxStatusIs ==
    ASSUME TypeOK, NEW t \in Txs
    PROVE  /\ TxStatus(t) \in Statuses
           /\ TxStatus(t) \in Blocks => On(TxStatus(t), tip) /\ t \in TxsOf[TxStatus(t)]
           /\ \A x : On(x, tip) /\ t \in TxsOf[x] => TxStatus(t) = x
           /\ t \in Confirmed(tip) <=> \E x : On(x, tip) /\ t \in TxsOf[x]
  <1>1. tip \in Blocks
    BY DEF TypeOK
  <1>2. \A x : x \in Range(Path[tip]) <=> On(x, tip)
    BY <1>1, OnPath
  <1>3. t \in Confirmed(tip) <=> \E x \in Range(Path[tip]) : t \in TxsOf[x]
    BY DEF Confirmed
  <1>4. CASE t \in Confirmed(tip)
    <2> DEFINE y == CHOOSE x \in Range(Path[tip]) : t \in TxsOf[x]
    <2>1. y \in Range(Path[tip]) /\ t \in TxsOf[y]
      BY <1>3, <1>4
    <2>2. TxStatus(t) = y
      BY <1>4 DEF TxStatus
    <2> HIDE DEF y
    <2>3. \A x \in Range(Path[tip]) : t \in TxsOf[x] => x = y
      BY <1>1, <2>1, TxsAssumption
    <2>4. y \in Blocks
      BY <1>2, <2>1 DEF On
    <2> QED
      BY <1>2, <1>3, <2>1, <2>2, <2>3, <2>4 DEF Statuses
  <1>5. CASE t \notin Confirmed(tip)
    <2>1. TxStatus(t) \in {"mempool", "unseen"}
      BY <1>5 DEF TxStatus
    <2> QED
      BY <1>2, <1>3, <1>5, <2>1, BlocksAssumption DEF Statuses
  <1> QED
    BY <1>4, <1>5

LEMMA TxInit == Init => TxInv
  <1> SUFFICES ASSUME Init PROVE TxInv
    OBVIOUS
  <1>1. blocks = <<Base>> /\ Base \in Blocks /\ new_blocks = <<>> /\ Last(blocks) = Base /\ tip = Base
    BY BlocksAssumption DEF Init, Last
  <1>2. TypeOK
    <2>1. blocks \in Seq(Blocks) /\ blocks # <<>> /\ new_blocks \in Seq(Blocks)
      BY <1>1
    <2>2. tx_map \in [Txs -> Callers \cup {NULL}] /\ holds \in [Callers -> Callers \cup {NULL}]
      BY DEF Init
    <2> QED
      BY <1>1, <2>1, <2>2, BlocksAssumption, Zenon DEF Init, TypeOK, Statuses
  <1>3. Indexed
    BY <1>1, BlocksAssumption, Zenon DEF Indexed
  <1>4. \A x \in Range(blocks) : WasBest(x)
    <2>1. \A x \in Range(blocks) : On(x, tip)
      BY <1>1, <1>2, <1>3, IndexFacts
    <2> QED
      BY <2>1 DEF WasBest, On
  <1>5. Len(new_blocks) = 0
    BY <1>1
  <1>6. Seen /\ Descending
    BY <1>4, <1>5 DEF Seen, Descending
  <1>7. NotBack /\ Fetching /\ Applying /\ MempoolOut /\ SnapshotOut /\ Statused
    BY DEF Init, NotBack, Fetching, Applying, MempoolOut, SnapshotOut, Statused, Entry
  <1> QED
    BY <1>2, <1>3, <1>6, <1>7 DEF TxInv

-----------------------------------------------------------------------------
(* bitcoind's steps *)

LEMMA NewTipStep ==
    ASSUME TxInv, NEW b \in Blocks, NewTip(b)
    PROVE  TxInv'
  <1>1. /\ Height(b) > Height(tip) /\ tip' = b /\ tip \in Blocks
        /\ left' = left \cup (Range(Path[tip]) \ Range(Path[b]))
        /\ returned' = (returned \/ Range(Path[b]) \cap left # {})
        /\ UNCHANGED <<blocks, db, tx_map, status, callVars, tracked, updVars, queue>>
    BY Zenon DEF NewTip, TxInv, TypeOK, Height
  <1>2. /\ \A x : x \in left' <=> (x \in left \/ (On(x, tip) /\ ~On(x, b)))
        /\ returned' <=> (returned \/ \E x \in left : On(x, b))
        /\ returned' \in BOOLEAN
    <2>1. \A x : (x \in Range(Path[tip]) <=> On(x, tip)) /\ (x \in Range(Path[b]) <=> On(x, b))
      BY <1>1, OnPath
    <2> QED
      BY <1>1, <2>1, Zenon DEF TxInv, TypeOK
  <1>3. mempool' \subseteq Txs /\ \A t \in mempool' : t \notin Confirmed(b)
    <2>1. Confirmed(tip) \subseteq Txs
      BY <1>1, BlocksAssumption, OnPath DEF Confirmed, On
    <2> QED
      BY <2>1 DEF NewTip, TxInv, TypeOK
  <1>4. TypeOK'
    <2>1. left' \subseteq Blocks
      BY <1>2, Zenon DEF On, TxInv, TypeOK
    <2> QED
      BY <1>1, <1>2, <1>3, <2>1, Zenon DEF TxInv, TypeOK, callVars, updVars
  <1>5. Indexed' /\ Descending'
    BY <1>1 DEF TxInv, Indexed, Descending, updVars
  <1>6. \A x : WasBest(x) /\ x \in Blocks => WasBest(x)'
    <2> SUFFICES ASSUME NEW x \in Blocks, WasBest(x) PROVE WasBest(x)'
      OBVIOUS
    <2>1. Height(x) \in Nat /\ Height(tip) \in Nat /\ Height(b) \in Nat
      BY <1>1, HeightNat, Zenon
    <2>2. Height(x) <= Height(b)
      BY <1>1, <2>1 DEF WasBest
    <2>3. On(x, b) \/ x \in left'
      BY <1>2, Zenon DEF WasBest
    <2> QED
      BY <1>1, <2>2, <2>3 DEF WasBest
  <1>7. Seen'
    <2>1. /\ \A x \in Range(blocks) : x \in Blocks
          /\ \A i \in 1 .. Len(new_blocks) : new_blocks[i] \in Blocks
      BY IndexFacts DEF TxInv, On
    <2> QED
      BY <1>1, <1>6, <2>1, Zenon DEF TxInv, Seen, updVars
  <1>8. NotBack'
    BY <1>1, <1>2, Zenon DEF NotBack
  <1>9. Fetching' /\ Applying' /\ SnapshotOut'
    BY <1>1, <1>2, Zenon DEF TxInv, Fetching, Applying, SnapshotOut, updVars
  <1>10. MempoolOut'
    <2>1. ASSUME NEW t \in mempool', NEW x, On(x, b), t \in TxsOf[x] PROVE FALSE
      <3>1. x \in Range(Path[b])
        BY <2>1, OnPath, Zenon
      <3> QED
        BY <1>3, <2>1, <3>1 DEF Confirmed
    <2> QED
      BY <1>1, <2>1, Zenon DEF MempoolOut
  <1>11. Statused'
    BY <1>1, <1>2, SMTT(60) DEF TxInv, Statused, Entry, Sound, Complete, Slot, Live, callVars
  <1> QED
    BY <1>4, <1>5, <1>7, <1>8, <1>9, <1>10, <1>11 DEF TxInv

(* The mempool changes, and nothing else but the nursery's queue. *)
LEMMA MempoolStep ==
    ASSUME TxInv, mempool' \subseteq Txs, \A t \in mempool' : t \in mempool \/ t \notin Confirmed(tip),
           queue' \subseteq Txs,
           UNCHANGED <<tipVars, blocks, db, tx_map, status, callVars, tracked, updVars>>
    PROVE  TxInv'
  <1>1. TypeOK'
    BY Zenon DEF TxInv, TypeOK, tipVars, callVars, updVars
  <1>2. MempoolOut'
    BY TxStatusIs, Zenon DEF TxInv, TypeOK, MempoolOut, tipVars
  <1>3. Indexed' /\ Seen' /\ NotBack' /\ Descending'
    BY Zenon DEF TxInv, Indexed, Seen, WasBest, NotBack, Descending, tipVars, updVars
  <1>4. Fetching' /\ Applying' /\ SnapshotOut'
    BY Zenon DEF TxInv, Fetching, Applying, SnapshotOut, tipVars, updVars
  <1>5. Statused'
    BY Zenon DEF TxInv, Statused, Entry, Sound, Complete, Slot, Live, callVars, tipVars
  <1> QED
    BY <1>1, <1>2, <1>3, <1>4, <1>5, Zenon DEF TxInv

-----------------------------------------------------------------------------
(* The callers *)

LEMMA SlotIs ==
    ASSUME TypeOK, NEW t \in Txs
    PROVE  /\ Slot(t) \in Callers \cup {NULL}
           /\ Slot(t) # NULL => Live(Slot(t))
           /\ \A c \in Callers : Slot(t) = c <=> tx_map[t] = c /\ Live(c)
  BY BlocksAssumption, Zenon DEF TypeOK, Slot

(* An entry of the index after a step was one before it, with the same      *)
(* status, or it is new and the index is up to date.                        *)
Carried(c) ==
    Entry(c)' => \/ Entry(c) /\ status'[c] = status[c]
                 \/ UpToDate /\ status'[c] = TxStatus(TxOf[c])

LEMMA ReuseCarries ==
    ASSUME TypeOK, NEW d \in Callers, Slot(TxOf[d]) # NULL, Reuse(d)
    PROVE  /\ \A c \in Callers : Carried(c)
           /\ holds' \in [Callers -> Callers \cup {NULL}]
  <1>1. TxOf \in [Callers -> Txs]
    BY BlocksAssumption, Zenon
  <1>2. Slot(TxOf[d]) \in Callers \cup {NULL} /\ Live(Slot(TxOf[d]))
    BY <1>1, SlotIs
  <1>3. \A c \in Callers : Live(c)' => Live(c)
    BY <1>2, Zenon DEF Reuse, TypeOK, Live
  <1>4. ASSUME NEW c \in Callers, Entry(c)' PROVE Entry(c) /\ status'[c] = status[c]
    <2>1. tx_map[TxOf[c]] = c /\ Live(c) /\ c \in tracked
      BY <1>3, <1>4, BlocksAssumption, Zenon DEF Entry, Slot, Reuse
    <2> QED
      BY <1>1, <2>1, SlotIs, Zenon DEF Entry, Reuse
  <1> QED
    BY <1>2, <1>4 DEF Carried, Reuse, TypeOK

LEMMA NewObjectCarries ==
    ASSUME TypeOK, NEW d \in Callers, NewObject(d)
    PROVE  /\ \A c \in Callers : Carried(c)
           /\ holds' \in [Callers -> Callers \cup {NULL}]
           /\ tx_map' \in [Txs -> Callers \cup {NULL}]
           /\ status' \in [Callers -> Statuses] /\ tracked' \subseteq Callers
  <1>1. TxOf \in [Callers -> Txs] /\ NULL \notin Callers
    BY BlocksAssumption
  <1>2. ASSUME Entry(d)' PROVE UpToDate /\ status'[d] = TxStatus(TxOf[d])
    BY <1>2, Zenon DEF Entry, NewObject, TypeOK
  <1>3. ASSUME NEW c \in Callers, c # d, Entry(c)' PROVE Entry(c) /\ status'[c] = status[c]
    <2>1. Live(c)' => Live(c)
      BY <1>3 DEF NewObject, TypeOK, Live
    <2>2. tx_map'[TxOf[c]] = c /\ Live(c)' /\ c \in tracked'
      BY <1>1, <1>3, Zenon DEF Entry, Slot
    <2>3. tx_map[TxOf[c]] = c /\ c \in tracked /\ status'[c] = status[c]
      BY <1>1, <1>3, <2>2, Zenon DEF NewObject, TypeOK
    <2> QED
      BY <1>1, <2>1, <2>2, <2>3, SlotIs DEF Entry
  <1>4. /\ holds' \in [Callers -> Callers \cup {NULL}]
        /\ tx_map' \in [Txs -> Callers \cup {NULL}]
        /\ status' \in [Callers -> Statuses] /\ tracked' \subseteq Callers
    BY <1>1, Zenon DEF NewObject, TypeOK
  <1> QED
    BY <1>2, <1>3, <1>4 DEF Carried

LEMMA KeptCarries ==
    ASSUME TypeOK, UNCHANGED <<status, tx_map, tracked>>,
           \A c \in Callers : Live(c)' => Live(c)
    PROVE  \A c \in Callers : Carried(c)
  <1> SUFFICES ASSUME NEW c \in Callers, Entry(c)' PROVE Entry(c) /\ status'[c] = status[c]
    BY Zenon DEF Carried
  <1>1. tx_map[TxOf[c]] = c /\ Live(c) /\ c \in tracked
    BY BlocksAssumption DEF Entry, Slot
  <1> QED
    BY <1>1, BlocksAssumption, SlotIs, Zenon DEF Entry

LEMMA CallCarries ==
    ASSUME TypeOK, NEW d \in Callers, Call(d)
    PROVE  /\ \A c \in Callers : Carried(c)
           /\ TypeOK' /\ UNCHANGED <<chainVars, blocks, updVars>>
  <1>0. TxOf[d] \in Txs /\ NULL \notin Callers /\ TxStatus(TxOf[d]) \in Statuses
    <2>1. TxOf[d] \in Txs /\ NULL \notin Callers
      BY BlocksAssumption
    <2> QED
      BY <2>1, TxStatusIs, Zenon
  <1>1. CASE Register(d) \/ DatabaseToIndex(d)
    <2>1. /\ UNCHANGED <<status, tx_map, tracked, holds, chainVars, blocks, updVars, queue>>
          /\ db' \subseteq Txs /\ seen' \in [Callers -> Statuses]
          /\ call' \in [Callers -> {"idle", "miss", "read", "insert", "done"}]
      BY <1>0, <1>1, SMTT(60) DEF Register, DatabaseToIndex, TypeOK
    <2>2. TypeOK'
      BY <2>1, Zenon DEF TypeOK, chainVars, tipVars, updVars
    <2> QED
      BY <2>1, <2>2, KeptCarries DEF Live
  <1>2. CASE RegisterAs(d)
    <2>1. /\ UNCHANGED <<chainVars, blocks, db, updVars>>
          /\ seen' \in [Callers -> Statuses] /\ queue' \subseteq Txs
          /\ call' \in [Callers -> {"idle", "miss", "read", "insert", "done"}]
      BY <1>0, <1>2, Zenon DEF RegisterAs, TypeOK, Statuses
    <2>2. CASE Slot(TxOf[d]) # NULL /\ Reuse(d)
      <3>1. (\A c \in Callers : Carried(c)) /\ holds' \in [Callers -> Callers \cup {NULL}]
        BY <2>2, ReuseCarries, Zenon
      <3> QED
        BY <2>1, <2>2, <3>1 DEF TypeOK, Reuse, chainVars, tipVars, updVars
    <2>3. CASE NewObject(d)
      BY <2>1, <2>3, NewObjectCarries, Zenon DEF TypeOK, chainVars, tipVars, updVars
    <2> QED
      BY <1>2, <2>2, <2>3 DEF RegisterAs
  <1>3. CASE Get(d) \/ GetOrInsert(d)
    <2>1. /\ UNCHANGED <<chainVars, blocks, db, updVars, queue, status, tx_map, tracked>>
          /\ seen' \in [Callers -> Statuses]
          /\ call' \in [Callers -> {"idle", "miss", "read", "insert", "done"}]
      BY <1>0, <1>3, Zenon DEF Get, GetOrInsert, Reuse, TypeOK, Statuses
    <2>2. CASE Slot(TxOf[d]) # NULL /\ Reuse(d)
      <3>1. (\A c \in Callers : Carried(c)) /\ holds' \in [Callers -> Callers \cup {NULL}]
        BY <2>2, ReuseCarries
      <3> QED
        BY <2>1, <2>2, <3>1, Zenon DEF TypeOK, chainVars, tipVars, updVars
    <2>3. CASE UNCHANGED holds
      <3>1. TypeOK'
        BY <2>1, <2>3, Zenon DEF TypeOK, chainVars, tipVars, updVars
      <3> QED
        BY <2>1, <2>3, <3>1, KeptCarries, Zenon DEF Live
    <2> QED
      BY <1>3, <2>2, <2>3, Zenon DEF Get, GetOrInsert
  <1>4. CASE Insert(d)
    <2>1. /\ UNCHANGED <<chainVars, blocks, db, updVars, queue>> /\ NewObject(d)
          /\ seen' \in [Callers -> Statuses]
          /\ call' \in [Callers -> {"idle", "miss", "read", "insert", "done"}]
      BY <1>0, <1>4 DEF Insert, TypeOK, Statuses
    <2> QED
      BY <2>1, NewObjectCarries, Zenon DEF TypeOK, chainVars, tipVars, updVars
  <1>5. CASE DropTx(d)
    <2>1. /\ UNCHANGED <<status, tx_map, tracked, chainVars, blocks, db, seen, updVars, queue>>
          /\ holds' \in [Callers -> Callers \cup {NULL}]
          /\ call' \in [Callers -> {"idle", "miss", "read", "insert", "done"}]
          /\ \A c \in Callers : Live(c)' => Live(c)
      BY <1>0, <1>5, Zenon DEF DropTx, TypeOK, Live
    <2>2. TypeOK'
      BY <2>1, Zenon DEF TypeOK, chainVars, tipVars, updVars
    <2> QED
      BY <2>1, <2>2, KeptCarries, Zenon
  <1> QED
    BY <1>1, <1>2, <1>3, <1>4, <1>5 DEF Call

(* An entry that an up to date index takes in has its status. *)
LEMMA NewEntry ==
    ASSUME TxInv, UpToDate, NEW c \in Callers, status'[c] = TxStatus(TxOf[c]),
           UNCHANGED <<blocks, tipVars>>
    PROVE  (Sound(c) /\ Complete(c))'
  <1>1. TypeOK /\ Indexed /\ Last(blocks) = tip /\ TxOf[c] \in Txs
    BY BlocksAssumption, Zenon DEF TxInv, UpToDate
  <1>2. \A x : x \in Range(blocks) <=> On(x, tip)
    BY <1>1, IndexFacts, Zenon
  <1>3. /\ status'[c] \in Blocks => On(status'[c], tip) /\ TxOf[c] \in TxsOf[status'[c]]
        /\ \A x : On(x, tip) /\ TxOf[c] \in TxsOf[x] => status'[c] = x
    BY <1>1, TxStatusIs
  <1> QED
    BY <1>2, <1>3 DEF Sound, Complete, tipVars

LEMMA CallStep ==
    ASSUME TxInv, NEW d \in Callers, Call(d)
    PROVE  TxInv'
  <1>1. (\A c \in Callers : Carried(c)) /\ TypeOK' /\ UNCHANGED <<chainVars, blocks, updVars>>
    BY CallCarries, Zenon DEF TxInv
  <1>2. Indexed' /\ Seen' /\ NotBack' /\ Descending'
    BY <1>1, Zenon DEF TxInv, Indexed, Seen, WasBest, NotBack, Descending, chainVars, tipVars, updVars
  <1>3. Fetching' /\ Applying' /\ SnapshotOut' /\ MempoolOut'
    BY <1>1, Zenon DEF TxInv, Fetching, Applying, SnapshotOut, MempoolOut, chainVars, tipVars, updVars
  <1>4. ASSUME NEW c \in Callers, Entry(c)' PROVE (Sound(c) /\ Complete(c))'
    <2>1. CASE Entry(c) /\ status'[c] = status[c]
      <3>1. Sound(c) /\ Complete(c)
        BY <2>1, Zenon DEF TxInv, Statused
      <3> QED
        BY <1>1, <2>1, <3>1, Zenon DEF Sound, Complete, chainVars, tipVars
    <2>2. CASE UpToDate /\ status'[c] = TxStatus(TxOf[c])
      BY <1>1, <2>2, NewEntry DEF chainVars
    <2> QED
      BY <1>1, <1>4, <2>1, <2>2, Zenon DEF Carried
  <1>5. Statused'
    BY <1>4 DEF Statused
  <1> QED
    BY <1>1, <1>2, <1>3, <1>5 DEF TxInv

-----------------------------------------------------------------------------
(* The update task *)

LEMMA UpdateStartStep ==
    ASSUME TxInv, UpdateStart
    PROVE  TxInv'
  <1>1. /\ TypeOK /\ Indexed /\ tip \in Blocks /\ Height(tip) \in Nat /\ Height(tip) >= 1
        /\ new_blocks' = <<>> /\ Len(new_blocks') = 0
        /\ UNCHANGED <<chainVars, blocks, db, status, callVars, tracked, snapshot, queue>>
        /\ upd' \in {"poll", "fetch"} /\ height' \in Nat
        /\ upd' = "fetch" => height' = Height(tip)
    BY HeightNat, Zenon DEF UpdateStart, TxInv, TypeOK, Height
  <1>2. tx_map' \in [Txs -> Callers \cup {NULL}] /\ \A t \in Txs : Slot(t)' = Slot(t)
    BY SlotIs, Zenon DEF UpdateStart, TxInv, TypeOK, Slot, Live, callVars
  <1>3. TypeOK'
    <2>1. new_blocks' \in Seq(Blocks)
      BY <1>1
    <2> QED
      BY <1>1, <1>2, <2>1 DEF TypeOK, chainVars, tipVars, callVars
  <1>4. Indexed' /\ NotBack' /\ MempoolOut'
    BY <1>1, Zenon DEF TxInv, Indexed, NotBack, MempoolOut, chainVars, tipVars
  <1>5. Seen' /\ Descending'
    BY <1>1 DEF TxInv, Seen, WasBest, Descending, chainVars, tipVars
  <1>6. Fetching'
    <2>1. Len(blocks) \in Nat /\ Len(blocks) <= Height(tip)
      <3>1. /\ Last(blocks) \in Blocks /\ Len(blocks) = Height(Last(blocks))
            /\ Len(blocks) \in Nat /\ Last(blocks) \in Range(blocks)
        BY <1>1, IndexFacts, OnChain
      <3> QED
        BY <3>1, Zenon DEF TxInv, Seen, WasBest
    <2>2. ~(Height(tip) < Len(blocks))
      BY <1>1, <2>1
    <2> QED
      BY <1>1, <2>2 DEF Fetching
  <1>7. Applying' /\ SnapshotOut'
    BY <1>1, Zenon DEF Applying, SnapshotOut
  <1>8. Statused'
    <2>1. \A c \in Callers : Entry(c)' <=> Entry(c)
      BY <1>1, <1>2, BlocksAssumption DEF Entry
    <2> QED
      BY <1>1, <2>1, Zenon DEF TxInv, Statused, Sound, Complete, chainVars, tipVars
  <1> QED
    BY <1>3, <1>4, <1>5, <1>6, <1>7, <1>8, Zenon DEF TxInv

LEMMA FetchBlockStep ==
    ASSUME TxInv, FetchBlock
    PROVE  TxInv'
  <1>1. /\ TypeOK /\ Indexed /\ tip \in Blocks /\ Height(tip) \in Nat
        /\ upd = "fetch" /\ height \in Nat /\ height >= 1 /\ new_blocks \in Seq(Blocks)
        /\ UNCHANGED <<chainVars, blocks, db, tx_map, status, callVars, tracked, snapshot, queue>>
    BY HeightNat, Zenon DEF FetchBlock, TxInv, TypeOK, Fetching
  <1>2. Indexed' /\ NotBack' /\ MempoolOut' /\ Statused' /\ \A x : WasBest(x) => WasBest(x)'
    BY <1>1 DEF TxInv, Indexed, NotBack, MempoolOut, Statused, Entry, Sound, Complete, Slot, Live,
                WasBest, chainVars, tipVars, callVars
  <1>3. CASE height > Height(tip)
    <2>1. upd' = "poll" /\ new_blocks' = <<>> /\ height' = 0 /\ Len(new_blocks') = 0
      BY <1>1, <1>3, Zenon DEF FetchBlock, Height
    <2>2. TypeOK'
      <3>1. new_blocks' \in Seq(Blocks)
        BY <2>1
      <3> QED
        BY <1>1, <2>1, <3>1 DEF TypeOK, chainVars, tipVars, callVars
    <2>3. Seen' /\ Descending' /\ Fetching' /\ Applying' /\ SnapshotOut'
      BY <1>1, <1>2, <2>1, SMTT(60) DEF TxInv, Seen, Descending, Fetching, Applying, SnapshotOut
    <2> QED
      BY <1>2, <2>2, <2>3, Zenon DEF TxInv
  <1>4. CASE ~(height > Height(tip))
    <2> DEFINE b == Path[tip][height]
               n == Len(new_blocks)
    <2>1. /\ b \in Blocks /\ Height(b) = height /\ On(b, tip) /\ n \in Nat
          /\ new_blocks' = Append(new_blocks, b)
          /\ IF WouldAccept(b) \/ height = 1
               THEN upd' = "apply" /\ height' = 0
               ELSE upd' = "fetch" /\ height' = height - 1
      <3>1. height \in 1 .. Height(tip)
        BY <1>1, <1>4
      <3>2. b \in Blocks /\ Height(b) = height
        BY <1>1, <3>1, PathPrefix, Zenon DEF Fits
      <3> QED
        BY <1>1, <1>4, <3>1, <3>2, SMTT(60) DEF FetchBlock, Height, On
    <2> HIDE DEF b
    <2>2. /\ new_blocks' \in Seq(Blocks) /\ Len(new_blocks') = n + 1
          /\ new_blocks'[n + 1] = b /\ \A i \in 1 .. n : new_blocks'[i] = new_blocks[i]
      BY <1>1, <2>1
    <2> HIDE DEF n
    <2>3. \A i \in 1 .. n + 1 : i = n + 1 \/ i \in 1 .. n
      BY <2>1
    <2>4. TypeOK'
      BY <1>1, <2>1, <2>2, SMTT(60) DEF TypeOK, chainVars, tipVars, callVars
    <2>5. Seen'
      <3>1. WasBest(b)
        BY <2>1 DEF WasBest, On
      <3>2. \A i \in 1 .. n + 1 : WasBest(new_blocks'[i])
        BY <2>2, <2>3, <3>1 DEF TxInv, Seen, n
      <3> QED
        BY <1>1, <2>2, <3>2, Zenon DEF TxInv, Seen, WasBest, chainVars, tipVars
    <2>6. Descending'
      <3>1. \A i \in 1 .. n : Height(new_blocks[i]) > height
        BY <1>1 DEF TxInv, Fetching, n
      <3>2. \A i, j \in 1 .. n : i < j => Height(new_blocks[i]) > Height(new_blocks[j])
        BY Zenon DEF TxInv, Descending, n
      <3>3. ASSUME NEW i \in 1 .. n + 1, NEW j \in 1 .. n + 1, i < j
            PROVE  Height(new_blocks'[i]) > Height(new_blocks'[j])
        <4>1. i \in 1 .. n
          BY <2>1, <3>3
        <4> QED
          BY <2>1, <2>2, <2>3, <3>1, <3>2, <3>3, <4>1
      <3> QED
        BY <2>2, <3>3 DEF Descending
    <2>7. Last(new_blocks') = b
      BY <2>2 DEF Last
    <2>8. CASE WouldAccept(b) \/ height = 1
      <3>1. upd' = "apply"
        BY <2>1, <2>8
      <3>2. ASSUME ~returned, height < Len(blocks) PROVE blocks[height] # b
        <4>1. blocks[height] \in left
          BY <1>1, <3>2, Zenon DEF TxInv, Fetching
        <4> QED
          BY <2>1, <3>2, <4>1 DEF TxInv, NotBack
      <3>3. Applying'
        <4>1. Len(new_blocks') > 0
          BY <2>1, <2>2
        <4> QED
          BY <1>1, <2>1, <2>7, <3>2, <4>1, Zenon DEF Applying, chainVars, tipVars
      <3>4. Fetching' /\ SnapshotOut'
        BY <3>1 DEF Fetching, SnapshotOut
      <3> QED
        BY <1>2, <2>4, <2>5, <2>6, <3>3, <3>4 DEF TxInv
    <2>9. CASE ~(WouldAccept(b) \/ height = 1)
      <3>1. upd' = "fetch" /\ height' = height - 1 /\ height' >= 1
        BY <1>1, <2>1, <2>9
      <3>2. \A i \in 1 .. n + 1 : Height(new_blocks'[i]) > height - 1
        <4>1. \A i \in 1 .. n : Height(new_blocks[i]) > height /\ Height(new_blocks[i]) \in Nat
          BY <1>1, IndexFacts, HeightNat, Zenon DEF TxInv, Fetching, n
        <4> QED
          BY <1>1, <2>1, <2>2, <2>3, <4>1, SMTT(60)
      <3>3. ASSUME height - 1 < Len(blocks) PROVE blocks[height - 1] \in left
        <4> DEFINE x == blocks[height - 1]
        <4>1. Len(blocks) \in Nat /\ height - 1 \in 1 .. Len(blocks)
          BY <1>1, <3>1, <3>3, IndexFacts
        <4>2. x \in Range(blocks) /\ Height(x) = height - 1
          BY <1>1, <4>1, IndexFacts, Zenon
        <4>3. x # Parent[b]
          BY <1>1, <2>1, <2>9, <3>1, <4>1 DEF WouldAccept, Height
        <4>4. b # Base /\ Parent[b] \in Blocks /\ Height(Parent[b]) = height - 1 /\ On(Parent[b], tip)
          <5>1. b # Base
            BY <1>1, <2>1, <2>9, BaseHeight, Zenon
          <5>2. Parent[b] \in Blocks /\ height = Height(Parent[b]) + 1 /\ Height(Parent[b]) \in Nat
            BY <2>1, <5>1, ParentHeight, HeightNat, Zenon
          <5>3. Height(Parent[b]) >= 1 /\ Path[Parent[b]][Height(Parent[b])] = Parent[b]
            BY <5>2, HeightNat, Zenon
          <5>4. Height(Parent[b]) \in 1 .. Height(Parent[b]) /\ Height(Parent[b]) <= height
            BY <1>1, <5>2, <5>3
          <5>5. On(Parent[b], b)
            BY <2>1, <5>1, <5>2, <5>3, <5>4, ParentHeight, Zenon DEF On
          <5> QED
            BY <1>1, <2>1, <5>1, <5>2, <5>5, OnChain, SMTT(60)
        <4>5. ~On(x, tip)
          BY <1>1, <4>2, <4>3, <4>4, OnChain, Zenon
        <4> QED
          BY <4>2, <4>5, Zenon DEF TxInv, Seen, WasBest
      <3>4. Fetching'
        BY <1>1, <2>2, <3>1, <3>2, <3>3, Zenon DEF Fetching, chainVars, tipVars
      <3>5. Applying' /\ SnapshotOut'
        BY <3>1 DEF Applying, SnapshotOut
      <3> QED
        BY <1>2, <2>4, <2>5, <2>6, <3>4, <3>5 DEF TxInv
    <2> QED
      BY <2>8, <2>9, Zenon
  <1> QED
    BY <1>3, <1>4, Zenon

LEMMA ProcessBlockStep ==
    ASSUME TxInv, ProcessBlock
    PROVE  TxInv'
  <1> DEFINE l == Last(blocks)
             n == Len(new_blocks)
             b == new_blocks[n]
  <1>1. /\ TypeOK /\ Indexed /\ upd = "apply" /\ n \in Nat /\ n > 0 /\ b \in Blocks
        /\ new_blocks \in Seq(Blocks) /\ Last(new_blocks) = b
        /\ UNCHANGED <<chainVars, db, tx_map, callVars, tracked, height, snapshot, queue>>
    <2>1. TypeOK /\ Indexed /\ upd = "apply" /\ n > 0 /\ new_blocks \in Seq(Blocks)
      BY DEF TxInv, ProcessBlock, Applying, TypeOK
    <2>2. n \in Nat /\ b \in Blocks
      BY <2>1
    <2> QED
      BY <2>1, <2>2, Zenon DEF ProcessBlock, Last
  <1>2. /\ l \in Blocks /\ blocks = Path[l] /\ Len(blocks) = Height(l) /\ Height(l) \in Nat
        /\ \A x : x \in Range(blocks) <=> On(x, l)
    BY <1>1, IndexFacts
  <1>3. NotBack' /\ MempoolOut' /\ (\A x : WasBest(x) => WasBest(x)') /\ (\A c : Entry(c)' <=> Entry(c))
    BY <1>1, Zenon DEF TxInv, NotBack, MempoolOut, WasBest, Entry, Slot, Live, chainVars, tipVars, callVars
  <1> HIDE DEF l, b, n
  <1>4. CASE ~CanInsert(b)
    <2>1. upd' = "poll" /\ new_blocks' = <<>> /\ UNCHANGED <<blocks, status>> /\ Len(new_blocks') = 0
      BY <1>1, <1>4 DEF ProcessBlock
    <2>2. TypeOK'
      <3>1. new_blocks' \in Seq(Blocks)
        BY <2>1
      <3> QED
        BY <1>1, <2>1, <3>1 DEF TypeOK, chainVars, tipVars, callVars
    <2>3. Indexed' /\ Seen' /\ Descending' /\ Fetching' /\ Applying' /\ SnapshotOut'
      BY <1>1, <1>3, <2>1, SMTT(60) DEF TxInv, Indexed, Seen, Descending, Fetching, Applying, SnapshotOut
    <2>4. Statused'
      BY <1>1, <1>3, <2>1, Zenon DEF TxInv, Statused, Sound, Complete, chainVars, tipVars
    <2> QED
      BY <1>3, <2>2, <2>3, <2>4, Zenon DEF TxInv
  <1>5. CASE CanInsert(b)
    <2> DEFINE h == Height(b)
    <2>1. /\ blocks' = TryInsert(b)
          /\ UpdateStatus([o \in Callers |-> BlockStatus(b, TxOf[o], o)])
          /\ new_blocks' = Front(new_blocks)
          /\ upd' = IF new_blocks' = <<>> THEN "poll" ELSE "apply"
      BY <1>1, <1>5, Zenon DEF ProcessBlock
    <2>2. h \in Nat
      BY <1>1, HeightNat, Zenon
    (* m is the new last block *)
    <2>3. PICK m \in Blocks :
              /\ blocks' = Path[m] /\ On(b, m)
              /\ \A x : On(x, m) => x = b \/ On(x, l)
              /\ \A x : On(x, l) /\ Height(x) < h => On(x, m)
              /\ \/ m = b
                 \/ blocks' = blocks /\ m = l
      <3>1. CASE /\ TryInsert(b) = Path[b]
                 /\ \A x : On(x, b) <=> (x = b \/ (On(x, l) /\ Height(x) < Height(b)))
        BY <1>1, <2>1, <3>1, OnChain, Zenon
      <3>2. CASE TryInsert(b) = blocks /\ On(b, l)
        BY <1>2, <2>1, <3>2, Zenon
      <3> QED
        BY <1>1, <1>2, <1>5, <3>1, <3>2, Inserted, Zenon
    <2>4. /\ Height(m) \in Nat /\ Path[m] \in Seq(Blocks) /\ Path[m] # <<>> /\ Last(Path[m]) = m
          /\ \A x : x \in Range(blocks') <=> On(x, m)
      <3>1. Path[m] \in Seq(Blocks) /\ Height(m) >= 1 /\ Path[m][Height(m)] = m /\ Height(m) \in Nat
        BY HeightNat
      <3>2. Path[m] # <<>>
        BY <3>1 DEF Height
      <3> QED
        BY <2>3, <3>1, <3>2, OnPath, Zenon DEF Last, Height
    <2>5. /\ new_blocks' \in Seq(Blocks) /\ Len(new_blocks') = n - 1
          /\ \A i \in 1 .. n - 1 : new_blocks'[i] = new_blocks[i] /\ i \in 1 .. n
      <3> DEFINE k == n - 1
      <3>1. k \in Nat /\ 1 .. k \subseteq 1 .. n
        BY <1>1
      <3>2. new_blocks' = SubSeq(new_blocks, 1, k)
        BY <2>1 DEF Front, n
      <3> HIDE DEF k
      <3>3. k \in 0 .. Len(new_blocks) /\ 1 \in 1 .. Len(new_blocks) + 1
        BY <1>1, <3>1 DEF k, n
      <3>4. /\ SubSeq(new_blocks, 1, k) \in Seq(Blocks) /\ Len(SubSeq(new_blocks, 1, k)) = k
            /\ \A i \in 1 .. k : SubSeq(new_blocks, 1, k)[i] = new_blocks[i]
        BY <1>1, <3>1, <3>3
      <3> QED
        BY <3>1, <3>2, <3>4, Zenon DEF k
    <2>6. \A c \in Callers : BlockStatus(b, TxOf[c], c) \in Statuses
      BY <1>1, Zenon DEF BlockStatus, TypeOK, Statuses
    <2>7. /\ status' \in [Callers -> Statuses]
          /\ \A c \in Callers : Entry(c) => status'[c] = BlockStatus(b, TxOf[c], c)
      BY <1>1, <2>1, <2>6 DEF UpdateStatus, TypeOK, Entry
    <2>8. TypeOK'
      <3>1. upd' \in {"poll", "apply"}
        BY <2>1, Zenon
      <3> QED
        BY <1>1, <2>3, <2>4, <2>5, <2>7, <3>1, Zenon DEF TypeOK, chainVars, tipVars, callVars
    <2>9. Indexed'
      BY <2>3, <2>4, Zenon DEF Indexed
    <2>10. Seen'
      <3>1. WasBest(b)
        BY <1>1, SMTT(60) DEF TxInv, Seen, b, n
      <3>2. \A x : On(x, l) => WasBest(x)
        BY <1>2, Zenon DEF TxInv, Seen
      <3>3. \A x \in Range(blocks') : WasBest(x)
        BY <2>3, <2>4, <3>1, <3>2
      <3>4. \A i \in 1 .. n : WasBest(new_blocks[i])
        BY Zenon DEF TxInv, Seen, n
      <3>5. \A i \in 1 .. n - 1 : WasBest(new_blocks'[i])
        BY <2>5, <3>4, Zenon
      <3> QED
        BY <1>1, <2>5, <3>3, <3>5, Zenon DEF Seen, WasBest, chainVars, tipVars
    <2>11. Descending'
      <3>1. \A i, j \in 1 .. n : i < j => Height(new_blocks[i]) > Height(new_blocks[j])
        BY Zenon DEF TxInv, Descending, n
      <3>2. \A i, j \in 1 .. n - 1 : i < j => Height(new_blocks'[i]) > Height(new_blocks'[j])
        BY <2>5, <3>1, Zenon
      <3> QED
        BY <2>5, <3>2 DEF Descending
    (* b is the highest block of the index then *)
    <2>12. ASSUME ~returned, On(b, l), blocks' = blocks, m = l PROVE l = b
      <3>1. ~(h < Len(blocks))
        <4>1. blocks[h] = b
          BY <1>2, <2>12, Zenon DEF On
        <4> QED
          BY <1>1, <2>12, <4>1, Zenon DEF TxInv, Applying
      <3>2. h = Height(l)
        BY <1>2, <2>2, <2>12, <3>1 DEF On
      <3> QED
        BY <1>2, <2>12, <3>2, OnChain, Zenon
    <2>13. ~returned => m = b
      BY <2>3, <2>12, Zenon
    <2>14. Applying'
      <3> SUFFICES ASSUME upd' = "apply"
                   PROVE  /\ Len(new_blocks') > 0
                          /\ ~returned' => ~(Height(Last(new_blocks')) < Len(blocks'))
        BY Zenon DEF Applying
      <3>1. n - 1 > 0 /\ n - 1 \in Nat
        <4>1. new_blocks' # <<>>
          BY <2>1, Zenon
        <4> QED
          BY <1>1, <2>5, <4>1
      <3>2. Last(new_blocks') = new_blocks[n - 1] /\ new_blocks[n - 1] \in Blocks
        BY <1>1, <2>5, <3>1 DEF Last, n
      <3>3. Height(new_blocks[n - 1]) > h
        <4>1. n - 1 \in 1 .. n /\ n \in 1 .. n /\ n - 1 < n
          BY <1>1, <3>1
        <4> QED
          BY <4>1, Zenon DEF TxInv, Descending, n, b
      <3>4. ~returned => Len(blocks') = h
        BY <2>3, <2>13, Zenon DEF Height
      <3>5. Height(new_blocks[n - 1]) \in Nat
        BY <3>2, HeightNat
      <3>6. returned' = returned
        BY <1>1, Zenon DEF chainVars, tipVars
      <3> QED
        BY <2>2, <2>5, <3>1, <3>2, <3>3, <3>4, <3>5, <3>6
    <2>15. Fetching' /\ SnapshotOut'
      <3>1. upd' \in {"poll", "apply"}
        BY <2>1
      <3> QED
        BY <3>1, Zenon DEF Fetching, SnapshotOut
    <2>16. ASSUME NEW c \in Callers, Entry(c)' PROVE (Sound(c) /\ Complete(c))'
      <3> DEFINE t == TxOf[c]
                 st == status[c]
      <3>1. /\ Entry(c) /\ Sound(c) /\ Complete(c) /\ status'[c] = BlockStatus(b, t, c)
            /\ st \in Statuses
        BY <1>1, <1>3, <2>7, <2>16 DEF TxInv, Statused, TypeOK
      <3>2. CASE t \in TxsOf[b]
        <4>1. status'[c] = b
          BY <3>1, <3>2 DEF BlockStatus
        <4>2. \A x : On(x, m) /\ t \in TxsOf[x] => x = b
          <5>1. \A x : On(x, m) => x \in Range(Path[m])
            BY OnPath, Zenon
          <5> QED
            BY <2>3, <3>2, <5>1, TxsAssumption, Zenon
        <4> QED
          BY <2>3, <2>4, <3>2, <4>1, <4>2, Zenon DEF Sound, Complete
      <3>3. CASE t \notin TxsOf[b] /\ st \in Blocks /\ Height(st) >= h
        <4>1. status'[c] = "mempool" /\ "mempool" \notin Blocks
          BY <3>1, <3>3, BlocksAssumption DEF BlockStatus, Height
        <4>2. ASSUME ~returned, NEW x, On(x, m), t \in TxsOf[x] PROVE x \in left
          <5>1. x # b /\ On(x, l) /\ On(x, b)
            BY <2>3, <2>13, <3>3, <4>2, Zenon
          <5>2. x = st \/ x \in left
            BY <1>2, <3>1, <4>2, <5>1, Zenon DEF Complete
          <5>3. x # st
            <6>1. Height(x) \in Nat /\ Height(x) <= h
              BY <5>1, HeightNat, Zenon DEF On
            <6>2. Height(x) # h
              BY <1>1, <5>1, OnChain, Zenon
            <6> QED
              BY <2>2, <3>3, <6>1, <6>2, SMTT(60)
          <5> QED
            BY <5>2, <5>3, Zenon
        <4> QED
          BY <1>1, <2>4, <4>1, <4>2, SMTT(60) DEF Sound, Complete, chainVars, tipVars
      <3>4. CASE t \notin TxsOf[b] /\ ~(st \in Blocks /\ Height(st) >= h)
        <4>1. status'[c] = st
          BY <3>1, <3>4 DEF BlockStatus, Height
        <4>2. st \in Blocks => On(st, m) /\ t \in TxsOf[st]
          <5>1. st \in Blocks => Height(st) < h
            BY <2>2, <3>4, HeightNat, SMTT(60)
          <5> QED
            BY <1>2, <2>3, <3>1, <5>1, Zenon DEF Sound
        <4>3. ASSUME ~returned, NEW x, On(x, m), t \in TxsOf[x] PROVE x = st \/ x \in left
          <5>1. On(x, l)
            BY <2>3, <3>4, <4>3
          <5> QED
            BY <1>2, <3>1, <4>3, <5>1, Zenon DEF Complete
        <4> QED
          BY <1>1, <2>4, <4>1, <4>2, <4>3, SMTT(60) DEF Sound, Complete, chainVars, tipVars
      <3> QED
        BY <3>2, <3>3, <3>4, Zenon
    <2>17. Statused'
      BY <2>16, Zenon DEF Statused
    <2> QED
      BY <1>3, <2>8, <2>9, <2>10, <2>11, <2>14, <2>15, <2>17, Zenon DEF TxInv
  <1> QED
    BY <1>4, <1>5, Zenon

LEMMA PollMempoolStep ==
    ASSUME TxInv, PollMempool
    PROVE  TxInv'
  <1>1. /\ TypeOK /\ Indexed /\ upd' = "mempool" /\ snapshot' = mempool
        /\ UNCHANGED <<chainVars, blocks, db, tx_map, status, callVars, tracked, height, new_blocks, queue>>
    BY Zenon DEF PollMempool, TxInv
  <1>2. TypeOK'
    BY <1>1, Zenon DEF TypeOK, chainVars, tipVars, callVars
  <1>3. Indexed' /\ Seen' /\ NotBack' /\ Descending' /\ MempoolOut'
    BY <1>1, Zenon DEF TxInv, Indexed, Seen, WasBest, NotBack, Descending, MempoolOut, chainVars, tipVars
  <1>4. Fetching' /\ Applying'
    BY <1>1, Zenon DEF Fetching, Applying
  <1>5. SnapshotOut'
    BY <1>1, Zenon DEF TxInv, SnapshotOut, MempoolOut, Seen, WasBest, chainVars, tipVars
  <1>6. Statused'
    BY <1>1, Zenon DEF TxInv, Statused, Entry, Sound, Complete, Slot, Live, callVars, chainVars, tipVars
  <1> QED
    BY <1>2, <1>3, <1>4, <1>5, <1>6, Zenon DEF TxInv

LEMMA ProcessMempoolStep ==
    ASSUME TxInv, ProcessMempool
    PROVE  TxInv'
  <1>1. /\ TypeOK /\ Indexed /\ upd = "mempool" /\ upd' = "idle" /\ snapshot' = {}
        /\ UpdateStatus([o \in Callers |-> MempoolStatus(TxOf[o], o)])
        /\ UNCHANGED <<chainVars, blocks, db, tx_map, callVars, tracked, height, new_blocks, queue>>
    BY DEF ProcessMempool, TxInv
  <1>2. \A c \in Callers : MempoolStatus(TxOf[c], c) \in Statuses
    BY <1>1, Zenon DEF MempoolStatus, TypeOK, Statuses
  <1>3. /\ status' \in [Callers -> Statuses]
        /\ \A c \in Callers : Entry(c) => status'[c] = MempoolStatus(TxOf[c], c)
    BY <1>1, <1>2, Zenon DEF UpdateStatus, TypeOK, Entry
  <1>4. TypeOK'
    BY <1>1, <1>3 DEF TypeOK, chainVars, tipVars, callVars
  <1>5. Indexed' /\ Seen' /\ NotBack' /\ Descending' /\ MempoolOut'
    BY <1>1, Zenon DEF TxInv, Indexed, Seen, WasBest, NotBack, Descending, MempoolOut, chainVars, tipVars
  <1>6. Fetching' /\ Applying' /\ SnapshotOut'
    BY <1>1, Zenon DEF Fetching, Applying, SnapshotOut
  <1>7. ASSUME NEW c \in Callers, Entry(c)' PROVE (Sound(c) /\ Complete(c))'
    <2> DEFINE t == TxOf[c]
    <2>1. Entry(c) /\ Sound(c) /\ Complete(c) /\ status'[c] = MempoolStatus(t, c)
      BY <1>1, <1>3, <1>7, Zenon DEF TxInv, Statused, Entry, Slot, Live, callVars
    <2>2. {"mempool", "unseen"} \cap Blocks = {}
      BY BlocksAssumption
    <2>3. CASE t \in snapshot
      <3>1. status'[c] = "mempool"
        BY <2>1, <2>3 DEF MempoolStatus
      <3>2. \A x \in Range(blocks) : t \in TxsOf[x] => x \in left
        BY <1>1, <2>3, Zenon DEF TxInv, SnapshotOut
      <3> QED
        BY <1>1, <2>2, <3>1, <3>2, Zenon DEF Sound, Complete, chainVars, tipVars
    <2>4. CASE t \notin snapshot /\ status[c] = "mempool"
      <3>1. status'[c] = "unseen"
        BY <2>1, <2>4 DEF MempoolStatus
      <3>2. \A x \in Range(blocks) : x # "mempool"
        BY <1>1, <2>2, IndexFacts, Zenon DEF On
      <3> QED
        BY <1>1, <2>1, <2>2, <2>4, <3>1, <3>2, Zenon DEF Sound, Complete, chainVars, tipVars
    <2>5. CASE t \notin snapshot /\ status[c] # "mempool"
      <3>1. status'[c] = status[c]
        BY <2>1, <2>5 DEF MempoolStatus
      <3> QED
        BY <1>1, <2>1, <3>1, Zenon DEF Sound, Complete, chainVars, tipVars
    <2> QED
      BY <2>3, <2>4, <2>5
  <1>8. Statused'
    BY <1>7, Zenon DEF Statused
  <1> QED
    BY <1>4, <1>5, <1>6, <1>8, Zenon DEF TxInv

-----------------------------------------------------------------------------

LEMMA TxStep == TxInv /\ [Next]_vars => TxInv'
  <1> SUFFICES ASSUME TxInv, [Next]_vars PROVE TxInv'
    OBVIOUS
  <1>1. CASE \E b \in Blocks : NewTip(b)
    BY <1>1, NewTipStep, Zenon
  <1>2. CASE \E t \in Txs : MempoolChanges(t) \/ Broadcast(t) \/ BroadcastFails(t)
    <2>1. /\ mempool' \subseteq Txs /\ \A t \in mempool' : t \in mempool \/ t \notin Confirmed(tip)
          /\ queue' \subseteq Txs
          /\ UNCHANGED <<tipVars, blocks, db, tx_map, status, callVars, tracked, updVars>>
      BY <1>2 DEF MempoolChanges, Broadcast, BroadcastFails, TxInv, TypeOK, chainVars
    <2> QED
      BY <2>1, MempoolStep, Zenon
  <1>3. CASE Update
    BY <1>3, UpdateStartStep, FetchBlockStep, ProcessBlockStep, PollMempoolStep, ProcessMempoolStep, Zenon
       DEF Update
  <1>4. CASE \E c \in Callers : Call(c)
    BY <1>4, CallStep
  <1>5. CASE UNCHANGED vars
    <2>1. /\ mempool' = mempool /\ queue' = queue
          /\ UNCHANGED <<tipVars, blocks, db, tx_map, status, callVars, tracked, updVars>>
      BY <1>5, Zenon DEF vars, chainVars
    <2>2. mempool' \subseteq Txs /\ queue' \subseteq Txs
      BY <2>1 DEF TxInv, TypeOK
    <2> QED
      BY <2>1, <2>2, MempoolStep, Zenon
  <1> QED
    BY <1>1, <1>2, <1>3, <1>4, <1>5 DEF Next

(* For any tree of blocks and any answers of bitcoind, the block index is   *)
(* one chain from its first block on (BlockIndex::try_insert).              *)
THEOREM IndexLinkedAlways == Spec => []IndexLinked
  <1>1. TxInv => IndexLinked
    <2> SUFFICES ASSUME TxInv PROVE IndexLinked
      BY Zenon
    <2>1. PICK l \in Blocks : blocks = Path[l] /\ Len(blocks) = Height(l)
      BY IndexFacts, Zenon DEF TxInv
    <2>2. ASSUME NEW i \in 1 .. Height(l)
          PROVE  IF i = 1 THEN Path[l][i] = Base
                 ELSE Path[l][i] # Base /\ Parent[Path[l][i]] = Path[l][i - 1]
      <3> DEFINE x == Path[l][i]
      <3>1. x \in Blocks /\ Height(x) = i /\ \A j \in 1 .. i : Path[x][j] = Path[l][j]
        BY PathPrefix, Zenon DEF Fits
      <3> HIDE DEF x
      <3>2. CASE i = 1
        BY <3>1, <3>2, HeightNat DEF x
      <3>3. CASE i # 1
        <4>1. x # Base
          BY <3>1, <3>3, BaseHeight, Zenon
        <4>2. /\ Parent[x] \in Blocks /\ i = Height(Parent[x]) + 1 /\ Height(Parent[x]) \in Nat
              /\ \A j \in 1 .. Height(Parent[x]) : Path[x][j] = Path[Parent[x]][j]
          BY <3>1, <4>1, ParentHeight, HeightNat, Zenon
        <4>3. Height(Parent[x]) = i - 1 /\ i - 1 \in 1 .. i /\ i - 1 \in 1 .. i - 1
          BY <3>3, <4>2, HeightNat, SMTT(60)
        <4>4. Path[Parent[x]][i - 1] = Parent[x]
          BY <4>2, <4>3, HeightNat, Zenon
        <4> QED
          BY <3>1, <3>3, <4>1, <4>2, <4>3, <4>4, Zenon DEF x
      <3> QED
        BY <3>2, <3>3, Zenon
    <2>3. Height(l) \in Nat /\ 1 \in 1 .. Height(l) /\ 2 .. Height(l) \subseteq 1 .. Height(l)
      BY HeightNat
    <2> QED
      BY <2>1, <2>2, <2>3, SMTT(60) DEF IndexLinked
  <1> QED
    BY <1>1, TxInit, TxStep, PTL DEF Spec

(* For any tree of blocks, any reorganisations and any callers: no status   *)
(* names a block that the index does not have or that lacks the             *)
(* transaction, and an up to date index has the confirmation of every       *)
(* transaction of bitcoind's chain, as long as bitcoind has not returned to *)
(* a branch it left (process_block, process_mempool, register_as).          *)
THEOREM TrackedConfirmedAlways == Spec => []TrackedConfirmed
  <1>1. TxInv => TrackedConfirmed
    <2> SUFFICES ASSUME TxInv, NEW c \in tracked, Slot(TxOf[c]) = c
                 PROVE  /\ Sound(c)
                        /\ UpToDate /\ ~returned /\ TxOf[c] \in Confirmed(tip)
                               => status[c] = TxStatus(TxOf[c])
      BY DEF TrackedConfirmed, Sound
    <2>1. c \in Callers /\ TxOf[c] \in Txs /\ Sound(c) /\ Complete(c)
      BY BlocksAssumption, Zenon DEF TxInv, TypeOK, Statused, Entry
    <2>2. ASSUME UpToDate, ~returned, TxOf[c] \in Confirmed(tip) PROVE status[c] = TxStatus(TxOf[c])
      <3>1. PICK x : On(x, tip) /\ TxOf[c] \in TxsOf[x] /\ TxStatus(TxOf[c]) = x
        BY <2>1, <2>2, TxStatusIs, Zenon DEF TxInv
      <3>2. x \in Range(blocks)
        BY <2>2, <3>1, IndexFacts DEF TxInv, UpToDate
      <3> QED
        BY <2>1, <2>2, <3>1, <3>2, Zenon DEF Complete, TxInv, NotBack
    <2> QED
      BY <2>1, <2>2, Zenon
  <1> QED
    BY <1>1, TxInit, TxStep, PTL DEF Spec
=============================================================================
