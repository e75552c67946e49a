----------------------------- MODULE PoolProofs -----------------------------
(***************************************************************************)
(* Proofs about the server's pool of vtxos: a selection covers what was    *)
(* asked for, no input is used for two sends, and the ephemeral keys of    *)
(* the pool's vtxos are kept.                                              *)
(*                                                                         *)
(* The selection and the sums are folds over finite sets.  What they       *)
(* return is proved by induction on the size of the set, with the least    *)
(* counterexample of WFMin.                                                *)
(***************************************************************************)
EXTENDS VtxoPool, EphemeralKeys, FiniteSetTheorems, WellFoundedInduction, TLAPS

-----------------------------------------------------------------------------
(* Folds over finite sets: ch picks the element of a set that comes last,  *)
(* op adds it to what the others gave.                                     *)

Folded(f, S, base, ch, op) ==
    f = [s \in SUBSET S |-> IF s = {} THEN base ELSE op[<<ch[s], f[s \ {ch[s]}]>>]]

Foldable(S, V, base, ch, op) == \E f \in [SUBSET S -> V] : Folded(f, S, base, ch, op)

LEMMA NatLeast ==
    ASSUME NEW B, B \subseteq Nat, B # {}
    PROVE  \E n \in B : \A m \in Nat : m < n => m \notin B
  <1>1. PICK n \in B : \A y \in B : ~(<<y, n>> \in OpToRel(<, Nat))
    BY WFMin, NatLessThanWellFounded, Zenon
  <1>2. \A m \in Nat : m < n /\ m \in B => <<m, n>> \in OpToRel(<, Nat)
    BY DEF OpToRel
  <1> QED
    BY <1>1, <1>2, Zenon

LEMMA Smaller ==
    ASSUME NEW S, IsFiniteSet(S), NEW s \in SUBSET S, NEW x \in s
    PROVE  /\ Cardinality(s) \in Nat /\ Cardinality(s) # 0 /\ Cardinality(s) <= Cardinality(S)
           /\ s \ {x} \in SUBSET S /\ Cardinality(s \ {x}) = Cardinality(s) - 1
  <1>1. IsFiniteSet(s) /\ Cardinality(s) <= Cardinality(S)
    BY FS_Subset
  <1>2. Cardinality(s) \in Nat
    BY <1>1, FS_CardinalityType
  <1>3. Cardinality(s \ {x}) = Cardinality(s) - 1
    BY <1>1, FS_RemoveElement
  <1>4. Cardinality(s) # 0
    BY <1>1, FS_EmptySet
  <1> QED
    BY <1>1, <1>2, <1>3, <1>4

(* Induction over the subsets of a finite set *)
LEMMA SubsetInductionAll ==
    ASSUME NEW S, IsFiniteSet(S), NEW P,
           \A s \in SUBSET S : (\A x \in s : s \ {x} \in P) => s \in P
    PROVE  \A s \in SUBSET S : s \in P
  <1> DEFINE B == {n \in Nat : \E s \in SUBSET S : Cardinality(s) = n /\ s \notin P}
  <1>1. SUFFICES ASSUME NEW s0 \in SUBSET S, s0 \notin P PROVE FALSE
    OBVIOUS
  <1>2. Cardinality(s0) \in B
    <2>1. IsFiniteSet(s0)
      BY FS_Subset
    <2>2. Cardinality(s0) \in Nat
      BY <2>1, FS_CardinalityType
    <2> QED
      BY <1>1, <2>2
  <1>3. PICK n \in B : \A m \in Nat : m < n => m \notin B
    BY <1>2, NatLeast, Zenon
  <1>4. PICK s \in SUBSET S : Cardinality(s) = n /\ s \notin P
    BY <1>3
  <1>5. PICK x \in s : s \ {x} \notin P
    BY <1>4, Zenon
  <1> DEFINE t == s \ {x}
  <1>6. t \in SUBSET S /\ Cardinality(t) \in Nat /\ Cardinality(t) < n
    <2>1. /\ t \in SUBSET S /\ Cardinality(s) \in Nat /\ Cardinality(s) # 0
          /\ Cardinality(t) = Cardinality(s) - 1
      BY <1>5, Smaller
    <2> HIDE DEF t
    <2> QED
      BY <2>1, <1>4
  <1> QED
    BY <1>3, <1>5, <1>6

LEMMA SubsetInduction ==
    ASSUME NEW S, IsFiniteSet(S), NEW P, {} \in P,
           \A s \in SUBSET S : s # {} => \E x \in s : s \ {x} \in P => s \in P
    PROVE  \A s \in SUBSET S : s \in P
  <1>1. \A s \in SUBSET S : (\A x \in s : s \ {x} \in P) => s \in P
    BY Zenon
  <1> QED
    BY <1>1, SubsetInductionAll, Zenon

LEMMA ImageFinite == ASSUME NEW S, IsFiniteSet(S), NEW f PROVE IsFiniteSet({f[x] : x \in S})
  <1> DEFINE T == {f[x] : x \in S}
             g == [x \in S |-> f[x]]
  <1>1. g \in Surjection(S, T)
    BY DEF Surjection
  <1> QED
    BY <1>1, FS_Surjection

(* A finite set of numbers has a largest one. *)
LEMMA MaxIn ==
    ASSUME NEW S, IsFiniteSet(S), S \subseteq Nat, S # {}
    PROVE  Max(S) \in S /\ \A y \in S : Max(S) >= y
  <1> DEFINE Tops(s) == \E m \in s : \A y \in s : m >= y
             P == {s \in SUBSET S : s # {} => Tops(s)}
  <1>1. {} \in P
    OBVIOUS
  <1>2. ASSUME NEW s \in SUBSET S, NEW x \in s, s \ {x} \in P PROVE s \in P
    <2>1. CASE s \ {x} = {}
      <3>1. \A y \in s : y = x
        BY <2>1
      <3> QED
        BY <3>1
    <2>2. CASE s \ {x} # {}
      <3>1. PICK m \in s \ {x} : \A y \in s \ {x} : m >= y
        BY <1>2, <2>2
      <3>2. CASE m >= x
        <4>1. \A y \in s : m >= y
          BY <3>1, <3>2
        <4> QED
          BY <3>1, <4>1
      <3>3. CASE ~(m >= x)
        <4>1. \A y \in s : x >= y
          BY <3>1, <3>3
        <4> QED
          BY <4>1
      <3> QED
        BY <3>2, <3>3
    <2> QED
      BY <2>1, <2>2
  <1>3. \A s \in SUBSET S : s # {} => \E x \in s : s \ {x} \in P => s \in P
    BY <1>2, Zenon
  <1> HIDE DEF P
  <1>4. \A s \in SUBSET S : s \in P
    BY <1>1, <1>3, SubsetInduction, Zenon
  <1>5. Tops(S)
    BY <1>4, Zenon DEF P
  <1> QED
    BY <1>5, Zenon DEF Max

(* There is a fold. *)
LEMMA FoldExists ==
    ASSUME NEW S, IsFiniteSet(S), NEW base, NEW ch, NEW op,
           \A s \in SUBSET S : s # {} => ch[s] \in s
    PROVE  \E f : Folded(f, S, base, ch, op)
  <1> DEFINE F(g, s) == IF s = {} THEN base ELSE op[<<ch[s], g[s \ {ch[s]}]>>]
             Upto(g, n) == \A s \in SUBSET S : Cardinality(s) <= n => g[s] = F(g, s)
             B == {n \in Nat : ~\E g : Upto(g, n)}
  <1>0. \A s \in SUBSET S : Cardinality(s) \in Nat /\ Cardinality(s) <= Cardinality(S)
    <2> SUFFICES ASSUME NEW s \in SUBSET S
                 PROVE  Cardinality(s) \in Nat /\ Cardinality(s) <= Cardinality(S)
      OBVIOUS
    <2>1. IsFiniteSet(s) /\ Cardinality(s) <= Cardinality(S)
      BY FS_Subset
    <2> QED
      BY <2>1, FS_CardinalityType
  <1>1. B = {}
    <2> SUFFICES ASSUME B # {} PROVE FALSE
      BY Zenon
    <2>1. PICK n \in B : \A m \in Nat : m < n => m \notin B
      BY NatLeast, Zenon
    <2>2. n # 0
      <3> SUFFICES ASSUME n = 0 PROVE FALSE
        BY Zenon
      <3> DEFINE g == [s \in SUBSET S |-> base]
      <3>1. \A s \in SUBSET S : Cardinality(s) <= 0 => s = {}
        <4> SUFFICES ASSUME NEW s \in SUBSET S, Cardinality(s) <= 0 PROVE s = {}
          BY Zenon
        <4>1. Cardinality(s) = 0
          BY <1>0
        <4> QED
          BY <4>1, FS_Subset, FS_EmptySet, Zenon
      <3>2. Upto(g, 0)
        BY <3>1, Zenon
      <3> QED
        BY <2>1, <3>2, ZenonT(60)
    <2>3. PICK g : Upto(g, n - 1)
      <3>1. n - 1 \in Nat /\ n - 1 < n
        BY <2>2
      <3> QED
        BY <2>1, <3>1, Zenon
    <2> DEFINE h == [s \in SUBSET S |-> F(g, s)]
    <2>4. \A s \in SUBSET S : Cardinality(s) <= n - 1 => h[s] = g[s]
      BY <2>3, Zenon
    <2>5. Upto(h, n)
      <3> SUFFICES ASSUME NEW s \in SUBSET S, Cardinality(s) <= n PROVE h[s] = F(h, s)
        BY Zenon
      <3>1. CASE s = {}
        BY <3>1, Zenon
      <3>2. CASE s # {}
        <4> DEFINE t == s \ {ch[s]}
        <4>1. ch[s] \in s
          BY <3>2, Zenon
        <4>2. t \in SUBSET S /\ Cardinality(t) <= n - 1
          <5>1. /\ Cardinality(s) \in Nat /\ t \in SUBSET S
                /\ Cardinality(t) = Cardinality(s) - 1
            BY <4>1, Smaller, Zenon
          <5>2. n \in Nat
            BY <2>1, Zenon
          <5> HIDE DEF t
          <5> QED
            BY <5>1, <5>2
        <4>3. h[t] = g[t]
          BY <4>2, <2>4, Zenon
        <4>4. h[s] = op[<<ch[s], g[t]>>]
          BY <3>2, Zenon
        <4> QED
          BY <3>2, <4>3, <4>4, Zenon
      <3> QED
        BY <3>1, <3>2, Zenon
    <2> QED
      BY <2>1, <2>5, Zenon
  <1>2. PICK g : Upto(g, Cardinality(S))
    <2>1. Cardinality(S) \in Nat
      BY FS_CardinalityType
    <2> QED
      BY <1>1, <2>1, Zenon
  <1> DEFINE h == [s \in SUBSET S |-> F(g, s)]
  <1>3. \A s \in SUBSET S : h[s] = g[s]
    BY <1>0, <1>2, Zenon
  <1>4. \A s \in SUBSET S : F(g, s) = F(h, s)
    <2> SUFFICES ASSUME NEW s \in SUBSET S, s # {} PROVE g[s \ {ch[s]}] = h[s \ {ch[s]}]
      BY Zenon
    <2> QED
      BY <1>3, Zenon
  <1>5. h = [s \in SUBSET S |-> F(h, s)]
    BY <1>4, Zenon
  <1> QED
    BY <1>5, Zenon DEF Folded

(* A fold whose steps keep a type has that type. *)
LEMMA FoldTyped ==
    ASSUME NEW S, IsFiniteSet(S), NEW V, NEW base \in V, NEW ch, NEW op,
           \A s \in SUBSET S : s # {} => ch[s] \in s,
           \A x \in S : \A v \in V : op[<<x, v>>] \in V
    PROVE  Foldable(S, V, base, ch, op)
  <1>1. PICK f : Folded(f, S, base, ch, op)
    BY FoldExists, Zenon
  <1> DEFINE P == {s \in SUBSET S : f[s] \in V}
  <1>2. {} \in P
    BY <1>1 DEF Folded
  <1>3. ASSUME NEW s \in SUBSET S, s # {}, s \ {ch[s]} \in P
        PROVE  s \in P
    <2>1. f[s \ {ch[s]}] \in V /\ ch[s] \in S
      BY <1>3
    <2>2. f[s] = op[<<ch[s], f[s \ {ch[s]}]>>]
      BY <1>1, <1>3, Zenon DEF Folded
    <2> QED
      BY <2>1, <2>2, Zenon
  <1>4. \A s \in SUBSET S : s \in P
    <2>1. \A s \in SUBSET S : s # {} => \E x \in s : s \ {x} \in P => s \in P
      BY <1>3, Zenon
    <2> HIDE DEF P
    <2> QED
      BY <1>2, <2>1, SubsetInduction
  <1>5. \A s \in SUBSET S : f[s] \in V
    BY <1>4 DEF P
  <1>6. f \in [SUBSET S -> V]
    BY <1>1, <1>5, Zenon DEF Folded
  <1> QED
    BY <1>1, <1>6 DEF Foldable

-----------------------------------------------------------------------------
(* Sums *)

(* An element of a set *)
Some(S) == [s \in SUBSET S |-> CHOOSE x \in s : TRUE]

LEMMA SomeIn == ASSUME NEW S, NEW s \in SUBSET S, s # {} PROVE Some(S)[s] \in s
  BY DEF Some

(* How the sum is computed *)
Sums(f, vs) ==
    f = [s \in SUBSET vs |-> IF s = {} THEN 0
                             ELSE LET x == CHOOSE x \in s : TRUE IN x.amount + f[s \ {x}]]

LEMMA TotalSums ==
    ASSUME NEW vs, IsFiniteSet(vs), vs \subseteq Vtxo
    PROVE  \E f : Sums(f, vs) /\ Total(vs) = f[vs] /\ \A s \in SUBSET vs : f[s] \in Nat
  <1> DEFINE op == [w \in vs \X Nat |-> w[1].amount + w[2]]
             ch == Some(vs)
  <1>1. \A x \in vs : \A n \in Nat : op[<<x, n>>] = x.amount + n /\ op[<<x, n>>] \in Nat
    BY DEF Vtxo
  <1>2. \A s \in SUBSET vs : s # {} => ch[s] \in s
    BY SomeIn
  <1> HIDE DEF op, ch
  <1>3. PICK f \in [SUBSET vs -> Nat] : Folded(f, vs, 0, ch, op)
    <2>1. Foldable(vs, Nat, 0, ch, op)
      BY <1>1, <1>2, FoldTyped, Zenon
    <2> QED
      BY <2>1, Zenon DEF Foldable
  <1>4. Sums(f, vs)
    <2>1. \A s \in SUBSET vs : s # {} => f[s] = ch[s].amount + f[s \ {ch[s]}]
      BY <1>1, <1>2, <1>3, Zenon DEF Folded
    <2>2. \A s \in SUBSET vs : ch[s] = CHOOSE x \in s : TRUE
      BY DEF ch, Some
    <2>3. f[{}] = 0
      BY <1>3, Zenon DEF Folded
    <2>4. f = [s \in SUBSET vs |-> f[s]]
      BY <1>3
    <2> QED
      BY <2>1, <2>2, <2>3, <2>4, Zenon DEF Sums
  <1> DEFINE it == CHOOSE g : Sums(g, vs)
  <1>5. Sums(it, vs)
    BY <1>4, Zenon
  <1>6. Total(vs) = it[vs]
    BY Zenon DEF Total, MapThenSumSet, MapThenFoldSet, Sums
  <1> HIDE DEF it
  <1> DEFINE P == {s \in SUBSET vs : it[s] \in Nat}
  <1>7. {} \in P
    BY <1>5 DEF Sums
  <1>8. ASSUME NEW s \in SUBSET vs, s # {}, s \ {ch[s]} \in P
        PROVE  s \in P
    <2>1. it[s] = ch[s].amount + it[s \ {ch[s]}]
      BY <1>5, <1>8, Zenon DEF Sums, ch, Some
    <2>2. ch[s].amount \in Nat
      BY <1>2, <1>8 DEF Vtxo
    <2> QED
      BY <2>1, <2>2, <1>8
  <1> HIDE DEF P
  <1>9. \A s \in SUBSET vs : s \in P
    <2>1. \A s \in SUBSET vs : s # {} => \E x \in s : s \ {x} \in P => s \in P
      BY <1>2, <1>8, Zenon
    <2> QED
      BY <1>7, <2>1, SubsetInduction
  <1> QED
    BY <1>5, <1>6, <1>9, Zenon DEF P

LEMMA TotalNat == ASSUME NEW vs, IsFiniteSet(vs), vs \subseteq Vtxo PROVE Total(vs) \in Nat
  BY TotalSums

LEMMA TotalEmpty == Total({}) = 0
  <1>1. PICK f : Sums(f, {}) /\ Total({}) = f[{}]
    BY TotalSums, FS_EmptySet
  <1> QED
    BY <1>1 DEF Sums

(* The order in which the elements are added does not matter ... *)
LEMMA SumsRemove ==
    ASSUME NEW vs, IsFiniteSet(vs), vs \subseteq Vtxo, NEW f, Sums(f, vs),
           \A s \in SUBSET vs : f[s] \in Nat
    PROVE  \A s \in SUBSET vs : \A y \in s : f[s] = f[s \ {y}] + y.amount
  <1> DEFINE P == {s \in SUBSET vs : \A y \in s : f[s] = f[s \ {y}] + y.amount}
  <1>1. ASSUME NEW s \in SUBSET vs, \A x \in s : s \ {x} \in P PROVE s \in P
    <2> SUFFICES ASSUME NEW y \in s PROVE f[s] = f[s \ {y}] + y.amount
      OBVIOUS
    <2> DEFINE x == CHOOSE x \in s : TRUE
    <2>1. x \in s
      OBVIOUS
    <2>2. f[s] = x.amount + f[s \ {x}]
      BY Zenon DEF Sums
    <2> HIDE DEF x
    <2>3. x.amount \in Nat /\ y.amount \in Nat
      BY <2>1 DEF Vtxo
    <2>4. CASE x = y
      BY <2>2, <2>3, <2>4
    <2>5. CASE x # y
      <3> DEFINE u == (s \ {x}) \ {y}
      <3>1. f[s \ {x}] = f[u] + y.amount
        BY <1>1, <2>1, <2>5, Zenon
      <3>2. f[s \ {y}] = f[u] + x.amount
        <4>1. (s \ {y}) \ {x} = u
          OBVIOUS
        <4>2. f[s \ {y}] = f[(s \ {y}) \ {x}] + x.amount
          BY <1>1, <2>1, <2>5, Zenon
        <4> QED
          BY <4>1, <4>2, Zenon
      <3>3. f[u] \in Nat
        OBVIOUS
      <3> HIDE DEF u
      <3> QED
        BY <2>2, <2>3, <3>1, <3>2, <3>3
    <2> QED
      BY <2>4, <2>5
  <1>2. \A s \in SUBSET vs : (\A x \in s : s \ {x} \in P) => s \in P
    BY <1>1, Zenon
  <1> HIDE DEF P
  <1>3. \A s \in SUBSET vs : s \in P
    BY <1>2, SubsetInductionAll, Zenon
  <1> QED
    BY <1>3, Zenon DEF P

(* ... nor the set they are taken from. *)
LEMMA SumsSame ==
    ASSUME NEW vs, IsFiniteSet(vs), NEW us \in SUBSET vs,
           NEW f, Sums(f, vs), NEW g, Sums(g, us)
    PROVE  f[us] = g[us]
  <1> DEFINE P == {s \in SUBSET us : f[s] = g[s]}
  <1>1. IsFiniteSet(us)
    BY FS_Subset
  <1>2. {} \in P
    BY Zenon DEF Sums
  <1>3. ASSUME NEW s \in SUBSET us, s # {} PROVE \E x \in s : s \ {x} \in P => s \in P
    <2> DEFINE x == CHOOSE x \in s : TRUE
    <2>1. x \in s
      BY <1>3
    <2>2. f[s] = x.amount + f[s \ {x}] /\ g[s] = x.amount + g[s \ {x}]
      BY <1>3, Zenon DEF Sums
    <2> HIDE DEF x
    <2>3. s \ {x} \in P => s \in P
      BY <2>2, Zenon
    <2> QED
      BY <2>1, <2>3, Zenon
  <1>4. \A s \in SUBSET us : s # {} => \E x \in s : s \ {x} \in P => s \in P
    BY <1>3
  <1> HIDE DEF P
  <1>5. \A s \in SUBSET us : s \in P
    BY <1>1, <1>2, <1>4, SubsetInduction, Zenon
  <1> QED
    BY <1>5, Zenon DEF P

LEMMA TotalRemove ==
    ASSUME NEW vs, IsFiniteSet(vs), vs \subseteq Vtxo, NEW y \in vs
    PROVE  Total(vs) = Total(vs \ {y}) + y.amount
  <1> DEFINE us == vs \ {y}
  <1>1. IsFiniteSet(us) /\ us \subseteq Vtxo /\ us \in SUBSET vs
    BY FS_Subset
  <1>2. PICK f : Sums(f, vs) /\ Total(vs) = f[vs] /\ \A s \in SUBSET vs : f[s] \in Nat
    BY TotalSums, Zenon
  <1> HIDE DEF us
  <1>3. PICK g : Sums(g, us) /\ Total(us) = g[us]
    BY <1>1, TotalSums
  <1>4. f[us] = g[us]
    BY <1>1, <1>2, <1>3, SumsSame
  <1>5. f[vs] = f[us] + y.amount
    BY <1>2, SumsRemove DEF us
  <1> QED
    BY <1>2, <1>3, <1>4, <1>5, Zenon DEF us

LEMMA TotalMonotone ==
    ASSUME NEW vs, IsFiniteSet(vs), vs \subseteq Vtxo, NEW us \in SUBSET vs
    PROVE  Total(us) <= Total(vs)
  <1> DEFINE d == vs \ us
             P == {s \in SUBSET d : Total(us) <= Total(us \cup s)}
  <1>1. IsFiniteSet(d) /\ IsFiniteSet(us)
    BY FS_Subset
  <1>2. Total(us) \in Nat
    BY <1>1, TotalNat
  <1>3. {} \in P
    <2>1. us \cup {} = us
      OBVIOUS
    <2> QED
      BY <1>2, <2>1
  <1>4. ASSUME NEW s \in SUBSET d, NEW x \in s, s \ {x} \in P PROVE s \in P
    <2> DEFINE t == us \cup s
    <2>1. t \in SUBSET vs /\ IsFiniteSet(t)
      BY FS_Subset
    <2>2. t \subseteq Vtxo /\ x \in t /\ x.amount \in Nat /\ t \ {x} = us \cup (s \ {x})
      BY <1>4, <2>1 DEF Vtxo
    <2>3. Total(t) = Total(t \ {x}) + x.amount
      BY <2>1, <2>2, TotalRemove
    <2>4. Total(t \ {x}) \in Nat
      BY <2>1, <2>2, FS_Subset, TotalNat
    <2>5. Total(us) <= Total(t \ {x})
      BY <1>4, <2>2
    <2>6. Total(us) <= Total(t)
      BY <1>2, <2>2, <2>3, <2>4, <2>5
    <2> QED
      BY <2>6
  <1>5. \A s \in SUBSET d : s # {} => \E x \in s : s \ {x} \in P => s \in P
    BY <1>4
  <1> HIDE DEF P
  <1>6. \A s \in SUBSET d : s \in P
    BY <1>1, <1>3, <1>5, SubsetInduction, ZenonT(60)
  <1>7. us \cup d = vs
    OBVIOUS
  <1> QED
    BY <1>6, <1>7, Zenon DEF P

-----------------------------------------------------------------------------
(* The selection *)

LEMMA BeforeOrder ==
    /\ \A v \in Vtxo : ~Before(v, v)
    /\ \A u, v, w \in Vtxo : Before(u, v) /\ Before(v, w) => Before(u, w)
  BY DEF Before, Vtxo

LEMMA LastVisitedIn ==
    ASSUME NEW vs, IsFiniteSet(vs), vs \subseteq Vtxo, vs # {}
    PROVE  LastVisited(vs) \in vs /\ \A w \in vs : ~Before(LastVisited(vs), w)
  <1> DEFINE Ends(s) == \E v \in s : \A w \in s : ~Before(v, w)
             P == {s \in SUBSET vs : s # {} => Ends(s)}
             ch == Some(vs)
  <1>1. \A s \in SUBSET vs : s # {} => ch[s] \in s
    BY SomeIn, Zenon
  <1> HIDE DEF ch
  <1>2. {} \in P
    OBVIOUS
  <1>3. ASSUME NEW s \in SUBSET vs, s # {}, s \ {ch[s]} \in P PROVE s \in P
    <2> DEFINE x == ch[s]
    <2>1. x \in s /\ x \in Vtxo
      BY <1>1, <1>3
    <2> HIDE DEF x
    <2>2. CASE s \ {x} = {}
      <3>1. \A w \in s : w = x
        BY <2>2
      <3> QED
        BY <2>1, <3>1, BeforeOrder
    <2>3. CASE s \ {x} # {}
      <3>1. PICK m \in s \ {x} : \A w \in s \ {x} : ~Before(m, w)
        BY <1>3, <2>3, Zenon DEF x
      <3>2. CASE ~Before(m, x)
        <4>1. \A w \in s : ~Before(m, w)
          BY <3>1, <3>2
        <4> QED
          BY <3>1, <4>1
      <3>3. CASE Before(m, x)
        <4>1. \A w \in s : ~Before(x, w)
          <5> SUFFICES ASSUME NEW w \in s, Before(x, w) PROVE FALSE
            OBVIOUS
          <5>1. Before(m, w)
            BY <2>1, <3>3, BeforeOrder
          <5>2. w # x
            BY <2>1, BeforeOrder, Zenon
          <5> QED
            BY <5>1, <5>2, <3>1
        <4> QED
          BY <2>1, <4>1
      <3> QED
        BY <3>2, <3>3
    <2> QED
      BY <2>2, <2>3
  <1>4. \A s \in SUBSET vs : s # {} => \E x \in s : s \ {x} \in P => s \in P
    BY <1>1, <1>3, Zenon
  <1> HIDE DEF P
  <1>5. \A s \in SUBSET vs : s \in P
    BY <1>2, <1>4, SubsetInduction, Zenon
  <1>6. Ends(vs)
    BY <1>5 DEF P
  <1> QED
    BY <1>6, Zenon DEF LastVisited

(* One step of the selection, and how the selection is computed *)
Take(p, v, acc) ==
    IF acc.remaining > NextAmount(p, v)
      THEN [ret |-> acc.ret \cup {v},
            remaining |-> IF acc.remaining > v.amount THEN acc.remaining - v.amount ELSE 0]
      ELSE acc

Takes(f, p, required) ==
    f = [s \in SUBSET p |-> IF s = {} THEN [ret |-> {}, remaining |-> required]
                            ELSE LET x == LastVisited(s) IN Take(p, x, f[s \ {x}])]

Selected(res) == IF res.remaining # 0 THEN {} ELSE res.ret

LEMMA TakeInputsTakes ==
    ASSUME NEW p, IsFiniteSet(p), p \subseteq Vtxo, NEW required \in Nat
    PROVE  \E f : /\ Takes(f, p, required) /\ TakeInputs(p, required) = Selected(f[p])
                  /\ \A s \in SUBSET p : f[s] \in [ret : SUBSET s, remaining : Nat]
  <1> DEFINE A == [ret : SUBSET p, remaining : Nat]
             op == [w \in p \X A |-> Take(p, w[1], w[2])]
             ch == [s \in SUBSET p |-> LastVisited(s)]
             base == [ret |-> {}, remaining |-> required]
  <1>1. \A x \in p : \A a \in A : Take(p, x, a) \in A
    BY DEF Take, Vtxo
  <1>2. \A x \in p : \A a \in A : op[<<x, a>>] = Take(p, x, a)
    OBVIOUS
  <1>3. \A s \in SUBSET p : s # {} => ch[s] \in s /\ ch[s] = LastVisited(s)
    <2> SUFFICES ASSUME NEW s \in SUBSET p, s # {} PROVE LastVisited(s) \in s
      OBVIOUS
    <2>1. IsFiniteSet(s)
      BY FS_Subset, Zenon
    <2> QED
      BY <2>1, LastVisitedIn
  <1>4. base \in A
    OBVIOUS
  <1> HIDE DEF op, ch, A, base
  <1>5. PICK f \in [SUBSET p -> A] : Folded(f, p, base, ch, op)
    <2>1. \A s \in SUBSET p : s # {} => ch[s] \in s
      BY <1>3
    <2>2. \A x \in p : \A a \in A : op[<<x, a>>] \in A
      BY <1>1, <1>2, Zenon
    <2>3. Foldable(p, A, base, ch, op)
      BY <1>4, <2>1, <2>2, FoldTyped
    <2> QED
      BY <2>3 DEF Foldable
  <1>6. Takes(f, p, required)
    <2>1. \A s \in SUBSET p : s # {} =>
             f[s] = Take(p, LastVisited(s), f[s \ {LastVisited(s)}])
      <3> SUFFICES ASSUME NEW s \in SUBSET p, s # {}
                   PROVE  f[s] = Take(p, LastVisited(s), f[s \ {LastVisited(s)}])
        BY Zenon
      <3>1. f[s] = op[<<ch[s], f[s \ {ch[s]}]>>]
        BY <1>5, Zenon DEF Folded
      <3>2. ch[s] \in p /\ f[s \ {ch[s]}] \in A
        BY <1>3, <1>5
      <3> QED
        BY <3>1, <3>2, <1>2, <1>3, Zenon
    <2>2. f[{}] = [ret |-> {}, remaining |-> required]
      BY <1>5, Zenon DEF Folded, base
    <2>3. f = [s \in SUBSET p |-> f[s]]
      BY <1>5
    <2> QED
      BY <2>1, <2>2, <2>3, Zenon DEF Takes
  <1> DEFINE it == CHOOSE g : Takes(g, p, required)
  <1>7. Takes(it, p, required)
    BY <1>6, Zenon
  <1>8. TakeInputs(p, required) = Selected(it[p])
    BY Zenon DEF TakeInputs, MapThenFoldSet, Takes, Take, Selected
  <1> HIDE DEF it
  <1> DEFINE P == {s \in SUBSET p : it[s] \in [ret : SUBSET s, remaining : Nat]}
  <1>9. {} \in P
    BY <1>7 DEF Takes
  <1>10. ASSUME NEW s \in SUBSET p, s # {}, s \ {ch[s]} \in P PROVE s \in P
    <2> DEFINE x == ch[s]
    <2>1. x \in s /\ x.amount \in Nat
      BY <1>3, <1>10 DEF Vtxo
    <2>2. it[s] = Take(p, x, it[s \ {x}])
      BY <1>3, <1>7, <1>10, ZenonT(60) DEF Takes
    <2>3. it[s \ {x}] \in [ret : SUBSET (s \ {x}), remaining : Nat]
      BY <1>10, Zenon
    <2> HIDE DEF x
    <2>4. it[s] \in [ret : SUBSET s, remaining : Nat]
      <3> DEFINE a == it[s \ {x}]
      <3>1. a.ret \subseteq s /\ a.remaining \in Nat /\ a \in [ret : SUBSET s, remaining : Nat]
        BY <2>3, Zenon
      <3> HIDE DEF a
      <3>2. Take(p, x, a) \in [ret : SUBSET s, remaining : Nat]
        BY <2>1, <3>1 DEF Take
      <3> QED
        BY <2>2, <3>2, Zenon DEF a
    <2> QED
      BY <2>4, Zenon
  <1>11. \A s \in SUBSET p : s # {} => \E x \in s : s \ {x} \in P => s \in P
    BY <1>3, <1>10, Zenon
  <1> HIDE DEF P
  <1>12. \A s \in SUBSET p : s \in P
    BY <1>9, <1>11, SubsetInduction, Zenon
  <1> QED
    BY <1>7, <1>8, <1>12 DEF P

(* The selection takes from the pool. *)
LEMMA TakeInputsWithin ==
    ASSUME NEW p, IsFiniteSet(p), p \subseteq Vtxo, NEW required \in Nat
    PROVE  TakeInputs(p, required) \subseteq p
  BY TakeInputsTakes DEF Selected

(* The next lower amount of the bucket of x is zero or that of a vtxo. *)
LEMMA NextAmountIs ==
    ASSUME NEW p, IsFiniteSet(p), p \subseteq Vtxo, NEW x \in p
    PROVE  /\ NextAmount(p, x) \in Nat
           /\ NextAmount(p, x) > 0 =>
                  \E u \in p : u.expiry = x.expiry /\ u.amount < x.amount
                               /\ u.amount = NextAmount(p, x)
  <1> DEFINE L == {w \in p : w.expiry = x.expiry /\ w.amount < x.amount}
             amount == [w \in p |-> w.amount]
             A == {w.amount : w \in L}
             M == {0} \cup A
  <1>1. IsFiniteSet(L)
    BY FS_Subset, Zenon
  <1>2. A = {amount[w] : w \in L}
    BY Zenon
  <1>3. IsFiniteSet({amount[w] : w \in L})
    <2> HIDE DEF L, amount
    <2> QED
      BY <1>1, ImageFinite
  <1>4. IsFiniteSet(M)
    BY <1>2, <1>3, FS_Singleton, FS_Union, Zenon
  <1>5. M \subseteq Nat /\ M # {}
    BY DEF Vtxo
  <1>6. NextAmount(p, x) = Max(M)
    BY Zenon DEF NextAmount
  <1>7. Max(M) \in M
    <2> HIDE DEF M
    <2> QED
      BY <1>4, <1>5, MaxIn, Zenon
  <1> DEFINE m == Max(M)
  <1> HIDE DEF m
  <1>8. m \in Nat /\ (m = 0 \/ \E u \in L : u.amount = m)
    BY <1>5, <1>7, Zenon DEF m
  <1>9. m > 0 => \E u \in L : u.amount = m
    BY <1>8
  <1> QED
    BY <1>6, <1>8, <1>9, Zenon DEF m

(* What the selection has done after visiting the vtxos of s: what remains  *)
(* is what the chosen vtxos do not cover; when something remains, each vtxo *)
(* passed over has one to come, of its expiry, that suffices; the chosen    *)
(* ones expire no later than those passed over; and without the last chosen *)
(* one the amount is not reached.                                           *)
Prefix(p, s) == \A v \in s, w \in p \ s : ~Before(w, v)

Covers(required, a) ==
    a.remaining = IF Total(a.ret) < required THEN required - Total(a.ret) ELSE 0
ToCome(p, s, a) ==
    a.remaining > 0 => \A v \in s \ a.ret :
        \E u \in p \ s : u.expiry = v.expiry /\ u.amount >= a.remaining
Earliest(s, a) == \A v \in a.ret, w \in s \ a.ret : v.expiry <= w.expiry
LastNeeded(required, a) ==
    a.ret # {} => \E w \in a.ret : Total(a.ret \ {w}) < required
                                   /\ \A v \in a.ret : ~Before(w, v)

Chosen(p, s, required, a) ==
    /\ a \in [ret : SUBSET s, remaining : Nat]
    /\ Covers(required, a) /\ ToCome(p, s, a) /\ Earliest(s, a) /\ LastNeeded(required, a)

LEMMA TakeChosen ==
    ASSUME NEW p, IsFiniteSet(p), p \subseteq Vtxo, NEW required \in Nat,
           NEW s \in SUBSET p, NEW x \in s, \A w \in s : ~Before(x, w), Prefix(p, s),
           NEW a, Chosen(p, s \ {x}, required, a)
    PROVE  Chosen(p, s, required, Take(p, x, a))
  <1> DEFINE t == s \ {x}
             n == NextAmount(p, x)
  <1>1. /\ a = [ret |-> a.ret, remaining |-> a.remaining]
        /\ a.ret \subseteq s /\ x \notin a.ret /\ a.remaining \in Nat
        /\ IsFiniteSet(a.ret) /\ a.ret \subseteq Vtxo /\ Total(a.ret) \in Nat
    <2>1. a = [ret |-> a.ret, remaining |-> a.remaining] /\ a.ret \subseteq t /\ a.remaining \in Nat
      BY DEF Chosen
    <2>2. a.ret \subseteq p
      BY <2>1, Zenon
    <2>3. IsFiniteSet(a.ret) /\ a.ret \subseteq Vtxo
      BY <2>2, FS_Subset, Zenon
    <2> QED
      BY <2>1, <2>3, TotalNat, Zenon
  <1>2. /\ n \in Nat
        /\ n > 0 => \E u \in p : u.expiry = x.expiry /\ u.amount < x.amount /\ u.amount = n
    BY NextAmountIs
  <1>3. \A v \in p : v.expiry \in Nat /\ v.amount \in Nat
    BY Zenon DEF Vtxo
  <1> HIDE DEF n
  <1>4. CASE a.remaining <= n
    <2>1. Take(p, x, a) = a
      BY <1>1, <1>2, <1>4 DEF Take, n
    <2>2. ToCome(p, s, a)
      <3> SUFFICES ASSUME a.remaining > 0, NEW v \in s \ a.ret
                   PROVE  \E u \in p \ s : u.expiry = v.expiry /\ u.amount >= a.remaining
        BY Zenon DEF ToCome
      <3>1. PICK u \in p : u.expiry = x.expiry /\ u.amount < x.amount /\ u.amount = n
        BY <1>1, <1>2, <1>4
      <3>2. u \notin s
        BY <1>3, <3>1, Zenon DEF Before
      <3>3. CASE v.expiry = x.expiry
        BY <1>4, <3>1, <3>2, <3>3, <1>1, <1>2, Zenon
      <3>4. CASE v.expiry # x.expiry
        <4>1. PICK y \in p \ t : y.expiry = v.expiry /\ y.amount >= a.remaining
          BY <3>4, Zenon DEF Chosen, ToCome
        <4> QED
          BY <3>4, <4>1, Zenon
      <3> QED
        BY <3>3, <3>4, Zenon
    <2>3. Earliest(s, a)
      <3> SUFFICES ASSUME NEW v \in a.ret, NEW w \in s \ a.ret PROVE v.expiry <= w.expiry
        BY Zenon DEF Earliest
      <3>1. CASE w = x
        BY <1>1, <1>3, <3>1 DEF Before
      <3>2. CASE w # x
        BY <3>2, Zenon DEF Chosen, Earliest
      <3> QED
        BY <3>1, <3>2, Zenon
    <2>4. a \in [ret : SUBSET s, remaining : Nat] /\ Covers(required, a) /\ LastNeeded(required, a)
      BY <1>1, Zenon DEF Chosen
    <2> QED
      BY <2>1, <2>2, <2>3, <2>4, Zenon DEF Chosen
  <1>5. CASE a.remaining > n
    <2> DEFINE ret == a.ret \cup {x}
               rem == IF a.remaining > x.amount THEN a.remaining - x.amount ELSE 0
               b == [ret |-> ret, remaining |-> rem]
    <2>1. Take(p, x, a) = b
      BY <1>5, Zenon DEF Take, n
    <2>2. a.remaining = required - Total(a.ret) /\ Total(a.ret) < required
      BY <1>1, <1>2, <1>5 DEF Chosen, Covers
    <2>3. Total(ret) = Total(a.ret) + x.amount
      <3>1. IsFiniteSet(ret) /\ ret \subseteq Vtxo /\ x \in ret /\ ret \ {x} = a.ret
        BY <1>1, FS_AddElement
      <3> HIDE DEF ret
      <3>2. Total(ret) = Total(ret \ {x}) + x.amount
        BY <3>1, TotalRemove, Zenon
      <3> QED
        BY <3>1, <3>2, Zenon
    <2>4. b.ret = ret /\ b.remaining = rem /\ rem \in Nat
      BY <1>1, <1>3
    <2>5. Covers(required, b)
      BY <1>1, <1>3, <2>2, <2>3, <2>4 DEF Covers
    <2>6. ASSUME NEW v \in s \ ret
          PROVE  x.expiry <= v.expiry /\ x.amount >= a.remaining
      <3>1. PICK u \in p \ t : u.expiry = v.expiry /\ u.amount >= a.remaining
        BY <1>1, <1>2, <1>5 DEF Chosen, ToCome
      <3>2. ~Before(x, v)
        BY Zenon
      <3>3. CASE u = x
        BY <1>1, <1>3, <3>1, <3>3
      <3>4. CASE u # x
        <4>1. ~Before(u, x)
          BY <3>4, Zenon DEF Prefix
        <4> QED
          BY <1>1, <1>3, <3>1, <3>2, <4>1 DEF Before
      <3> QED
        BY <3>3, <3>4, Zenon
    <2>7. ToCome(p, s, b)
      <3> SUFFICES ASSUME rem > 0, NEW v \in s \ ret PROVE FALSE
        BY <2>4, Zenon DEF ToCome
      <3>1. x.amount >= a.remaining
        BY <2>6, Zenon
      <3> QED
        BY <1>1, <1>3, <3>1
    <2>8. Earliest(s, b)
      <3> SUFFICES ASSUME NEW v \in ret, NEW w \in s \ ret PROVE v.expiry <= w.expiry
        BY <2>4, Zenon DEF Earliest
      <3>1. CASE v = x
        BY <2>6, <3>1, Zenon
      <3>2. CASE v # x
        BY <3>2, Zenon DEF Chosen, Earliest
      <3> QED
        BY <3>1, <3>2, Zenon
    <2>9. LastNeeded(required, b)
      <3>1. ret \ {x} = a.ret
        BY <1>1, Zenon
      <3>2. \A v \in ret : ~Before(x, v)
        BY <1>1
      <3>3. x \in ret
        OBVIOUS
      <3> QED
        BY <2>2, <2>4, <3>1, <3>2, <3>3, Zenon DEF LastNeeded
    <2>10. b \in [ret : SUBSET s, remaining : Nat]
      BY <1>1, <2>4, Zenon
    <2> HIDE DEF b
    <2> QED
      BY <2>1, <2>5, <2>7, <2>8, <2>9, <2>10, Zenon DEF Chosen
  <1> QED
    BY <1>1, <1>2, <1>4, <1>5

LEMMA FoldChosen ==
    ASSUME NEW p, IsFiniteSet(p), p \subseteq Vtxo, NEW required \in Nat \ {0},
           NEW f, Takes(f, p, required)
    PROVE  Chosen(p, p, required, f[p])
  <1> DEFINE P == {s \in SUBSET p : Prefix(p, s) => Chosen(p, s, required, f[s])}
  <1>1. {} \in P
    <2> DEFINE a == [ret |-> {}, remaining |-> required]
    <2>1. f[{}] = a
      BY Zenon DEF Takes
    <2>2. a.ret = {} /\ a.remaining = required /\ a \in [ret : SUBSET {}, remaining : Nat]
      BY Zenon
    <2> HIDE DEF a
    <2>3. Chosen(p, {}, required, a)
      BY <2>2, TotalEmpty DEF Chosen, Covers, ToCome, Earliest, LastNeeded
    <2> QED
      BY <2>1, <2>3, Zenon
  <1>2. ASSUME NEW s \in SUBSET p, s # {} PROVE \E x \in s : s \ {x} \in P => s \in P
    <2> DEFINE x == LastVisited(s)
               t == s \ {x}
    <2>1. x \in s /\ \A w \in s : ~Before(x, w)
      BY <1>2, FS_Subset, LastVisitedIn, Zenon
    <2>2. f[s] = Take(p, x, f[t])
      BY <1>2, Zenon DEF Takes
    <2> HIDE DEF x
    <2>3. ASSUME t \in P, Prefix(p, s) PROVE Chosen(p, s, required, f[s])
      <3>1. Prefix(p, t)
        BY <2>1, <2>3 DEF Prefix
      <3>2. Chosen(p, t, required, f[t])
        BY <2>3, <3>1
      <3>3. Chosen(p, s, required, Take(p, x, f[t]))
        BY <2>1, <2>3, <3>2, TakeChosen, Zenon
      <3> QED
        BY <2>2, <3>3, Zenon
    <2>4. t \in P => s \in P
      BY <2>3, Zenon
    <2> QED
      BY <2>1, <2>4, Zenon
  <1>3. \A s \in SUBSET p : s # {} => \E x \in s : s \ {x} \in P => s \in P
    BY <1>2, Zenon
  <1> HIDE DEF P
  <1>4. \A s \in SUBSET p : s \in P
    BY <1>1, <1>3, SubsetInduction, Zenon
  <1>5. Prefix(p, p)
    BY DEF Prefix
  <1> QED
    BY <1>4, <1>5, Zenon DEF P

(* What take_inputs returns, for any pool and any amount *)
LEMMA TakeInputsSound ==
    ASSUME NEW p, IsFiniteSet(p), p \subseteq Vtxo, NEW required \in Nat \ {0},
           NEW taken, taken = TakeInputs(p, required)
    PROVE  /\ taken \subseteq p
           /\ Total(p) < required => taken = {}
           /\ Total(p) >= required =>
                  /\ Total(taken) >= required
                  /\ \A v \in taken, w \in p \ taken : v.expiry <= w.expiry
                  /\ \A v \in taken : v.expiry = Max({x.expiry : x \in taken})
                                         => Total(taken \ {v}) < required
  <1>1. PICK f : /\ Takes(f, p, required) /\ taken = Selected(f[p])
                 /\ f[p] \in [ret : SUBSET p, remaining : Nat]
    BY TakeInputsTakes
  <1>2. PICK a : a = f[p]
    BY Zenon
  <1>3. Chosen(p, p, required, a) /\ taken = Selected(a)
    BY <1>1, <1>2, FoldChosen, Zenon
  <1>4. a.ret \subseteq p /\ a.remaining \in Nat /\ IsFiniteSet(a.ret) /\ a.ret \subseteq Vtxo
    BY <1>1, <1>2, FS_Subset, Zenon
  <1>5. Total(a.ret) \in Nat /\ Total(p) \in Nat /\ Total(a.ret) <= Total(p)
    BY <1>4, TotalNat, TotalMonotone, Zenon
  <1>6. taken \subseteq p
    BY <1>3, <1>4, Zenon DEF Selected
  <1>7. ASSUME Total(p) < required PROVE taken = {}
    <2>1. a.remaining # 0
      BY <1>3, <1>5, <1>7 DEF Chosen, Covers
    <2> QED
      BY <1>3, <2>1, Zenon DEF Selected
  <1>8. ASSUME Total(p) >= required
        PROVE  /\ Total(taken) >= required
               /\ \A v \in taken, w \in p \ taken : v.expiry <= w.expiry
               /\ \A v \in taken : v.expiry = Max({x.expiry : x \in taken})
                                      => Total(taken \ {v}) < required
    <2>1. a.remaining = 0
      <3> SUFFICES ASSUME a.remaining > 0 PROVE FALSE
        BY <1>4
      <3>1. a.ret = p
        BY <1>3, <1>4, Zenon DEF Chosen, ToCome
      <3>2. Total(a.ret) < required
        BY <1>3, <1>5 DEF Chosen, Covers
      <3> QED
        BY <1>5, <1>8, <3>1, <3>2
    <2>2. taken = a.ret
      BY <1>3, <2>1, Zenon DEF Selected
    <2>3. Total(taken) >= required
      BY <1>3, <1>5, <2>1, <2>2 DEF Chosen, Covers
    <2>4. \A v \in taken, w \in p \ taken : v.expiry <= w.expiry
      BY <1>3, <2>2, Zenon DEF Chosen, Earliest
    <2>5. ASSUME NEW v \in taken, v.expiry = Max({x.expiry : x \in taken})
          PROVE  Total(taken \ {v}) < required
      <3> DEFINE E == {x.expiry : x \in taken}
      <3>1. PICK w \in taken : Total(taken \ {w}) < required /\ \A u \in taken : ~Before(w, u)
        BY <1>3, <2>2 DEF Chosen, LastNeeded
      <3>2. \A x \in E : v.expiry >= x
        <4> DEFINE expiry == [x \in taken |-> x.expiry]
        <4>1. E = {expiry[x] : x \in taken}
          BY Zenon
        <4>2. IsFiniteSet({expiry[x] : x \in taken})
          <5> HIDE DEF expiry
          <5> QED
            BY <1>4, <2>2, ImageFinite, Zenon
        <4>3. E \subseteq Nat /\ E # {}
          BY <1>4, <2>2 DEF Vtxo
        <4>4. IsFiniteSet(E)
          BY <4>1, <4>2, Zenon
        <4>5. v.expiry = Max(E)
          BY <2>5, Zenon
        <4> HIDE DEF E
        <4> QED
          BY <4>3, <4>4, <4>5, MaxIn, Zenon
      <3>3. v.expiry \in Nat /\ w.expiry \in Nat /\ v.amount \in Nat /\ w.amount \in Nat
        BY <1>4, <2>2 DEF Vtxo
      <3>4. v.amount >= w.amount
        <4>1. v.expiry >= w.expiry
          BY <3>2
        <4>2. ~Before(w, v)
          BY <3>1, Zenon
        <4> QED
          BY <3>3, <4>1, <4>2 DEF Before
      <3>5. Total(taken) = Total(taken \ {v}) + v.amount /\ Total(taken) = Total(taken \ {w}) + w.amount
        BY <1>4, <2>2, TotalRemove, Zenon
      <3>6. Total(taken \ {v}) \in Nat /\ Total(taken \ {w}) \in Nat
        BY <1>4, <2>2, FS_Subset, TotalNat, Zenon
      <3> QED
        BY <3>1, <3>3, <3>4, <3>5, <3>6
    <2> QED
      BY <2>3, <2>4, <2>5, Zenon
  <1> QED
    BY <1>6, <1>7, <1>8, Zenon

-----------------------------------------------------------------------------
(* The inductive invariant *)

Finite ==
    /\ IsFiniteSet(rows) /\ IsFiniteSet(batch)
    /\ \A s \in Sends : IsFiniteSet(change[s])

PerSend ==
    /\ inputs = [s \in Sends |-> inputs[s]]
    /\ paid = [s \in Sends |-> paid[s]]
    /\ change = [s \in Sends |-> change[s]]

(* What was made before, and not by the same tree or package as those of vs *)
Apart(v, vs) == \A w \in vs : w.id[1] # v.id[1]

(* A change or a batch that is not stored yet is made by a transaction of   *)
(* its own.                                                                 *)
Fresh ==
    /\ nextId \in Nat
    /\ \A v \in rows \cup batch : v.id[1] < nextId
    /\ \A s \in Sends : \A v \in change[s] :
           /\ v.id[1] < nextId
           /\ Apart(v, rows)
           /\ issue = "registered" => Apart(v, batch)
           /\ \A t \in Sends : t # s => Apart(v, change[t])
    /\ issue = "registered" => \A v \in batch : Apart(v, rows)

PoolInv == PoolTypeOK /\ Finite /\ PerSend /\ Fresh /\ HeldOnce /\ SpentOnce

LEMMA PoolInitInv == PoolInit => PoolInv
  <1> SUFFICES ASSUME PoolInit PROVE PoolInv
    BY Zenon
  <1> USE PoolAssumption DEF PoolInit
  <1>1. PoolTypeOK
    BY SMTT(60) DEF PoolTypeOK, NoIssuance, NoVtxos
  <1>2. Finite
    BY FS_EmptySet DEF Finite, NoVtxos
  <1>3. PerSend
    BY Zenon DEF PerSend
  <1>4. Fresh
    BY SMTT(60) DEF Fresh, NoVtxos
  <1>5. HeldOnce /\ SpentOnce
    BY Zenon DEF HeldOnce, SpentOnce
  <1> QED
    BY <1>1, <1>2, <1>3, <1>4, <1>5 DEF PoolInv

(* Sends *)

LEMMA SendArkoorStep ==
    ASSUME PoolInv, NEW s \in Sends, SendArkoor(s)
    PROVE  PoolInv'
  <1> DEFINE taken == TakeInputs(pool, Required[s])
  <1>1. taken \subseteq pool
    <2>1. pool \subseteq rows /\ rows \subseteq Vtxo /\ IsFiniteSet(rows)
      BY Zenon DEF PoolInv, PoolTypeOK, Finite
    <2>2. IsFiniteSet(pool) /\ pool \subseteq Vtxo
      BY <2>1, FS_Subset, Zenon
    <2>3. Required[s] \in Nat
      BY PoolAssumption, Zenon
    <2> QED
      BY <2>2, <2>3, TakeInputsWithin, Zenon
  <1>2. /\ pool' = pool \ taken
        /\ inputs' = [inputs EXCEPT ![s] = taken]
        /\ step' = [step EXCEPT ![s] = IF taken = {} THEN "failed" ELSE "taken"]
        /\ UNCHANGED <<rows, marked, spends, funded, paid, change, taskVars, tip, nextId, poolFaults>>
    BY Zenon DEF SendArkoor
  <1> HIDE DEF taken
  <1>3. inputs' = [t \in Sends |-> IF t = s THEN taken ELSE inputs[t]]
    BY <1>2, Zenon DEF PoolInv, PerSend
  <1>4. PoolTypeOK'
    BY <1>1, <1>2, <1>3, Zenon DEF PoolInv, PoolTypeOK, taskVars
  <1>5. Finite' /\ Fresh' /\ SpentOnce'
    BY <1>2, SMTT(60) DEF PoolInv, Finite, Fresh, Apart, SpentOnce, taskVars
  <1>6. PerSend'
    BY <1>2, <1>3, Zenon DEF PoolInv, PerSend
  <1>7. HeldOnce'
    BY <1>1, <1>2, <1>3 DEF PoolInv, HeldOnce
  <1> QED
    BY <1>4, <1>5, <1>6, <1>7 DEF PoolInv

LEMMA PlaceBackStep ==
    ASSUME PoolInv, NEW s \in Sends, PlaceBack(s), poolFaults' \in 0 .. Faults,
           UNCHANGED <<rows, spends, paid, taskVars, tip, nextId>>
    PROVE  PoolInv'
  <1>1. inputs' = [t \in Sends |-> IF t = s THEN {} ELSE inputs[t]]
    BY Zenon DEF PlaceBack, PoolInv, PerSend
  <1>2. change' = [t \in Sends |-> IF t = s THEN {} ELSE change[t]]
    BY Zenon DEF PlaceBack, PoolInv, PerSend, NoVtxos
  <1>3. pool' = pool \cup inputs[s] /\ step' = [step EXCEPT ![s] = "failed"]
    BY Zenon DEF PlaceBack
  <1>4. PoolTypeOK'
    BY <1>1, <1>2, <1>3 DEF PoolInv, PoolTypeOK, taskVars
  <1>5. Finite'
    BY <1>2, FS_EmptySet, Zenon DEF PoolInv, Finite, taskVars
  <1>6. Fresh'
    BY <1>2, SMTT(60) DEF PoolInv, Fresh, Apart, taskVars
  <1>7. PerSend'
    BY <1>1, <1>2, Zenon DEF PoolInv, PerSend
  <1>8. HeldOnce' /\ SpentOnce'
    BY <1>1, <1>3, Zenon DEF PoolInv, HeldOnce, SpentOnce
  <1> QED
    BY <1>4, <1>5, <1>6, <1>7, <1>8, Zenon DEF PoolInv

LEMMA ChangeFresh ==
    ASSUME PoolInv, NEW s \in Sends, NEW used \in SUBSET inputs[s], NEW last \in used,
           Package(s, used, last)
    PROVE  /\ ChangeOf(s, used, last) \subseteq Vtxo
           /\ IsFiniteSet(ChangeOf(s, used, last))
           /\ \A v \in ChangeOf(s, used, last) : v.id[1] = nextId
  <1> DEFINE rest == Total(used) - Required[s]
             c == [id |-> <<nextId, 0, 0>>, expiry |-> last.expiry, amount |-> rest,
                   depth |-> last.depth + 1]
  <1>1. used \subseteq Vtxo /\ IsFiniteSet(used)
    <2>1. used \subseteq rows /\ rows \subseteq Vtxo /\ IsFiniteSet(rows)
      BY Zenon DEF PoolInv, PoolTypeOK, Finite
    <2> QED
      BY <2>1, FS_Subset, Zenon
  <1>2. rest \in Nat
    <2>1. Total(used) \in Nat
      BY <1>1, TotalNat, Zenon
    <2>2. Total(used) >= Required[s] /\ Required[s] \in Nat
      BY PoolAssumption, Zenon DEF Package
    <2> QED
      BY <2>1, <2>2
  <1>3. last.expiry \in Nat /\ last.depth \in Nat /\ nextId \in Nat
    BY <1>1, Zenon DEF Vtxo, PoolInv, Fresh
  <1> HIDE DEF rest
  <1>4. c \in Vtxo
    BY <1>2, <1>3, SMTT(60) DEF Vtxo
  <1>5. c.id[1] = nextId
    BY Zenon
  <1> HIDE DEF c
  <1>6. ChangeOf(s, used, last) = {} \/ ChangeOf(s, used, last) = {c}
    BY Zenon DEF ChangeOf, NoVtxos, c, rest
  <1> QED
    BY <1>4, <1>5, <1>6, FS_EmptySet, FS_Singleton, Zenon

LEMMA CosignArkoorStep ==
    ASSUME PoolInv, NEW s \in Sends, CosignArkoor(s)
    PROVE  PoolInv'
  <1>1. PICK used \in SUBSET inputs[s] : \E last \in used :
          /\ Package(s, used, last)
          /\ IF InputsUnspent(used)
               THEN /\ spends' = spends \cup {<<v.id, s>> : v \in used}
                    /\ paid' = [paid EXCEPT ![s] = used]
                    /\ change' = [change EXCEPT ![s] = ChangeOf(s, used, last)]
                    /\ nextId' = nextId + 1
                    /\ step' = [step EXCEPT ![s] = "cosigned"]
                    /\ UNCHANGED <<pool, inputs>>
               ELSE PlaceBack(s) /\ UNCHANGED <<spends, paid, nextId>>
    BY Zenon DEF CosignArkoor
  <1>2. UNCHANGED <<rows, taskVars, tip, poolFaults>>
    BY Zenon DEF CosignArkoor
  <1>3. CASE ~InputsUnspent(used)
    BY <1>1, <1>2, <1>3, PlaceBackStep, Zenon DEF PoolInv, PoolTypeOK
  <1>4. CASE InputsUnspent(used)
    <2>1. PICK last \in used : /\ Package(s, used, last)
                               /\ change' = [change EXCEPT ![s] = ChangeOf(s, used, last)]
      BY <1>1, <1>4, Zenon
    <2> DEFINE C == ChangeOf(s, used, last)
    <2>2. C \subseteq Vtxo /\ IsFiniteSet(C) /\ \A v \in C : v.id[1] = nextId
      BY <2>1, ChangeFresh, Zenon
    <2>3. change' = [change EXCEPT ![s] = C]
      BY <2>1, Zenon
    <2> HIDE DEF C
    <2>4. change' = [t \in Sends |-> IF t = s THEN C ELSE change[t]]
      BY <2>3 DEF PoolInv, PerSend
    <2>5. paid' = [t \in Sends |-> IF t = s THEN used ELSE paid[t]]
      BY <1>1, <1>4, Zenon DEF PoolInv, PerSend
    <2>6. /\ spends' = spends \cup {<<v.id, s>> : v \in used} /\ nextId' = nextId + 1
          /\ step' = [step EXCEPT ![s] = "cosigned"] /\ UNCHANGED <<pool, inputs>>
      BY <1>1, <1>4
    <2>7. used \subseteq rows /\ rows \subseteq Vtxo
      BY Zenon DEF PoolInv, PoolTypeOK
    <2>8. PoolTypeOK'
      <3>1. spends' \subseteq (Nat \X Nat \X Nat) \X Sends
        BY <2>6, <2>7, SMTT(60) DEF PoolInv, PoolTypeOK, Vtxo
      <3> QED
        BY <3>1, <1>2, <2>2, <2>4, <2>5, <2>6, <2>7, Zenon DEF PoolInv, PoolTypeOK, taskVars
    <2>9. Finite'
      BY <1>2, <2>2, <2>4, Zenon DEF PoolInv, Finite, taskVars
    <2>10. PerSend'
      BY <2>4, <2>5, <2>6 DEF PoolInv, PerSend
    <2>11. Fresh'
      <3>0. nextId' = nextId + 1 /\ nextId \in Nat /\ UNCHANGED <<rows, batch, issue>>
        BY <1>2, <2>6, Zenon DEF PoolInv, Fresh, taskVars
      <3>1. \A v \in rows \cup batch : v.id[1] \in Nat /\ v.id[1] < nextId
        BY Zenon DEF PoolInv, PoolTypeOK, Fresh, Vtxo
      <3>2. \A t \in Sends : \A v \in change[t] : v.id[1] \in Nat /\ v.id[1] < nextId
        BY Zenon DEF PoolInv, PoolTypeOK, Fresh, Vtxo
      <3>3. \A v \in rows \cup batch : v.id[1] < nextId'
        BY <3>0, <3>1
      <3>a. nextId' \in Nat /\ nextId < nextId' /\ \A n \in Nat : n < nextId => n # nextId /\ n < nextId'
        BY <3>0
      <3>4. ASSUME NEW t \in Sends, NEW v \in change'[t]
            PROVE  /\ v.id[1] < nextId'
                   /\ Apart(v, rows)
                   /\ issue = "registered" => Apart(v, batch)
                   /\ \A u \in Sends : u # t => Apart(v, change'[u])
        <4>1. CASE t = s
          <5>1. v.id[1] = nextId
            BY <2>2, <2>4, <3>4, <4>1, Zenon
          <5>2. \A u \in Sends : u # t => change'[u] = change[u]
            BY <2>4, <4>1, Zenon
          <5> QED
            BY <5>1, <5>2, <3>1, <3>2, <3>a, Zenon DEF Apart
        <4>2. CASE t # s
          <5>1. v \in change[t]
            BY <2>4, <3>4, <4>2, Zenon
          <5>2. \A u \in Sends : u # t => Apart(v, change'[u])
            <6> SUFFICES ASSUME NEW u \in Sends, u # t PROVE Apart(v, change'[u])
              BY Zenon
            <6>1. CASE u = s
              BY <6>1, <2>2, <2>4, <3>2, <3>a, <5>1, Zenon DEF Apart
            <6>2. CASE u # s
              BY <6>2, <2>4, <5>1, Zenon DEF PoolInv, Fresh
            <6> QED
              BY <6>1, <6>2, Zenon
          <5>3. /\ v.id[1] < nextId' /\ Apart(v, rows)
                /\ issue = "registered" => Apart(v, batch)
            BY <3>2, <3>a, <5>1, Zenon DEF PoolInv, Fresh
          <5> QED
            BY <5>2, <5>3, Zenon
        <4> QED
          BY <4>1, <4>2, Zenon
      <3>5. issue = "registered" => \A v \in batch : Apart(v, rows)
        BY Zenon DEF PoolInv, Fresh
      <3> QED
        BY <3>0, <3>3, <3>a, <3>4, <3>5, Zenon DEF Fresh, Apart
    <2>12. HeldOnce'
      BY <2>6, Zenon DEF PoolInv, HeldOnce
    <2>13. SpentOnce'
      <3>1. \A v \in used : \A p \in spends : p[1] # v.id
        BY <1>4, Zenon DEF InputsUnspent, Ids, SpentIds
      <3> QED
        BY <3>1, <2>6, SMTT(60) DEF PoolInv, SpentOnce
    <2> QED
      BY <2>8, <2>9, <2>10, <2>11, <2>12, <2>13, Zenon DEF PoolInv
  <1> QED
    BY <1>3, <1>4, Zenon

LEMMA StoreChangeStep ==
    ASSUME PoolInv, NEW s \in Sends, StoreChange(s)
    PROVE  PoolInv'
  <1>1. /\ rows' = rows \cup change[s] /\ pool' = pool \cup change[s]
        /\ step' = [step EXCEPT ![s] = "done"]
        /\ UNCHANGED <<spends, paid, taskVars, tip, nextId, poolFaults>>
    BY Zenon DEF StoreChange
  <1>2. inputs' = [t \in Sends |-> IF t = s THEN {} ELSE inputs[t]]
    BY Zenon DEF StoreChange, PoolInv, PerSend
  <1>3. change' = [t \in Sends |-> IF t = s THEN {} ELSE change[t]]
    BY Zenon DEF StoreChange, PoolInv, PerSend, NoVtxos
  <1>4. PoolTypeOK'
    BY <1>1, <1>2, <1>3, Zenon DEF PoolInv, PoolTypeOK, taskVars
  <1>5. Finite'
    BY <1>1, <1>3, FS_EmptySet, FS_Union, Zenon DEF PoolInv, Finite, taskVars
  <1>6. PerSend'
    BY <1>1, <1>2, <1>3, Zenon DEF PoolInv, PerSend
  <1>7. Fresh'
    <2>1. \A t \in Sends : \A v \in change'[t] : t # s /\ v \in change[t]
      BY <1>3
    <2>2. \A t \in Sends : \A v \in change'[t] : Apart(v, rows')
      BY <2>1, <1>1, Zenon DEF PoolInv, Fresh, Apart
    <2>3. \A t \in Sends : change'[t] \subseteq change[t]
      BY <1>3, Zenon
    <2>4. issue = "registered" => \A v \in batch : Apart(v, rows')
      BY <1>1, Zenon DEF PoolInv, Fresh, Apart
    <2> QED
      BY <2>1, <2>2, <2>3, <2>4, <1>1 DEF PoolInv, Fresh, Apart, taskVars
  <1>8. HeldOnce'
    <2>1. \A t \in Sends : inputs[t] \cap change[s] = {}
      BY Zenon DEF PoolInv, PoolTypeOK, Fresh, Apart
    <2> QED
      BY <2>1, <1>1, <1>2, Zenon DEF PoolInv, HeldOnce
  <1>9. SpentOnce'
    BY <1>1, Zenon DEF PoolInv, SpentOnce
  <1> QED
    BY <1>4, <1>5, <1>6, <1>7, <1>8, <1>9, Zenon DEF PoolInv

LEMMA FaultsLeft == ASSUME PoolTypeOK, poolFaults > 0, poolFaults' = poolFaults - 1
                    PROVE  poolFaults' \in 0 .. Faults
  BY PoolAssumption, SMTT(60) DEF PoolTypeOK

LEMMA SendFaultStep ==
    ASSUME PoolInv, NEW s \in Sends, SendFault(s)
    PROVE  PoolInv'
  <1>0. poolFaults' \in 0 .. Faults /\ UNCHANGED <<rows, spends, paid, taskVars, tip, nextId>>
    BY FaultsLeft, Zenon DEF SendFault, PoolInv
  <1>1. CASE PlaceBack(s)
    BY <1>0, <1>1, PlaceBackStep, Zenon
  <1>2. CASE ~PlaceBack(s)
    <2>1. /\ change' = [change EXCEPT ![s] = NoVtxos] /\ inputs' = [inputs EXCEPT ![s] = {}]
          /\ step' = [step EXCEPT ![s] = "done"] /\ UNCHANGED pool
      BY <1>2, Zenon DEF SendFault
    <2>2. inputs' = [t \in Sends |-> IF t = s THEN {} ELSE inputs[t]]
      BY <2>1, Zenon DEF PoolInv, PerSend
    <2>3. change' = [t \in Sends |-> IF t = s THEN {} ELSE change[t]]
      BY <2>1, Zenon DEF PoolInv, PerSend, NoVtxos
    <2>4. PoolTypeOK'
      BY <1>0, <2>1, <2>2, <2>3, Zenon DEF PoolInv, PoolTypeOK, taskVars
    <2>5. Finite'
      BY <1>0, <2>3, FS_EmptySet DEF PoolInv, Finite, taskVars
    <2>6. Fresh'
      BY <1>0, <2>3, SMTT(60) DEF PoolInv, Fresh, Apart, taskVars
    <2>7. PerSend' /\ HeldOnce' /\ SpentOnce'
      BY <1>0, <2>1, <2>2, <2>3, ZenonT(60) DEF PoolInv, PerSend, HeldOnce, SpentOnce
    <2> QED
      BY <2>4, <2>5, <2>6, <2>7, Zenon DEF PoolInv
  <1> QED
    BY <1>1, <1>2, Zenon

(* The issuance *)

LEMMA CheckMaybeIssueStep ==
    ASSUME PoolInv, CheckMaybeIssue
    PROVE  PoolInv'
  <1> DEFINE kept == PruneExpiring(pool, tip + PreExpiry)
  <1>1. kept \subseteq pool
    BY Zenon DEF PruneExpiring
  <1>2. Missing(kept) \in [DOMAIN Targets -> Nat]
    <2>1. IsFiniteSet(rows) /\ kept \subseteq rows
      BY <1>1, Zenon DEF PoolInv, PoolTypeOK, Finite
    <2>2. \A a : CountAmount(kept, a) \in Nat
      <3> SUFFICES ASSUME NEW a PROVE Cardinality({v \in kept : v.amount = a}) \in Nat
        BY Zenon DEF CountAmount
      <3>1. {v \in kept : v.amount = a} \subseteq rows
        BY <2>1, Zenon
      <3>2. IsFiniteSet({v \in kept : v.amount = a})
        BY <2>1, <3>1, FS_Subset
      <3> QED
        BY <3>2, FS_CardinalityType, Zenon
    <2> QED
      BY <2>2, PoolAssumption, SMTT(60) DEF Missing
  <1>3. /\ pool' = kept /\ issue = "idle"
        /\ UNCHANGED <<rows, spends, sendVars, batch, tip, nextId, poolFaults>>
        /\ \/ issue' = "build" /\ issuance' = Missing(kept) /\ issues' = issues + 1 /\ issues < MaxIssues
           \/ UNCHANGED <<issue, issuance, issues>>
    BY DEF CheckMaybeIssue
  <1> HIDE DEF kept
  <1>4. PoolTypeOK'
    BY <1>1, <1>2, <1>3, PoolAssumption, SMTT(60) DEF PoolInv, PoolTypeOK, sendVars
  <1>5. Finite' /\ PerSend' /\ SpentOnce'
    BY <1>3, Zenon DEF PoolInv, Finite, PerSend, SpentOnce, sendVars
  <1>6. Fresh'
    BY <1>3, SMTT(60) DEF PoolInv, Fresh, Apart, sendVars
  <1>7. HeldOnce'
    BY <1>1, <1>3, Zenon DEF PoolInv, HeldOnce, sendVars
  <1> QED
    BY <1>4, <1>5, <1>6, <1>7, Zenon DEF PoolInv

LEMMA NewVtxosFresh ==
    ASSUME PoolInv
    PROVE  /\ NewVtxos \subseteq Vtxo /\ IsFiniteSet(NewVtxos)
           /\ \A v \in NewVtxos : v.id[1] = nextId
  <1> DEFINE U == UNION {{a} \X (1 .. issuance[a]) : a \in DOMAIN Targets}
             N(w) == [id |-> <<nextId, w[1], w[2]>>, expiry |-> tip + Lifetime,
                      amount |-> w[1], depth |-> 0]
  <1>1. /\ nextId \in Nat /\ tip \in Nat /\ Lifetime \in Nat
        /\ \A a \in DOMAIN Targets : issuance[a] \in Nat /\ a \in Nat
    BY PoolAssumption, SMTT(60) DEF PoolInv, PoolTypeOK, Fresh
  <1>2. \A w \in U : w[1] \in Nat /\ w[2] \in Nat
    BY <1>1
  <1>3. IsFiniteSet(U)
    <2> DEFINE W(a) == {a} \X (1 .. issuance[a])
               M == {W(a) : a \in DOMAIN Targets}
    <2>1. IsFiniteSet(DOMAIN Targets)
      BY PoolAssumption
    <2>2. IsFiniteSet(M)
      <3> DEFINE f == [a \in DOMAIN Targets |-> W(a)]
      <3>1. M = {f[a] : a \in DOMAIN Targets}
        BY Zenon
      <3> HIDE DEF f, M
      <3> QED
        BY <2>1, <3>1, ImageFinite, Zenon
    <2>3. \A m \in M : IsFiniteSet(m)
      <3> SUFFICES ASSUME NEW a \in DOMAIN Targets PROVE IsFiniteSet(W(a))
        BY Zenon
      <3>1. IsFiniteSet({a}) /\ IsFiniteSet(1 .. issuance[a])
        <4>1. 1 \in Int /\ issuance[a] \in Int
          BY <1>1
        <4> QED
          BY <4>1, FS_Singleton, FS_Interval, Zenon
      <3> QED
        BY <3>1, FS_Product, Zenon
    <2> QED
      BY <2>2, <2>3, FS_UNION, Zenon
  <1>4. NewVtxos = {N(w) : w \in U}
    BY DEF NewVtxos
  <1>5. \A w \in U : N(w) \in Vtxo /\ N(w).id[1] = nextId
    BY <1>1, <1>2, SMTT(60) DEF Vtxo
  <1> HIDE DEF U
  <1>6. IsFiniteSet({N(w) : w \in U})
    <2> DEFINE f == [w \in U |-> N(w)]
    <2>1. {N(w) : w \in U} = {f[w] : w \in U}
      BY Zenon
    <2>2. IsFiniteSet({f[w] : w \in U})
      BY <1>3, ImageFinite, Zenon
    <2> QED
      BY <2>1, <2>2, Zenon
  <1> HIDE DEF N
  <1> QED
    BY <1>4, <1>5, <1>6, Zenon

LEMMA RegisterTreeStep ==
    ASSUME PoolInv, RegisterTree
    PROVE  PoolInv'
  <1>1. /\ batch' = NewVtxos /\ nextId' = nextId + 1 /\ issuance' = NoIssuance
        /\ issue' = "registered"
        /\ UNCHANGED <<pool, rows, spends, sendVars, issues, tip, poolFaults>>
    BY Zenon DEF RegisterTree
  <1>2. /\ NewVtxos \subseteq Vtxo /\ IsFiniteSet(NewVtxos)
        /\ \A v \in NewVtxos : v.id[1] = nextId
    BY NewVtxosFresh
  <1>3. PoolTypeOK'
    BY <1>1, <1>2, Zenon DEF PoolInv, PoolTypeOK, sendVars, NoIssuance
  <1>4. Finite' /\ PerSend' /\ SpentOnce' /\ HeldOnce'
    BY <1>1, <1>2, Zenon DEF PoolInv, Finite, PerSend, SpentOnce, HeldOnce, sendVars
  <1>5. Fresh'
    <2>0. nextId \in Nat
      BY Zenon DEF PoolInv, Fresh
    <2>1. \A v \in rows : v.id[1] \in Nat /\ v.id[1] < nextId
      BY Zenon DEF PoolInv, PoolTypeOK, Fresh, Vtxo
    <2>2. \A s \in Sends : \A v \in change[s] : v.id[1] \in Nat /\ v.id[1] < nextId
      BY Zenon DEF PoolInv, PoolTypeOK, Fresh, Vtxo
    <2>3. \A v \in rows' \cup batch' : v.id[1] < nextId'
      BY <1>1, <1>2, <2>0, <2>1
    <2>4. \A s \in Sends : \A v \in change'[s] :
             /\ v.id[1] < nextId' /\ Apart(v, rows') /\ Apart(v, batch')
             /\ \A t \in Sends : t # s => Apart(v, change'[t])
      BY <1>1, <1>2, <2>0, <2>2, SMTT(60) DEF PoolInv, Fresh, Apart, sendVars
    <2>5. \A v \in batch' : Apart(v, rows')
      BY <1>1, <1>2, <2>0, <2>1 DEF Apart
    <2> QED
      BY <1>1, <2>0, <2>3, <2>4, <2>5, SMTT(60) DEF Fresh, Apart
  <1> QED
    BY <1>3, <1>4, <1>5, Zenon DEF PoolInv

LEMMA StoreBatchStep ==
    ASSUME PoolInv, StoreBatch
    PROVE  PoolInv'
  <1>1. /\ issue = "registered" /\ issue' = "stored"
        /\ rows' = rows \cup batch /\ pool' = pool \cup batch
        /\ UNCHANGED <<spends, sendVars, issuance, batch, issues, tip, nextId, poolFaults>>
    BY Zenon DEF StoreBatch
  <1>2. PoolTypeOK'
    BY <1>1 DEF PoolInv, PoolTypeOK, sendVars
  <1>3. Finite'
    BY <1>1, FS_Union, Zenon DEF PoolInv, Finite, sendVars
  <1>4. Fresh'
    BY <1>1, SMTT(60) DEF PoolInv, Fresh, Apart, sendVars
  <1>5. HeldOnce'
    <2>1. \A t \in Sends : inputs[t] \cap batch = {}
      BY <1>1, Zenon DEF PoolInv, PoolTypeOK, Fresh, Apart
    <2> QED
      BY <2>1, <1>1, Zenon DEF PoolInv, HeldOnce, sendVars
  <1>6. PerSend' /\ SpentOnce'
    BY <1>1, Zenon DEF PoolInv, PerSend, SpentOnce, sendVars
  <1> QED
    BY <1>2, <1>3, <1>4, <1>5, <1>6, Zenon DEF PoolInv

(* The rest *)
LEMMA OtherStep ==
    ASSUME PoolInv, \/ \E s \in Sends : MarkPoolVtxos(s)
                    \/ NewBlock \/ BroadcastBatch \/ IssueFault \/ UNCHANGED poolVars
    PROVE  PoolInv'
  <1>1. /\ UNCHANGED <<pool, rows, spends, inputs, paid, change, nextId>>
        /\ \/ batch' = batch /\ issue' = issue
           \/ batch' = {} /\ issue' = "idle"
    BY DEF MarkPoolVtxos, NewBlock, BroadcastBatch, IssueFault, poolVars, sendVars, taskVars
  <1>2. PoolTypeOK'
    <2>0. PoolTypeOK
      BY Zenon DEF PoolInv
    <2>1. step' \in [Sends -> {"idle", "taken", "cosigned", "marked", "done", "failed"}]
      BY <2>0, Zenon DEF MarkPoolVtxos, NewBlock, BroadcastBatch, IssueFault, poolVars, sendVars, taskVars, PoolTypeOK
    <2>2. issue' \in {"idle", "build", "registered", "stored"} /\ batch' \subseteq Vtxo
      BY <1>1, <2>0, Zenon DEF PoolTypeOK
    <2>3. issuance' \in [DOMAIN Targets -> Nat]
      BY <2>0 DEF MarkPoolVtxos, NewBlock, BroadcastBatch, IssueFault, poolVars, taskVars, PoolTypeOK, NoIssuance
    <2>4. tip' \in 0 .. MaxTip
      BY <2>0, PoolAssumption DEF MarkPoolVtxos, NewBlock, BroadcastBatch, IssueFault, poolVars, PoolTypeOK
    <2>5. issues' = issues
      BY Zenon DEF MarkPoolVtxos, NewBlock, BroadcastBatch, IssueFault, poolVars, taskVars
    <2>6. poolFaults' \in 0 .. Faults
      BY <2>0, FaultsLeft, Zenon DEF MarkPoolVtxos, NewBlock, BroadcastBatch, IssueFault, poolVars, PoolTypeOK
    <2> QED
      BY <1>1, <2>0, <2>1, <2>2, <2>3, <2>4, <2>5, <2>6, Zenon DEF PoolTypeOK
  <1>3. Finite'
    BY <1>1, FS_EmptySet DEF PoolInv, Finite
  <1>4. Fresh'
    <2>0. Fresh /\ rows' = rows /\ change' = change /\ nextId' = nextId
      BY <1>1, Zenon DEF PoolInv
    <2>1. CASE batch' = batch /\ issue' = issue
      BY <2>0, <2>1 DEF Fresh, Apart
    <2>2. CASE batch' = {} /\ issue' = "idle"
      <3>1. rows' \cup batch' \subseteq rows \cup batch /\ issue' # "registered"
        BY <2>0, <2>2
      <3> QED
        BY <2>0, <3>1 DEF Fresh, Apart
    <2> QED
      BY <1>1, <2>1, <2>2, Zenon
  <1>5. PerSend' /\ HeldOnce' /\ SpentOnce'
    BY <1>1, Zenon DEF PoolInv, PerSend, HeldOnce, SpentOnce
  <1> QED
    BY <1>2, <1>3, <1>4, <1>5, Zenon DEF PoolInv

LEMMA RestartStep ==
    ASSUME PoolInv, Restart
    PROVE  PoolInv'
  <1>1. /\ pool' \subseteq rows /\ poolFaults' \in 0 .. Faults
        /\ step' = [s \in Sends |-> IF step[s] \in {"idle", "done"} THEN step[s] ELSE "failed"]
        /\ inputs' = [s \in Sends |-> {}] /\ change' = [s \in Sends |-> {}]
        /\ issue' = "idle" /\ issuance' = NoIssuance /\ batch' = {}
        /\ UNCHANGED <<rows, spends, paid, issues, tip, nextId>>
    BY FaultsLeft, Zenon DEF Restart, LoadVtxoPool, NoVtxos, PoolInv
  <1>2. PoolTypeOK'
    BY <1>1, Zenon DEF PoolInv, PoolTypeOK, NoIssuance
  <1>3. Finite'
    BY <1>1, FS_EmptySet, Zenon DEF PoolInv, Finite
  <1>4. Fresh'
    BY <1>1, Zenon DEF PoolInv, Fresh, Apart
  <1>5. PerSend' /\ HeldOnce' /\ SpentOnce'
    BY <1>1 DEF PoolInv, PerSend, HeldOnce, SpentOnce
  <1> QED
    BY <1>2, <1>3, <1>4, <1>5, Zenon DEF PoolInv

-----------------------------------------------------------------------------

(* For any pool, targets, sends, faults and restarts: no input is selected  *)
(* for two sends at once and none is signed away twice (VtxoPool::          *)
(* send_arkoor, prepare_arkoor, issue_vtxos).                               *)
THEOREM InputsUsedOnceAlways == PoolSpec => []InputsUsedOnce
  <1>1. PoolInit => PoolInv
    BY PoolInitInv, Zenon
  <1>2. PoolInv /\ [PoolNext]_poolVars => PoolInv'
    BY SendArkoorStep, CosignArkoorStep, StoreChangeStep, SendFaultStep, CheckMaybeIssueStep,
       RegisterTreeStep, StoreBatchStep, OtherStep, RestartStep DEF PoolNext, Send, Issue
  <1>3. PoolInv => InputsUsedOnce
    BY Zenon DEF PoolInv, InputsUsedOnce
  <1> QED
    BY <1>1, <1>2, <1>3, PTL DEF PoolSpec

(* Whatever the pool has come to hold and whatever amount is asked of it,    *)
(* take_inputs finds inputs exactly when the pool has that much, takes the   *)
(* earliest expiries and nothing it could do without in the last of them.    *)
THEOREM SelectionSoundAlways == PoolSpec => []SelectionSound
  <1>1. PoolInit => PoolInv
    BY PoolInitInv
  <1>2. PoolInv /\ [PoolNext]_poolVars => PoolInv'
    BY SendArkoorStep, CosignArkoorStep, StoreChangeStep, SendFaultStep, CheckMaybeIssueStep,
       RegisterTreeStep, StoreBatchStep, OtherStep, RestartStep DEF PoolNext, Send, Issue
  <1>3. PoolInv => SelectionSound
    <2> SUFFICES ASSUME PoolInv PROVE SelectionSound
      BY Zenon
    <2>1. IsFiniteSet(pool) /\ pool \subseteq Vtxo
      BY FS_Subset DEF PoolInv, Finite, PoolTypeOK
    <2>2. Total(pool) \in Nat
      BY <2>1, TotalNat
    <2>3. \A required \in 1 .. Total(pool) + 1 :
              required \in Nat \ {0} /\ (Total(pool) < required \/ Total(pool) >= required)
      BY <2>2
    <2> QED
      BY <2>1, <2>2, <2>3, TakeInputsSound DEF SelectionSound
  <1> QED
    BY <1>1, <1>2, <1>3, PTL DEF PoolSpec

(***************************************************************************)
(* EphemeralKeys, for every lifetime and every number of late ticks that   *)
(* the lifetime bounds.                                                    *)
(***************************************************************************)
(* Key k serves a vtxo that expires at height e: it is stored as long as    *)
(* the vtxo lives, and its tweak outlives e by the lifetime, less the ticks *)
(* that the vtxo's issuance waited.                                         *)
Serves(k, e) ==
    /\ k \in 1..(nextKey - 1) /\ e \in Nat /\ e <= tipHeight + VtxoLifetime
    /\ Known(k) => e + VtxoLifetime <= tweaks[k] + waited
    /\ tipHeight < e => Known(k)

(* The times and the table. *)
Times ==
    /\ clock \in Nat /\ tipHeight \in Nat /\ late \in Nat /\ waited \in Nat
    /\ clock = tipHeight + late /\ late + waited <= SlowTicks
    /\ nextKey \in Nat /\ nextKey >= 1
    /\ DOMAIN tweaks \subseteq 1..(nextKey - 1)
    /\ \A k \in DOMAIN tweaks : tweaks[k] \in Nat

(* An issuance: its key before and after the expiry height is chosen, and  *)
(* the tree's key, which is no vtxo's key.                                 *)
LeafWaits ==
    issuing.pc = "tree" =>
        /\ issuing.leaf \in 1..(nextKey - 1) /\ Known(issuing.leaf)
        /\ tipHeight + 2 * VtxoLifetime <= tweaks[issuing.leaf] + waited
LeafServes ==
    issuing.pc \in {"treeStore", "cosign", "register", "store"} =>
        Serves(issuing.leaf, issuing.expiry)
TreeApart ==
    issuing.pc \in {"cosign", "register"} =>
        /\ issuing.tree \in 1..(nextKey - 1) /\ issuing.tree # issuing.leaf
        /\ \A v \in held : v.key # issuing.tree
        /\ sending.pc = "cosign" => sending.change # issuing.tree

(* A send: its input is of the pool until it ends, its change is served. *)
InputHeld == sending.pc # "idle" => sending.input \in held
ChangeServes == sending.pc = "cosign" => Serves(sending.change, sending.input.expiry)

HeldServed == \A v \in held : Serves(v.key, v.expiry)

KeyRecords ==
    /\ issuing \in [pc : {"idle", "leaf", "leafStore", "tree", "treeStore", "cosign",
                          "register", "store"}, leaf : Nat, tree : Nat, expiry : Nat]
    /\ sending.pc \in {"idle", "fetch", "change", "changeStore", "cosign"}
    /\ sending = [pc |-> sending.pc, input |-> sending.input, change |-> sending.change]

KeyInv ==
    /\ Times /\ KeyRecords /\ HeldServed /\ LeafWaits /\ LeafServes /\ TreeApart
    /\ InputHeld /\ ChangeServes

-----------------------------------------------------------------------------
(* What each statement on the table does to a key that serves a vtxo. *)

LEMMA CleanServes ==
    ASSUME Times, CleanExpired, UNCHANGED <<clock, tipHeight, late, waited, nextKey>>,
           NEW k, NEW e, Serves(k, e)
    PROVE  Serves(k, e)'
  <1>1. CASE UNCHANGED tweaks
    BY <1>1, Zenon DEF Serves, Known
  <1>2. CASE tweaks' = [j \in {j \in DOMAIN tweaks : ~Expired(j)} |-> tweaks[j]]
    <2>1. ASSUME tipHeight < e PROVE Known(k) /\ ~Expired(k)
      BY <2>1, KeyAssumption DEF Serves, Times, Known, Expired
    <2> QED
      BY <1>2, <2>1, Zenon DEF Serves, Known
  <1> QED
    BY <1>1, <1>2, Zenon DEF CleanExpired

LEMMA StoreServes ==
    ASSUME Times, NEW l, StoreTweak(l), UNCHANGED <<clock, tipHeight, late, waited>>,
           NEW k, NEW e, Serves(k, e)
    PROVE  Serves(k, e)'
  BY DEF StoreTweak, Serves, Times, Known

LEMMA DropServes ==
    ASSUME Times, NEW j, DropTweak(j), UNCHANGED <<clock, tipHeight, late, waited, nextKey>>,
           NEW k, NEW e, Serves(k, e), k # j
    PROVE  Serves(k, e)'
  BY Zenon DEF DropTweak, Serves, Times, Known

LEMMA TickServes ==
    ASSUME Times, Tick, NEW k, NEW e, Serves(k, e)
    PROVE  Serves(k, e)'
  BY KeyAssumption DEF Tick, Serves, Times, Known

-----------------------------------------------------------------------------
LEMMA KeyInitInv == KeyInit => KeyInv
  BY KeyAssumption DEF KeyInit, KeyInv, Times, KeyRecords, HeldServed, LeafWaits, LeafServes,
         TreeApart, InputHeld, ChangeServes, NoIssue, NoSend

(* The clean-up removes no key that an issuance, a send or the pool needs. *)
LEMMA CleanKeeps ==
    ASSUME KeyInv, CleanExpired, UNCHANGED <<clock, tipHeight, late, waited, nextKey, held>>
    PROVE  /\ Times' /\ HeldServed'
           /\ issuing.pc = "tree" =>
                  issuing.leaf \in DOMAIN tweaks' /\ tweaks'[issuing.leaf] = tweaks[issuing.leaf]
           /\ \A k, e : Serves(k, e) => Serves(k, e)'
  <1>1. \A k, e : Serves(k, e) => Serves(k, e)'
    BY CleanServes, Zenon DEF KeyInv
  <1>2. HeldServed'
    BY <1>1, Zenon DEF KeyInv, HeldServed
  <1>3. Times'
    BY Zenon DEF KeyInv, Times, CleanExpired
  <1>4. ASSUME issuing.pc = "tree"
        PROVE  issuing.leaf \in DOMAIN tweaks' /\ tweaks'[issuing.leaf] = tweaks[issuing.leaf]
    <2>1. Known(issuing.leaf) /\ ~Expired(issuing.leaf)
      BY <1>4, KeyAssumption DEF KeyInv, LeafWaits, Times, Known, Expired
    <2> QED
      BY <2>1 DEF CleanExpired, Known
  <1> QED
    BY <1>1, <1>2, <1>3, <1>4, Zenon

LEMMA StoreKeeps ==
    ASSUME KeyInv, NEW l \in Nat, StoreTweak(l),
           UNCHANGED <<clock, tipHeight, late, waited, held>>
    PROVE  /\ Times' /\ HeldServed'
           /\ nextKey \notin 1..(nextKey - 1) /\ nextKey \in 1..(nextKey' - 1)
           /\ 1..(nextKey - 1) \subseteq 1..(nextKey' - 1)
           /\ nextKey \in DOMAIN tweaks' /\ tweaks'[nextKey] = clock + l
           /\ \A k \in 1..(nextKey - 1) :
                  Known(k) => Known(k)' /\ tweaks'[k] = tweaks[k]
           /\ \A k, e : Serves(k, e) => Serves(k, e)'
  <1>1. \A k, e : Serves(k, e) => Serves(k, e)'
    BY StoreServes, Zenon DEF KeyInv
  <1>2. HeldServed'
    BY <1>1 DEF KeyInv, HeldServed
  <1> QED
    BY <1>1, <1>2 DEF KeyInv, Times, StoreTweak, Known

LEMMA KeyStep == KeyInv /\ [KeyNext]_keyVars => KeyInv'
  <1> SUFFICES ASSUME KeyInv, [KeyNext]_keyVars PROVE KeyInv'
    BY Zenon
  <1> USE DEF KeyInv
  <1>1. CASE IssueStarts
    <2>1. \A k, e : Serves(k, e) => Serves(k, e)'
      BY <1>1, Zenon DEF IssueStarts, Serves, Known
    <2> QED
      BY <1>1, <2>1 DEF IssueStarts, NoIssue, Times, KeyRecords, HeldServed, LeafWaits,
             LeafServes, TreeApart, InputHeld, ChangeServes
  <1>2. CASE IssueCleans
    <2>1. /\ CleanExpired /\ UNCHANGED <<clock, tipHeight, late, waited, nextKey, held, sending>>
          /\ issuing.pc \in {"leaf", "tree"}
      BY <1>2, Zenon DEF IssueCleans
    <2>2. /\ Times' /\ HeldServed'
          /\ issuing.pc = "tree" =>
                 issuing.leaf \in DOMAIN tweaks' /\ tweaks'[issuing.leaf] = tweaks[issuing.leaf]
          /\ \A k, e : Serves(k, e) => Serves(k, e)'
      BY <2>1, CleanKeeps
    <2>3. CASE issuing.pc = "leaf"
      BY <1>2, <2>1, <2>2, <2>3 DEF IssueCleans, KeyRecords, LeafWaits,
             LeafServes, TreeApart, InputHeld, ChangeServes
    <2>4. CASE issuing.pc = "tree"
      <3>1. /\ issuing' = [issuing EXCEPT !.pc = "treeStore", !.expiry = tipHeight + VtxoLifetime]
            /\ issuing'.pc = "treeStore" /\ issuing'.leaf = issuing.leaf
            /\ issuing'.expiry = tipHeight + VtxoLifetime
        BY <1>2, <2>4, Zenon DEF IssueCleans, KeyRecords
      <3>2. LeafServes'
        BY <2>1, <2>2, <2>4, <3>1, KeyAssumption DEF LeafServes, Serves, LeafWaits, Times, Known
      <3>3. KeyRecords'
        <4>1. tipHeight + VtxoLifetime \in Nat
          BY KeyAssumption DEF Times
        <4> QED
          BY <2>1, <3>1, <4>1, Zenon DEF KeyRecords
      <3>4. ChangeServes'
        BY <2>1, <2>2 DEF ChangeServes
      <3> QED
        BY <2>1, <2>2, <3>1, <3>2, <3>3, <3>4 DEF LeafWaits, TreeApart, InputHeld
    <2> QED
      BY <2>1, <2>3, <2>4
  <1>3. CASE IssueLeafKey
    <2>1. /\ StoreTweak(VtxoKeyLifetime) /\ VtxoKeyLifetime \in Nat
          /\ UNCHANGED <<clock, tipHeight, late, waited, held, sending>>
          /\ issuing' = [issuing EXCEPT !.pc = "tree", !.leaf = nextKey]
      BY <1>3, KeyAssumption DEF IssueLeafKey, VtxoKeyLifetime
    <2>2. /\ Times' /\ HeldServed' /\ nextKey \in 1..(nextKey' - 1)
          /\ nextKey \in DOMAIN tweaks' /\ tweaks'[nextKey] = clock + VtxoKeyLifetime
          /\ \A k, e : Serves(k, e) => Serves(k, e)'
      BY <2>1, StoreKeeps
    <2>3. issuing'.pc = "tree" /\ issuing'.leaf = nextKey
      BY <2>1 DEF KeyRecords
    <2>4. LeafWaits'
      BY <2>1, <2>2, <2>3, KeyAssumption DEF LeafWaits, VtxoKeyLifetime, Times, Known
    <2> QED
      BY <2>1, <2>2, <2>3, <2>4, Zenon DEF KeyRecords, LeafServes, TreeApart, InputHeld,
             ChangeServes, Times
  <1>4. CASE IssueTreeKey
    <2>1. /\ StoreTweak(TreeKeyLifetime) /\ TreeKeyLifetime \in Nat
          /\ UNCHANGED <<clock, tipHeight, late, waited, held, sending>>
          /\ issuing' = [issuing EXCEPT !.pc = "cosign", !.tree = nextKey]
          /\ issuing.pc = "treeStore"
      BY <1>4 DEF IssueTreeKey, TreeKeyLifetime
    <2>2. /\ Times' /\ HeldServed' /\ nextKey \in 1..(nextKey' - 1)
          /\ nextKey \notin 1..(nextKey - 1)
          /\ \A k, e : Serves(k, e) => Serves(k, e)'
      BY <2>1, StoreKeeps, Zenon
    <2>3. /\ issuing'.pc = "cosign" /\ issuing'.tree = nextKey
          /\ issuing'.leaf = issuing.leaf /\ issuing'.expiry = issuing.expiry
      BY <2>1 DEF KeyRecords
    <2>4. LeafServes'
      BY <2>1, <2>2, <2>3, Zenon DEF LeafServes, Serves
    <2>5. TreeApart'
      BY <2>1, <2>2, <2>3 DEF TreeApart, LeafServes, HeldServed, ChangeServes, Serves
    <2> QED
      BY <2>1, <2>2, <2>3, <2>4, <2>5, Zenon DEF KeyRecords, LeafWaits, InputHeld, ChangeServes, Times
  <1>5. CASE CosignVtxoTree
    <2>1. \A k, e : Serves(k, e) => Serves(k, e)'
      BY <1>5 DEF CosignVtxoTree, Serves, Known
    <2> QED
      BY <1>5, <2>1 DEF CosignVtxoTree, NoIssue, Times, KeyRecords, HeldServed, LeafWaits,
             LeafServes, TreeApart, InputHeld, ChangeServes
  <1>6. CASE RegisterCosignedVtxoTree
    <2>1. /\ DropTweak(issuing.tree) /\ issuing.pc = "register"
          /\ UNCHANGED <<clock, tipHeight, late, waited, nextKey, held, sending>>
      BY <1>6, Zenon DEF RegisterCosignedVtxoTree
    <2>2. \A k, e : Serves(k, e) /\ k # issuing.tree => Serves(k, e)'
      BY <2>1, DropServes, Zenon
    <2>3. HeldServed' /\ Times'
      BY <2>1, <2>2 DEF HeldServed, TreeApart, DropTweak, Times
    <2>4. ChangeServes' /\ InputHeld'
      BY <2>1, <2>2, Zenon DEF ChangeServes, TreeApart, InputHeld
    <2>5. CASE issuing' = NoIssue
      BY <2>1, <2>3, <2>4, <2>5 DEF NoIssue, KeyRecords, LeafWaits, LeafServes, TreeApart
    <2>6. CASE issuing' = [issuing EXCEPT !.pc = "store"]
      <3>2. issuing'.pc = "store" /\ issuing'.leaf = issuing.leaf /\ issuing'.expiry = issuing.expiry
        BY <2>6, Zenon DEF KeyRecords
      <3>3. LeafServes'
        BY <2>1, <2>2, <3>2, Zenon DEF LeafServes, TreeApart
      <3> QED
        BY <2>1, <2>3, <2>4, <2>6, <3>2, <3>3 DEF KeyRecords, LeafWaits, TreeApart
    <2> QED
      BY <1>6, <2>5, <2>6 DEF RegisterCosignedVtxoTree
  <1>7. CASE IssueStores
    <2>1. \A k, e : Serves(k, e) => Serves(k, e)'
      BY <1>7, Zenon DEF IssueStores, Serves, Known
    <2>2. HeldServed'
      BY <1>7, <2>1 DEF IssueStores, HeldServed, LeafServes
    <2> QED
      BY <1>7, <2>1, <2>2, Zenon DEF IssueStores, NoIssue, Times, KeyRecords, LeafWaits,
             LeafServes, TreeApart, InputHeld, ChangeServes
  <1>8. ASSUME NEW v \in held, SendStarts(v) PROVE KeyInv'
    <2>1. \A k, e : Serves(k, e) => Serves(k, e)'
      BY <1>8 DEF SendStarts, Serves, Known
    <2> QED
      BY <1>8, <2>1, Zenon DEF SendStarts, NoSend, Times, KeyRecords, HeldServed, LeafWaits,
             LeafServes, TreeApart, InputHeld, ChangeServes, Known
  <1>9. CASE SendFetchesKey
    <2>1. \A k, e : Serves(k, e) => Serves(k, e)'
      BY <1>9 DEF SendFetchesKey, Serves, Known
    <2> QED
      BY <1>9, <2>1, Zenon DEF SendFetchesKey, NoSend, Times, KeyRecords, HeldServed, LeafWaits,
             LeafServes, TreeApart, InputHeld, ChangeServes, Known
  <1>10. CASE SendCleans
    <2>1. /\ CleanExpired /\ UNCHANGED <<clock, tipHeight, late, waited, nextKey, held, issuing>>
          /\ sending' = [sending EXCEPT !.pc = "changeStore"] /\ sending.pc = "change"
      BY <1>10 DEF SendCleans
    <2>2. /\ Times' /\ HeldServed'
          /\ issuing.pc = "tree" =>
                 issuing.leaf \in DOMAIN tweaks' /\ tweaks'[issuing.leaf] = tweaks[issuing.leaf]
          /\ \A k, e : Serves(k, e) => Serves(k, e)'
      BY <2>1, CleanKeeps
    <2>3. sending'.pc = "changeStore" /\ sending'.input = sending.input
      BY <2>1 DEF KeyRecords
    <2>4. LeafWaits' /\ LeafServes'
      BY <2>1, <2>2 DEF LeafWaits, LeafServes, Known
    <2> QED
      BY <2>1, <2>2, <2>3, <2>4 DEF KeyRecords, TreeApart, InputHeld, ChangeServes
  <1>11. CASE SendChangeKey
    <2>1. /\ StoreTweak(VtxoKeyLifetime) /\ VtxoKeyLifetime \in Nat
          /\ UNCHANGED <<clock, tipHeight, late, waited, held, issuing>>
          /\ sending' = [sending EXCEPT !.pc = "cosign", !.change = nextKey]
          /\ sending.pc = "changeStore"
      BY <1>11, KeyAssumption DEF SendChangeKey, VtxoKeyLifetime
    <2>2. /\ Times' /\ HeldServed' /\ nextKey \in 1..(nextKey' - 1)
          /\ nextKey \notin 1..(nextKey - 1)
          /\ 1..(nextKey - 1) \subseteq 1..(nextKey' - 1)
          /\ nextKey \in DOMAIN tweaks' /\ tweaks'[nextKey] = clock + VtxoKeyLifetime
          /\ \A k \in 1..(nextKey - 1) :
                 Known(k) => Known(k)' /\ tweaks'[k] = tweaks[k]
          /\ \A k, e : Serves(k, e) => Serves(k, e)'
      BY <2>1, StoreKeeps
    <2>3. /\ sending'.pc = "cosign" /\ sending'.input = sending.input
          /\ sending'.change = nextKey /\ sending.input \in held
      BY <2>1 DEF KeyRecords, InputHeld
    <2>5. ChangeServes'
      BY <2>1, <2>2, <2>3, KeyAssumption DEF ChangeServes, Serves, HeldServed, Times, Known,
             VtxoKeyLifetime
    <2>6. LeafWaits' /\ LeafServes'
      BY <2>1, <2>2 DEF LeafWaits, LeafServes, Known
    <2>7. TreeApart'
      BY <2>1, <2>2, <2>3, Zenon DEF TreeApart
    <2> QED
      BY <2>1, <2>2, <2>3, <2>5, <2>6, <2>7, Zenon DEF KeyRecords, InputHeld
  <1>12. CASE SendFinishes
    <2>1. \A k, e : Serves(k, e) => Serves(k, e)'
      BY <1>12 DEF SendFinishes, Serves, Known
    <2>2. HeldServed' /\ TreeApart'
      <3>1. /\ sending.pc = "cosign" /\ sending' = NoSend /\ UNCHANGED <<nextKey, issuing>>
            /\ \A v \in held' : v \in held \/ v = [key |-> sending.change, expiry |-> sending.input.expiry]
        BY <1>12, Zenon DEF SendFinishes
      <3>2. HeldServed'
        BY <2>1, <3>1 DEF HeldServed, ChangeServes
      <3>3. TreeApart'
        BY <3>1 DEF TreeApart, NoSend
      <3> QED
        BY <3>2, <3>3, Zenon
    <2> QED
      BY <1>12, <2>1, <2>2, Zenon DEF SendFinishes, NoSend, Times, KeyRecords, LeafWaits,
             LeafServes, InputHeld, ChangeServes, Known
  <1>13. CASE Tick
    <2>1. \A k, e : Serves(k, e) => Serves(k, e)'
      BY <1>13, TickServes, Zenon
    <2>2. Times'
      BY <1>13 DEF Tick, Times
    <2>3. LeafWaits'
      BY <1>13, KeyAssumption DEF Tick, LeafWaits, Times, Known
    <2> QED
      BY <1>13, <2>1, <2>2, <2>3 DEF Tick, KeyRecords, HeldServed, LeafServes, TreeApart,
             InputHeld, ChangeServes
  <1>14. CASE KeysRestart
    <2>1. \A k, e : Serves(k, e) => Serves(k, e)'
      BY <1>14, Zenon DEF KeysRestart, Serves, Known
    <2> QED
      BY <1>14, <2>1, Zenon DEF KeysRestart, NoIssue, NoSend, Times, KeyRecords, HeldServed, LeafWaits,
             LeafServes, TreeApart, InputHeld, ChangeServes
  <1>15. CASE UNCHANGED keyVars
    <2>1. \A k, e : Serves(k, e) => Serves(k, e)'
      BY <1>15 DEF keyVars, Serves, Known
    <2> QED
      BY <1>15, <2>1, Zenon DEF keyVars, Times, KeyRecords, HeldServed, LeafWaits,
             LeafServes, TreeApart, InputHeld, ChangeServes, Known
  <1> QED
    BY <1>1, <1>2, <1>3, <1>4, <1>5, <1>6, <1>7, <1>8, <1>9, <1>10, <1>11, <1>12, <1>13,
       <1>14, <1>15, Zenon DEF KeyNext

LEMMA KeyInvAlways == KeySpec => []KeyInv
  BY KeyInitInv, KeyStep, PTL DEF KeySpec

KeyBounds == clock \in 0..MaxClock /\ nextKey \in 1..(MaxKeys + 1)

LEMMA KeyBoundsAlways == KeySpec => []KeyBounds
  <1>1. KeyInit => KeyBounds
    BY KeyAssumption DEF KeyInit, KeyBounds
  <1>2. KeyBounds /\ [KeyNext]_keyVars => KeyBounds'
    <2> SUFFICES ASSUME KeyBounds, [KeyNext]_keyVars PROVE KeyBounds'
      OBVIOUS
    <2>1. CASE IssueStarts \/ IssueCleans \/ CosignVtxoTree \/ RegisterCosignedVtxoTree \/ IssueStores
               \/ UNCHANGED keyVars
      BY <2>1 DEF KeyBounds, keyVars, IssueStarts, IssueCleans, CosignVtxoTree, RegisterCosignedVtxoTree, IssueStores
    <2>2. CASE IssueLeafKey \/ IssueTreeKey
      BY <2>2, KeyAssumption DEF KeyBounds, IssueLeafKey, IssueTreeKey, StoreTweak
    <2>3. CASE SendChangeKey
      BY <2>3, KeyAssumption DEF KeyBounds, SendChangeKey, StoreTweak
    <2>4. CASE SendFetchesKey \/ SendCleans \/ SendFinishes \/ KeysRestart \/ \E v \in held : SendStarts(v)
      BY <2>4, Zenon DEF KeyBounds, SendFetchesKey, SendCleans, SendFinishes, KeysRestart, SendStarts
    <2>5. CASE Tick
      BY <2>5, KeyAssumption DEF KeyBounds, Tick
    <2> QED
      BY <2>1, <2>2, <2>3, <2>4, <2>5 DEF KeyNext
  <1> QED
    BY <1>1, <1>2, PTL DEF KeySpec

LEMMA KeyTypes == KeyInv /\ KeyBounds => KeyTypeOK
  <1> SUFFICES ASSUME KeyInv, KeyBounds PROVE KeyTypeOK
    BY Zenon
  <1>1. \A v \in held : v.key \in 1..MaxKeys /\ v.expiry \in Nat
    BY KeyAssumption DEF KeyInv, KeyBounds, HeldServed, Serves, Times
  <1>2. clock \in 0..MaxClock /\ tipHeight \in 0..clock
    BY DEF KeyInv, KeyBounds, Times
  <1> QED
    BY <1>1, <1>2 DEF KeyInv, KeyBounds, KeyTypeOK, Times, KeyRecords

(* The server can spend every vtxo of its pool until it expires, whatever  *)
(* the lifetime, as long as the ticks that bring no block and those that   *)
(* pass during key generation together do not exceed it.                   *)
THEOREM KeysKeptAlways == KeySpec => []KeysKept
  <1>1. KeyInv /\ KeyTypeOK => KeysKept
    BY DEF KeyInv, HeldServed, Serves, KeysKept
  <1> QED
    BY <1>1, KeyTypes, KeyInvAlways, KeyBoundsAlways, PTL
=============================================================================
