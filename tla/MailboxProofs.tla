---------------------------- MODULE MailboxProofs ----------------------------
(***************************************************************************)
(* What TLAPS proves about the mailbox.                                    *)
(***************************************************************************)
EXTENDS Mailbox, FiniteSetTheorems, WellFoundedInduction, TLAPS

(***************************************************************************)
(* Mailbox, for any posts, readers and callers.                            *)
(***************************************************************************)
(* Ranks in a finite set of numbers. *)
UpTo(S, x) == {y \in S : y <= x}

LEMMA LeastOf ==
    ASSUME NEW S, S \subseteq Nat, S # {}
    PROVE  \E n \in S : \A m \in S : n <= m
  <1>1. PICK n \in S : \A m \in S : ~(<<m, n>> \in OpToRel(<, Nat))
    BY WFMin, NatLessThanWellFounded, Zenon
  <1>2. \A m \in S : m < n => <<m, n>> \in OpToRel(<, Nat)
    BY DEF OpToRel
  <1>3. \A m \in S : ~(m < n)
    BY <1>1, <1>2, Zenon
  <1> QED
    BY <1>3

LEMMA UpToMember == \A S, x, y : y \in UpTo(S, x) <=> y \in S /\ y <= x
  BY Zenon DEF UpTo

LEMMA UpToFacts ==
    ASSUME NEW S, IsFiniteSet(S), NEW x
    PROVE  /\ IsFiniteSet(UpTo(S, x)) /\ Cardinality(UpTo(S, x)) \in Nat
           /\ Cardinality(UpTo(S, x)) <= Cardinality(S) /\ Cardinality(S) \in Nat
  BY FS_Subset, FS_CardinalityType DEF UpTo

(* A part of the set below which nothing is missing is followed by a next   *)
(* element.                                                                 *)
LEMMA NextRank ==
    ASSUME NEW S, IsFiniteSet(S), S \subseteq Nat, NEW L, L \subseteq S, L # S,
           \A y \in L, z \in S \ L : y < z
    PROVE  \E x \in S : Cardinality(UpTo(S, x)) = Cardinality(L) + 1
  <1>1. S \ L \subseteq Nat /\ S \ L # {}
    BY Zenon
  <1>2. PICK x \in S \ L : \A m \in S \ L : x <= m
    BY <1>1, LeastOf, Zenon
  <1>3. UpTo(S, x) = L \cup {x}
    <2>1. \A y \in S : y \in Nat
      OBVIOUS
    <2>2. \A y : y \in UpTo(S, x) <=> y \in S /\ y <= x
      BY UpToMember
    <2>3. ASSUME NEW y \in S PROVE y <= x <=> y \in L \/ y = x
      <3>1. CASE y \in L
        BY <1>2, <2>1, <3>1
      <3>2. CASE y \notin L
        BY <1>2, <2>1, <3>2
      <3> QED
        BY <3>1, <3>2
    <2> QED
      BY <1>2, <2>2, <2>3, Zenon
  <1>4. IsFiniteSet(L) /\ x \notin L
    BY <1>2, FS_Subset, Zenon
  <1>5. Cardinality(L \cup {x}) = Cardinality(L) + 1
    BY <1>4, FS_AddElement, Zenon
  <1> QED
    BY <1>2, <1>3, <1>5

LEMMA RankExists ==
    ASSUME NEW S, IsFiniteSet(S), S \subseteq Nat
    PROVE  \A i \in 1 .. Cardinality(S) : \E x \in S : Cardinality(UpTo(S, x)) = i
  <1> DEFINE N == Cardinality(S)
             Bad == {i \in 1 .. N : ~ \E x \in S : Cardinality(UpTo(S, x)) = i}
  <1>1. N \in Nat
    BY FS_CardinalityType
  <1>2. SUFFICES ASSUME Bad # {} PROVE FALSE
    OBVIOUS
  <1>3. Bad \subseteq Nat
    BY <1>1
  <1>4. PICK m \in Bad : \A k \in Bad : m <= k
    BY <1>2, <1>3, LeastOf, Zenon
  <1>5. m \in 1 .. N /\ ~ \E x \in S : Cardinality(UpTo(S, x)) = m
    BY <1>4
  <1>6. CASE m = 1
    <2>1. {} # S /\ Cardinality({}) = 0
      BY <1>1, <1>5, <1>6, FS_EmptySet
    <2>2. \E x \in S : Cardinality(UpTo(S, x)) = Cardinality({}) + 1
      BY <2>1, NextRank, Zenon
    <2> QED
      BY <1>5, <1>6, <2>1, <2>2
  <1>7. CASE m # 1
    <2>1. m - 1 \in 1 .. N /\ m - 1 < m /\ m - 1 \notin Bad
      BY <1>1, <1>3, <1>4, <1>5, <1>7
    <2>2. PICK x \in S : Cardinality(UpTo(S, x)) = m - 1
      BY <2>1
    <2>3. UpTo(S, x) \subseteq S /\ UpTo(S, x) # S /\ \A y \in UpTo(S, x), z \in S \ UpTo(S, x) : y < z
      <3>1. UpTo(S, x) # S
        BY <1>1, <1>5, <2>2
      <3> QED
        BY <3>1 DEF UpTo
    <2>4. \E z \in S : Cardinality(UpTo(S, z)) = (m - 1) + 1
      BY <2>2, <2>3, NextRank, Zenon
    <2> QED
      BY <1>1, <1>5, <2>4
  <1> QED
    BY <1>6, <1>7

(* The rank orders the elements. *)
LEMMA RankOrders ==
    ASSUME NEW S, IsFiniteSet(S), S \subseteq Nat, NEW x \in S, NEW y \in S
    PROVE  x < y <=> Cardinality(UpTo(S, x)) < Cardinality(UpTo(S, y))
  <1>1. ASSUME NEW a \in S, NEW b \in S, a <= b
        PROVE  Cardinality(UpTo(S, a)) <= Cardinality(UpTo(S, b))
    <2>1. UpTo(S, a) \subseteq UpTo(S, b)
      <3>1. \A z \in S : z \in Nat
        OBVIOUS
      <3>2. \A z \in S : z <= a => z <= b
        BY <1>1, <3>1
      <3> QED
        BY <3>2, UpToMember, ZenonT(60)
    <2> QED
      BY <2>1, UpToFacts, FS_Subset
  <1>2. ASSUME x < y PROVE Cardinality(UpTo(S, x)) < Cardinality(UpTo(S, y))
    <2>1. UpTo(S, x) \cup {y} \subseteq UpTo(S, y) /\ y \notin UpTo(S, x)
      <3>1. \A z \in S : z \in Nat
        OBVIOUS
      <3>2. y <= y /\ ~(y <= x) /\ \A z \in S : z <= x => z <= y
        BY <1>2, <3>1
      <3> QED
        BY <3>2, UpToMember, ZenonT(60)
    <2>2. Cardinality(UpTo(S, x) \cup {y}) = Cardinality(UpTo(S, x)) + 1
      BY <2>1, UpToFacts, FS_AddElement
    <2>3. Cardinality(UpTo(S, x) \cup {y}) <= Cardinality(UpTo(S, y))
      BY <2>1, UpToFacts, FS_Subset
    <2> QED
      BY <2>2, <2>3, UpToFacts
  <1>3. Cardinality(UpTo(S, x)) \in Nat /\ Cardinality(UpTo(S, y)) \in Nat
    BY UpToFacts
  <1>4. x \in Nat /\ y \in Nat
    OBVIOUS
  <1> QED
    BY <1>1, <1>2, <1>3, <1>4

-----------------------------------------------------------------------------
Entry == [cp : Nat, vtxos : SUBSET MailVtxos]
Row == [cp : Nat, vtxo : MailVtxos]

Ascending(s) == \A i, j \in 1 .. Len(s) : i < j => s[i].cp < s[j].cp

(* get_vtxos_mailbox gives the entries after a checkpoint in order, each    *)
(* with a row, and one for every row.                                       *)
LEMMA EntriesAfter ==
    ASSUME NEW cp \in Nat, lastCp \in Nat, rows \subseteq Row, \A row \in rows : row.cp \in 1 .. lastCp
    PROVE  /\ VtxosAfter(cp) \in Seq(Entry) /\ Ascending(VtxosAfter(cp))
           /\ \A i \in 1 .. Len(VtxosAfter(cp)) :
                  /\ VtxosAfter(cp)[i].cp > cp
                  /\ \E row \in rows : row.cp = VtxosAfter(cp)[i].cp
           /\ \A row \in rows : row.cp > cp =>
                  \E i \in 1 .. Len(VtxosAfter(cp)) :
                      VtxosAfter(cp)[i].cp = row.cp /\ row.vtxo \in VtxosAfter(cp)[i].vtxos
  <1> DEFINE new == {x \in rows : x.cp > cp}
             cps == {row.cp : row \in new}
             N == Cardinality(cps)
             C(i) == CHOOSE x \in cps : Cardinality({y \in cps : y <= x}) = i
             E(c) == [cp |-> c, vtxos |-> {row.vtxo : row \in {x \in rows : x.cp = c}}]
             s == VtxosAfter(cp)
  <1>1. IsFiniteSet(cps)
    <2>1. cps \subseteq 1 .. lastCp
      OBVIOUS
    <2>2. IsFiniteSet(1 .. lastCp)
      BY FS_Interval
    <2> HIDE DEF cps
    <2> QED
      BY <2>1, <2>2, FS_Subset, Zenon
  <1>2. \A c \in cps : c \in Nat /\ c > cp /\ \E row \in rows : row.cp = c
    BY DEF Row
  <1>3. \A row \in rows : row.cp > cp => row.cp \in cps
    OBVIOUS
  <1>4. s = [i \in 1 .. N |-> E(C(i))]
    BY DEF VtxosAfter
  <1>5. \A c : E(c).cp = c /\ \A row \in rows : row.cp = c => row.vtxo \in E(c).vtxos
    OBVIOUS
  <1>6. \A c \in cps : E(c) \in Entry
    <2>1. \A c : {row.vtxo : row \in {x \in rows : x.cp = c}} \subseteq MailVtxos
      BY DEF Row
    <2> QED
      BY <1>2, <2>1, Zenon DEF Entry
  <1> HIDE DEF cps
  <1>7. \A i \in 1 .. N : C(i) \in cps /\ Cardinality(UpTo(cps, C(i))) = i
    <2> SUFFICES ASSUME NEW i \in 1 .. N PROVE C(i) \in cps /\ Cardinality(UpTo(cps, C(i))) = i
      BY Zenon
    <2>1. cps \subseteq Nat
      BY <1>2
    <2>2. \E x \in cps : Cardinality(UpTo(cps, x)) = i
      BY <1>1, <2>1, RankExists, Zenon
    <2>3. \E x \in cps : Cardinality({y \in cps : y <= x}) = i
      BY <2>2 DEF UpTo
    <2>4. C(i) \in cps /\ Cardinality({y \in cps : y <= C(i)}) = i
      BY <2>3, Zenon
    <2> QED
      BY <2>4 DEF UpTo
  <1>8. cps \subseteq Nat /\ N \in Nat
    BY <1>1, <1>2, FS_CardinalityType
  <1> HIDE DEF C, E, N
  <1>9. \A i \in 1 .. N : s[i] = E(C(i)) /\ s[i].cp = C(i)
    BY <1>4, <1>5
  <1>10. s \in Seq(Entry) /\ Len(s) = N
    <2>1. \A i \in 1 .. N : E(C(i)) \in Entry
      BY <1>6, <1>7
    <2>2. s \in [1 .. N -> Entry]
      BY <1>4, <2>1
    <2> QED
      BY <1>8, <2>2
  <1> HIDE DEF s
  <1>11. Ascending(s)
    <2> SUFFICES ASSUME NEW i \in 1 .. N, NEW j \in 1 .. N, i < j PROVE s[i].cp < s[j].cp
      BY <1>10 DEF Ascending
    <2>1. C(i) \in cps /\ C(j) \in cps /\ Cardinality(UpTo(cps, C(i))) = i /\ Cardinality(UpTo(cps, C(j))) = j
      BY <1>7
    <2>2. C(i) < C(j) <=> i < j
      BY <1>1, <1>8, <2>1, RankOrders, Zenon
    <2> QED
      BY <1>9, <2>2
  <1>12. \A i \in 1 .. N : s[i].cp > cp /\ \E row \in rows : row.cp = s[i].cp
    BY <1>2, <1>7, <1>9
  <1>13. ASSUME NEW row \in rows, row.cp > cp
         PROVE  \E i \in 1 .. N : s[i].cp = row.cp /\ row.vtxo \in s[i].vtxos
    <2> DEFINE c == row.cp
               i == Cardinality(UpTo(cps, c))
    <2>1. c \in cps
      BY <1>3, <1>13
    <2>2. i \in Nat /\ i <= N
      BY <1>1, UpToFacts DEF N
    <2>3. i # 0
      <3>1. c \in UpTo(cps, c)
        BY <1>8, <2>1, UpToMember
      <3> QED
        BY <1>1, <3>1, UpToFacts, FS_EmptySet
    <2>4. i \in 1 .. N
      BY <1>8, <2>2, <2>3
    <2>5. C(i) = c
      <3>1. C(i) \in cps /\ Cardinality(UpTo(cps, C(i))) = i
        BY <1>7, <2>4
      <3>2. ~(C(i) < c) /\ ~(c < C(i))
        <4>1. C(i) < c <=> Cardinality(UpTo(cps, C(i))) < Cardinality(UpTo(cps, c))
          BY <1>1, <1>8, <2>1, <3>1, RankOrders, Zenon
        <4>2. c < C(i) <=> Cardinality(UpTo(cps, c)) < Cardinality(UpTo(cps, C(i)))
          BY <1>1, <1>8, <2>1, <3>1, RankOrders, Zenon
        <4> HIDE DEF c
        <4> QED
          BY <2>2, <3>1, <4>1, <4>2
      <3>3. C(i) \in Nat /\ c \in Nat
        BY <1>8, <2>1, <3>1, Zenon
      <3> HIDE DEF c, i
      <3> QED
        BY <3>2, <3>3
    <2> QED
      BY <1>5, <1>9, <2>4, <2>5
  <1> QED
    BY <1>10, <1>11, <1>12, <1>13 DEF s

-----------------------------------------------------------------------------
PostRec == [pc : {"new", "insert", "notify", "remove", "done"}, cp : Nat, at : Nat]
ReaderRec ==
    [pc : {"off", "wait", "fetch", "yield"}, processed : Nat, changed : BOOLEAN, entries : Seq(Entry),
     cp : Nat, got : Seq(Entry), connects : Nat]

MailTypes ==
    /\ lastCp \in Nat
    /\ rows \subseteq Row /\ \A row \in rows : row.cp \in 1 .. lastCp
    /\ post \in [PostCalls -> PostRec]
    /\ \A p \in PostCalls :
           /\ post[p].pc \in {"new", "insert"} => post[p].at \in 1 .. Len(Posts[p])
           /\ post[p].pc = "insert" => post[p].cp \in 1 .. lastCp
    /\ reader \in [Readers -> ReaderRec]

(* A reader has what lies up to its checkpoint, and its stream holds what   *)
(* comes next, both in order; last is the last checkpoint.                  *)
InLine(x, last) ==
    /\ x.cp <= last
    /\ Ascending(x.got) /\ \A i \in 1 .. Len(x.got) : x.got[i].cp <= x.cp
    /\ Ascending(x.entries)
    /\ \A i \in 1 .. Len(x.entries) : x.entries[i].cp > x.processed /\ x.entries[i].cp <= last
    /\ x.pc # "off" => x.processed = x.cp

(* Posts do not overlap and have one vtxo each. *)
SinglePosts == \A p \in PostCalls : Len(Posts[p]) = 1
Steady == mailMode.serial /\ SinglePosts

(* All the rows R up to the reader's checkpoint were received, and the      *)
(* stream skips none of them.                                               *)
Caught(x, R) ==
    \A row \in R : row.cp <= x.cp => \E i \in 1 .. Len(x.got) : row.vtxo \in x.got[i].vtxos
Ahead(x, R) ==
    \A row \in R, i \in 1 .. Len(x.entries) :
        x.processed < row.cp /\ row.cp <= x.entries[i].cp =>
            \E j \in 1 .. Len(x.entries) : x.entries[j].cp = row.cp /\ row.vtxo \in x.entries[j].vtxos

(* A row that the posts P are about to insert lies after all others and     *)
(* after what any reader knows.                                             *)
BeforePosts(x, P) ==
    \A p \in PostCalls : P[p].pc = "insert" =>
        x.cp < P[p].cp /\ \A i \in 1 .. Len(x.entries) : x.entries[i].cp < P[p].cp
RowsBefore(R, P) ==
    \A p \in PostCalls : P[p].pc = "insert" => \A row \in R : row.cp < P[p].cp
OnePost(P) ==
    \A p, q \in PostCalls : P[p].pc \notin {"new", "done"} /\ P[q].pc \notin {"new", "done"} => p = q

Served(x, R, P) == Caught(x, R) /\ Ahead(x, R) /\ BeforePosts(x, P)

MailInv ==
    /\ MailTypes
    /\ \A r \in Readers : InLine(reader[r], lastCp)
    /\ Steady => /\ \A r \in Readers : Served(reader[r], rows, post)
                 /\ RowsBefore(rows, post) /\ OnePost(post)

LEMMA MailInitInv == MailInit => MailInv
  <1> SUFFICES ASSUME MailInit PROVE MailInv
    OBVIOUS
  <1>1. NoStream \in ReaderRec
    BY DEF NoStream, ReaderRec
  <1>2. MailTypes
    <2>1. \A p \in PostCalls : 1 \in 1 .. Len(Posts[p])
      BY MailAssumption DEF PostCalls
    <2> QED
      BY <1>1, <2>1 DEF MailInit, MailTypes, PostRec
  <1>3. \A r \in Readers : reader[r] = NoStream
    BY DEF MailInit
  <1>4. rows = {} /\ lastCp = 0 /\ \A p \in PostCalls : post[p].pc = "new"
    BY DEF MailInit
  <1>5. InLine(NoStream, lastCp) /\ Served(NoStream, rows, post)
    BY <1>4 DEF Served, InLine, NoStream, Caught, Ahead, BeforePosts, Ascending
  <1> QED
    BY <1>2, <1>3, <1>4, <1>5 DEF MailInv, RowsBefore, OnePost

(* One reader moves. *)
LEMMA ReaderMoves ==
    ASSUME MailInv, NEW r \in Readers, NEW y \in ReaderRec, InLine(y, lastCp),
           Steady => Served(y, rows, post),
           reader' = [reader EXCEPT ![r] = y],
           UNCHANGED <<mailMode, lastCp, rows, post>>
    PROVE  MailInv'
  <1>1. /\ reader' \in [Readers -> ReaderRec]
        /\ \A q \in Readers : reader'[q] = IF q = r THEN y ELSE reader[q]
    BY DEF MailInv, MailTypes
  <1>2. MailTypes'
    BY <1>1 DEF MailInv, MailTypes
  <1> QED
    BY <1>1, <1>2 DEF MailInv, Steady

(* Updates of several fields of a reader's record. *)
LEMMA SubscribeRec ==
    ASSUME NEW x \in ReaderRec, NEW n, NEW y,
           y = [x EXCEPT !.pc = "wait", !.processed = x.cp, !.changed = TRUE, !.entries = <<>>, !.connects = n]
    PROVE  y = [pc |-> "wait", processed |-> x.cp, changed |-> TRUE, entries |-> <<>>,
                cp |-> x.cp, got |-> x.got, connects |-> n]
  BY Zenon DEF ReaderRec

LEMMA WakeRec ==
    ASSUME NEW x \in ReaderRec, NEW pc, NEW y, y = [x EXCEPT !.changed = FALSE, !.pc = pc]
    PROVE  y = [pc |-> pc, processed |-> x.processed, changed |-> FALSE, entries |-> x.entries,
                cp |-> x.cp, got |-> x.got, connects |-> x.connects]
  BY Zenon DEF ReaderRec

LEMMA FetchRec ==
    ASSUME NEW x \in ReaderRec, NEW s, NEW y, y = [x EXCEPT !.entries = s, !.pc = "yield"]
    PROVE  y = [pc |-> "yield", processed |-> x.processed, changed |-> x.changed, entries |-> s,
                cp |-> x.cp, got |-> x.got, connects |-> x.connects]
  BY Zenon DEF ReaderRec

LEMMA ReadRec ==
    ASSUME NEW x \in ReaderRec, NEW c, NEW g, NEW y, y = [x EXCEPT !.got = g, !.cp = c]
    PROVE  y = [pc |-> x.pc, processed |-> x.processed, changed |-> x.changed, entries |-> x.entries,
                cp |-> c, got |-> g, connects |-> x.connects]
  BY Zenon DEF ReaderRec

(* The stream's pc and changed have no part in what a reader is owed. *)
LEMMA SameServed ==
    ASSUME NEW x \in ReaderRec, NEW y \in ReaderRec, NEW last, NEW R, NEW P,
           y.cp = x.cp, y.got = x.got, y.processed = x.processed, y.entries = x.entries
    PROVE  /\ InLine(x, last) /\ (y.pc # "off" => x.pc # "off") => InLine(y, last)
           /\ Served(x, R, P) => Served(y, R, P)
  BY DEF InLine, Served, Caught, Ahead, BeforePosts

LEMMA EmptyAscends == Len(<<>>) = 0 /\ <<>> \in Seq(Entry) /\ Ascending(<<>>)
  BY DEF Ascending

LEMMA SubscribeStep ==
    ASSUME MailInv, NEW r \in Readers, Subscribe(r)
    PROVE  MailInv'
  <1> DEFINE x == reader[r]
             n == x.connects + 1
             y == [x EXCEPT !.pc = "wait", !.processed = x.cp, !.changed = TRUE, !.entries = <<>>, !.connects = n]
  <1>1. x \in ReaderRec /\ n \in Nat /\ InLine(x, lastCp) /\ (Steady => Served(x, rows, post))
    BY DEF MailInv, MailTypes, ReaderRec
  <1> HIDE DEF n
  <1>2. y = [pc |-> "wait", processed |-> x.cp, changed |-> TRUE, entries |-> <<>>,
             cp |-> x.cp, got |-> x.got, connects |-> n]
    BY <1>1, SubscribeRec, Zenon
  <1>3. reader' = [reader EXCEPT ![r] = y] /\ UNCHANGED <<mailMode, lastCp, rows, post>>
    BY DEF Subscribe, n
  <1> HIDE DEF y
  <1>4. y \in ReaderRec
    BY <1>1, <1>2, EmptyAscends DEF ReaderRec
  <1>5. y.pc = "wait" /\ y.processed = x.cp /\ y.entries = <<>> /\ y.cp = x.cp /\ y.got = x.got
    BY <1>2, Zenon
  <1>6. InLine(y, lastCp)
    BY <1>1, <1>5, EmptyAscends DEF InLine
  <1>7. Steady => Served(y, rows, post)
    BY <1>1, <1>5, EmptyAscends DEF Served, Caught, Ahead, BeforePosts
  <1> QED
    BY <1>3, <1>4, <1>6, <1>7, ReaderMoves, Zenon

LEMMA TipStep ==
    ASSUME MailInv, NEW r \in Readers, TipChanged(r)
    PROVE  MailInv'
  <1> DEFINE x == reader[r]
             pc == IF channel.value <= x.processed THEN "wait" ELSE "fetch"
             y == [x EXCEPT !.changed = FALSE, !.pc = pc]
  <1>1. x \in ReaderRec /\ InLine(x, lastCp) /\ (Steady => Served(x, rows, post)) /\ x.pc = "wait"
    BY DEF MailInv, MailTypes, TipChanged
  <1>2. pc \in {"wait", "fetch"}
    OBVIOUS
  <1> HIDE DEF pc
  <1>3. y = [pc |-> pc, processed |-> x.processed, changed |-> FALSE, entries |-> x.entries,
             cp |-> x.cp, got |-> x.got, connects |-> x.connects]
    BY <1>1, WakeRec, Zenon
  <1>4. reader' = [reader EXCEPT ![r] = y] /\ UNCHANGED <<mailMode, lastCp, rows, post>>
    BY Zenon DEF TipChanged, pc
  <1> HIDE DEF y
  <1>5. y \in ReaderRec /\ y.cp = x.cp /\ y.got = x.got /\ y.processed = x.processed /\ y.entries = x.entries
    BY <1>1, <1>2, <1>3 DEF ReaderRec
  <1> QED
    BY <1>1, <1>4, <1>5, SameServed, ReaderMoves, Zenon

LEMMA FetchStep ==
    ASSUME MailInv, NEW r \in Readers, FetchEntries(r)
    PROVE  MailInv'
  <1> DEFINE x == reader[r]
             s == VtxosAfter(x.processed)
             y == [x EXCEPT !.entries = s, !.pc = "yield"]
  <1>1. /\ x \in ReaderRec /\ InLine(x, lastCp) /\ (Steady => Served(x, rows, post)) /\ x.pc = "fetch"
        /\ x.processed \in Nat /\ MailTypes
    BY Zenon DEF MailInv, MailTypes, FetchEntries, ReaderRec
  <1>2. /\ s \in Seq(Entry) /\ Ascending(s)
        /\ \A i \in 1 .. Len(s) : s[i].cp > x.processed /\ \E row \in rows : row.cp = s[i].cp
        /\ \A row \in rows : row.cp > x.processed =>
               \E i \in 1 .. Len(s) : s[i].cp = row.cp /\ row.vtxo \in s[i].vtxos
    BY <1>1, EntriesAfter, Zenon DEF MailTypes
  <1>3. reader' = [reader EXCEPT ![r] = y] /\ UNCHANGED <<mailMode, lastCp, rows, post>>
    BY Zenon DEF FetchEntries
  <1> HIDE DEF s
  <1>4. y = [pc |-> "yield", processed |-> x.processed, changed |-> x.changed, entries |-> s,
             cp |-> x.cp, got |-> x.got, connects |-> x.connects]
    BY <1>1, FetchRec, Zenon
  <1> HIDE DEF y
  <1>5. y \in ReaderRec
    BY <1>1, <1>2, <1>4, Zenon DEF ReaderRec
  <1>6. y.pc = "yield" /\ y.processed = x.processed /\ y.entries = s /\ y.cp = x.cp /\ y.got = x.got
    BY <1>4
  <1>7. \A row \in rows : row.cp \in Nat /\ row.cp <= lastCp
    BY <1>1 DEF MailTypes
  <1>8. InLine(y, lastCp)
    BY <1>1, <1>2, <1>6, <1>7, Zenon DEF InLine
  <1>9. Steady => Served(y, rows, post)
    <2> SUFFICES ASSUME Steady PROVE Served(y, rows, post)
      OBVIOUS
    <2>1. Served(x, rows, post) /\ RowsBefore(rows, post)
      BY <1>1 DEF MailInv
    <2>2. \A row \in rows : x.processed < row.cp => row.cp > x.processed
      BY <1>1, <1>7
    <2>3. Ahead(y, rows)
      BY <1>2, <1>6, <2>2, Zenon DEF Ahead
    <2>4. BeforePosts(y, post)
      BY <1>2, <1>6, <2>1 DEF Served, BeforePosts, RowsBefore
    <2> QED
      BY <1>6, <2>1, <2>3, <2>4 DEF Served, Caught
  <1> QED
    BY <1>3, <1>5, <1>8, <1>9, ReaderMoves, Zenon

(* The checkpoints of entries are numbers. *)
LEMMA EntryCps == \A s \in Seq(Entry) : \A i \in 1 .. Len(s) : s[i] \in Entry /\ s[i].cp \in Nat
  <1> SUFFICES ASSUME NEW s \in Seq(Entry), NEW i \in 1 .. Len(s) PROVE s[i] \in Entry /\ s[i].cp \in Nat
    OBVIOUS
  <1>1. s[i] \in Entry
    OBVIOUS
  <1> QED
    BY <1>1 DEF Entry

LEMMA YieldStep ==
    ASSUME MailInv, NEW r \in Readers, YieldEntry(r)
    PROVE  MailInv'
  <1> DEFINE x == reader[r]
             s == x.entries
  <1>1. /\ x \in ReaderRec /\ InLine(x, lastCp) /\ (Steady => Served(x, rows, post)) /\ x.pc = "yield"
        /\ x.processed \in Nat /\ x.cp = x.processed /\ MailTypes
    BY Zenon DEF MailInv, MailTypes, YieldEntry, ReaderRec, InLine
  <1>2. CASE s = <<>>
    <2> DEFINE y == [x EXCEPT !.pc = "wait"]
    <2>1. y \in ReaderRec /\ y.cp = x.cp /\ y.got = x.got /\ y.processed = x.processed /\ y.entries = x.entries
      BY <1>1 DEF ReaderRec
    <2>2. reader' = [reader EXCEPT ![r] = y] /\ UNCHANGED <<mailMode, lastCp, rows, post>>
      BY <1>2 DEF YieldEntry
    <2> HIDE DEF y
    <2> QED
      BY <1>1, <2>1, <2>2, SameServed, ReaderMoves, Zenon
  <1>3. CASE s # <<>>
    <2> DEFINE e == Head(s)
               g == Append(x.got, e)
               t == Tail(s)
               c == e.cp
               y == [x EXCEPT !.processed = c, !.cp = c, !.got = g, !.entries = t]
    <2>1. s \in Seq(Entry) /\ x.got \in Seq(Entry)
      BY <1>1 DEF ReaderRec
    <2>2. /\ Len(s) \in Nat /\ Len(s) >= 1 /\ e = s[1] /\ e \in Entry
          /\ t \in Seq(Entry) /\ Len(t) = Len(s) - 1 /\ \A i \in 1 .. Len(t) : t[i] = s[i + 1]
      BY <1>3, <2>1
    <2>3. /\ g \in Seq(Entry) /\ Len(x.got) \in Nat /\ Len(g) = Len(x.got) + 1 /\ g[Len(x.got) + 1] = e
          /\ \A i \in 1 .. Len(x.got) : g[i] = x.got[i]
      BY <2>1, <2>2
    <2>4. reader' = [reader EXCEPT ![r] = y] /\ UNCHANGED <<mailMode, lastCp, rows, post>>
      BY <1>3, Zenon DEF YieldEntry
    <2>5. c \in Nat /\ c = s[1].cp
      BY <2>2 DEF Entry
    <2> HIDE DEF e, g, t, c, x
    <2>y. y = [x EXCEPT !.processed = c, !.cp = c, !.got = g, !.entries = t]
      OBVIOUS
    <2> HIDE DEF y
    <2>6. y = [pc |-> x.pc, processed |-> c, changed |-> x.changed, entries |-> t,
               cp |-> c, got |-> g, connects |-> x.connects]
      BY <1>1, <2>y, Zenon DEF ReaderRec
    <2>7. y \in ReaderRec
      BY <1>1, <2>2, <2>3, <2>5, <2>6, Zenon DEF ReaderRec
    <2>8. y.pc = "yield" /\ y.processed = c /\ y.entries = t /\ y.cp = c /\ y.got = g
      BY <1>1, <2>6
    <2>9. \A i \in 1 .. Len(s) : s[i].cp \in Nat
      BY <2>1, EntryCps, Zenon
    <2>10. \A i \in 1 .. Len(x.got) : x.got[i].cp \in Nat
      BY <2>1, EntryCps, Zenon
    <2>11. c > x.processed /\ c <= lastCp /\ \A i \in 1 .. Len(t) : i + 1 \in 1 .. Len(s) /\ c < t[i].cp
      BY <1>1, <2>2, <2>5, <2>9 DEF InLine, Ascending
    <2>12. \A i \in 1 .. Len(g) : i \in 1 .. Len(x.got) \/ i = Len(x.got) + 1
      BY <2>3
    <2>13. e.cp = c
      BY Zenon DEF c
    <2>14. InLine(y, lastCp)
      <3>1. Ascending(g) /\ \A i \in 1 .. Len(g) : g[i].cp <= c
        <4>1. Ascending(x.got) /\ \A i \in 1 .. Len(x.got) : x.got[i].cp <= x.processed
          BY <1>1 DEF InLine
        <4>2. \A i \in 1 .. Len(x.got) : g[i].cp < c /\ g[i].cp \in Nat
          <5> SUFFICES ASSUME NEW i \in 1 .. Len(x.got) PROVE g[i].cp < c /\ g[i].cp \in Nat
            BY Zenon
          <5>1. g[i] = x.got[i]
            BY <2>3
          <5>2. x.got[i].cp \in Nat /\ x.got[i].cp <= x.processed
            BY <2>10, <4>1, Zenon
          <5>3. x.processed \in Nat /\ c \in Nat /\ x.processed < c
            BY <1>1, <2>5, <2>11 DEF ReaderRec
          <5> QED
            BY <5>1, <5>2, <5>3
        <4>3. \A i \in 1 .. Len(g) : g[i].cp <= c
          BY <2>3, <2>5, <2>12, <2>13, <4>2
        <4> SUFFICES ASSUME NEW i \in 1 .. Len(g), NEW j \in 1 .. Len(g), i < j PROVE g[i].cp < g[j].cp
          BY <4>3 DEF Ascending
        <4>4. i \in 1 .. Len(x.got)
          BY <2>3
        <4>5. CASE j \in 1 .. Len(x.got)
          BY <2>3, <4>1, <4>4, <4>5 DEF Ascending
        <4>6. CASE j = Len(x.got) + 1
          BY <2>3, <2>13, <4>2, <4>4, <4>6, Zenon
        <4> QED
          BY <2>12, <4>5, <4>6
      <3>2. Ascending(t)
        <4>1. Ascending(s)
          BY <1>1 DEF InLine
        <4> SUFFICES ASSUME NEW i \in 1 .. Len(t), NEW j \in 1 .. Len(t), i < j PROVE t[i].cp < t[j].cp
          BY DEF Ascending
        <4>2. i + 1 \in 1 .. Len(s) /\ j + 1 \in 1 .. Len(s) /\ i + 1 < j + 1
          BY <2>2
        <4> QED
          BY <2>2, <4>1, <4>2, Zenon DEF Ascending
      <3>3. \A i \in 1 .. Len(t) : t[i].cp > c /\ t[i].cp <= lastCp
        BY <1>1, <2>2, <2>5, <2>9, <2>11, Zenon DEF InLine
      <3> QED
        BY <2>8, <2>11, <3>1, <3>2, <3>3 DEF InLine
    <2>15. Steady => Served(y, rows, post)
      <3> SUFFICES ASSUME Steady PROVE Served(y, rows, post)
        OBVIOUS
      <3>1. Caught(x, rows) /\ Ahead(x, rows) /\ BeforePosts(x, post)
        BY <1>1 DEF Served
      <3>2. \A row \in rows : row.cp \in Nat
        BY <1>1 DEF MailTypes
      <3>3. ASSUME NEW row \in rows, x.processed < row.cp, NEW i \in 1 .. Len(s), row.cp <= s[i].cp
            PROVE  \E j \in 1 .. Len(s) : s[j].cp = row.cp /\ row.vtxo \in s[j].vtxos
        BY <3>1, <3>3 DEF Ahead
      <3>4. Caught(y, rows)
        <4> SUFFICES ASSUME NEW row \in rows, row.cp <= c
                     PROVE  \E i \in 1 .. Len(g) : row.vtxo \in g[i].vtxos
          BY <2>8 DEF Caught
        <4>1. CASE row.cp <= x.cp
          <5>1. PICK i \in 1 .. Len(x.got) : row.vtxo \in x.got[i].vtxos
            BY <3>1, <4>1 DEF Caught
          <5> QED
            BY <2>3, <5>1
        <4>2. CASE ~(row.cp <= x.cp)
          <5>1. 1 \in 1 .. Len(s) /\ x.processed < row.cp
            BY <1>1, <2>2, <3>2, <4>2
          <5>2. PICK j \in 1 .. Len(s) : s[j].cp = row.cp /\ row.vtxo \in s[j].vtxos
            BY <2>5, <3>3, <5>1
          <5>3. j = 1
            <6>1. Ascending(s)
              BY <1>1 DEF InLine
            <6>2. j # 1 => s[1].cp < s[j].cp
              BY <2>2, <6>1 DEF Ascending
            <6> QED
              BY <2>5, <3>2, <5>2, <6>2
          <5> QED
            BY <2>2, <2>3, <5>2, <5>3
        <4> QED
          BY <4>1, <4>2
      <3>5. Ahead(y, rows)
        <4> SUFFICES ASSUME NEW row \in rows, NEW i \in 1 .. Len(t), c < row.cp, row.cp <= t[i].cp
                     PROVE  \E j \in 1 .. Len(t) : t[j].cp = row.cp /\ row.vtxo \in t[j].vtxos
          BY <2>8, Zenon DEF Ahead
        <4>1. PICK j \in 1 .. Len(s) : s[j].cp = row.cp /\ row.vtxo \in s[j].vtxos
          <5>1. i + 1 \in 1 .. Len(s) /\ row.cp <= s[i + 1].cp
            BY <2>2, <2>11, Zenon
          <5>2. x.processed < row.cp
            BY <1>1, <2>5, <2>11, <3>2
          <5> QED
            BY <3>3, <5>1, <5>2, Zenon
        <4>2. j # 1
          BY <2>5, <3>2, <4>1
        <4>3. j - 1 \in 1 .. Len(t) /\ (j - 1) + 1 = j
          BY <2>2, <4>2
        <4> QED
          BY <2>2, <4>1, <4>3, Zenon
      <3>6. BeforePosts(y, post)
        BY <2>2, <2>5, <2>8, <2>11, <3>1 DEF BeforePosts
      <3> QED
        BY <3>4, <3>5, <3>6 DEF Served
    <2> QED
      BY <2>4, <2>7, <2>14, <2>15, ReaderMoves, Zenon
  <1> QED
    BY <1>2, <1>3

LEMMA DisconnectStep ==
    ASSUME MailInv, NEW r \in Readers, Disconnect(r)
    PROVE  MailInv'
  <1> DEFINE x == reader[r]
             y == [NoStream EXCEPT !.cp = x.cp, !.got = x.got, !.connects = x.connects]
  <1>1. x \in ReaderRec /\ InLine(x, lastCp) /\ (Steady => Served(x, rows, post))
    BY DEF MailInv, MailTypes
  <1>3. reader' = [reader EXCEPT ![r] = y] /\ UNCHANGED <<mailMode, lastCp, rows, post>>
    BY Zenon DEF Disconnect
  <1> DEFINE c == x.cp
             g == x.got
             n == x.connects
  <1>y. y = [NoStream EXCEPT !.cp = c, !.got = g, !.connects = n]
    OBVIOUS
  <1>z. c = x.cp /\ g = x.got /\ n = x.connects
    OBVIOUS
  <1> HIDE DEF y, x, c, g, n
  <1>2. y = [pc |-> "off", processed |-> 0, changed |-> FALSE, entries |-> <<>>,
             cp |-> c, got |-> g, connects |-> n]
    BY <1>y, Zenon DEF NoStream
  <1>4. y \in ReaderRec
    BY <1>1, <1>2, <1>z, EmptyAscends, Zenon DEF ReaderRec
  <1>5. y.pc = "off" /\ y.processed = 0 /\ y.entries = <<>> /\ y.cp = x.cp /\ y.got = x.got
    BY <1>2, <1>z, Zenon
  <1>6. InLine(y, lastCp)
    BY <1>1, <1>5, EmptyAscends DEF InLine
  <1>7. Steady => Served(y, rows, post)
    BY <1>1, <1>5, EmptyAscends DEF Served, Caught, Ahead, BeforePosts
  <1> QED
    BY <1>3, <1>4, <1>6, <1>7, ReaderMoves, Zenon

LEMMA ReadStep ==
    ASSUME MailInv, NEW r \in Readers, ReadMailbox(r)
    PROVE  MailInv'
  <1> DEFINE x == reader[r]
             s == VtxosAfter(x.cp)
             g == x.got \o s
             c == s[Len(s)].cp
             y == [x EXCEPT !.got = g, !.cp = c]
  <1>1. /\ x \in ReaderRec /\ InLine(x, lastCp) /\ (Steady => Served(x, rows, post)) /\ x.pc = "off"
        /\ x.cp \in Nat /\ x.got \in Seq(Entry) /\ MailTypes
    BY Zenon DEF MailInv, MailTypes, ReadMailbox, ReaderRec, Connected
  <1>2. /\ s \in Seq(Entry) /\ Ascending(s)
        /\ \A i \in 1 .. Len(s) : s[i].cp > x.cp /\ \E row \in rows : row.cp = s[i].cp
        /\ \A row \in rows : row.cp > x.cp =>
               \E i \in 1 .. Len(s) : s[i].cp = row.cp /\ row.vtxo \in s[i].vtxos
    BY <1>1, EntriesAfter, Zenon DEF MailTypes
  <1>3. s # <<>> /\ reader' = [reader EXCEPT ![r] = y] /\ UNCHANGED <<mailMode, lastCp, rows, post>>
    BY Zenon DEF ReadMailbox
  <1> HIDE DEF s, x
  <1>4. Len(s) \in Nat /\ Len(s) \in 1 .. Len(s)
    BY <1>2, <1>3
  <1>a. c \in Nat
    BY <1>2, <1>4, EntryCps, Zenon
  <1>5. /\ g \in Seq(Entry) /\ Len(x.got) \in Nat /\ Len(g) = Len(x.got) + Len(s)
        /\ \A i \in 1 .. Len(x.got) : i \in 1 .. Len(g) /\ g[i] = x.got[i]
        /\ \A i \in 1 .. Len(s) : Len(x.got) + i \in 1 .. Len(g) /\ g[Len(x.got) + i] = s[i]
    BY <1>1, <1>2
  <1> HIDE DEF g, c
  <1>6. y = [pc |-> x.pc, processed |-> x.processed, changed |-> x.changed, entries |-> x.entries,
             cp |-> c, got |-> g, connects |-> x.connects]
    BY <1>1, ReadRec, Zenon
  <1> HIDE DEF y
  <1>7. y \in ReaderRec
    BY <1>1, <1>a, <1>5, <1>6 DEF ReaderRec
  <1>8. y.pc = "off" /\ y.processed = x.processed /\ y.entries = x.entries /\ y.cp = c /\ y.got = g
    BY <1>1, <1>6
  <1>9. \A row \in rows : row.cp \in Nat /\ row.cp <= lastCp
    BY <1>1 DEF MailTypes
  <1>10. \A i \in 1 .. Len(s) : s[i].cp \in Nat /\ s[i].cp > x.cp /\ s[i].cp <= c
    <2> SUFFICES ASSUME NEW i \in 1 .. Len(s) PROVE s[i].cp \in Nat /\ s[i].cp > x.cp /\ s[i].cp <= c
      OBVIOUS
    <2>1. s[i].cp \in Nat
      BY <1>2, EntryCps, Zenon
    <2>2. i = Len(s) \/ i < Len(s)
      BY <1>4
    <2>3. i < Len(s) => s[i].cp < s[Len(s)].cp
      BY <1>2, <1>4, Zenon DEF Ascending
    <2> QED
      BY <1>2, <1>a, <2>1, <2>2, <2>3 DEF c
  <1>11. c <= lastCp /\ c > x.cp /\ \E row \in rows : row.cp = c
    BY <1>2, <1>4, <1>9, Zenon DEF c
  <1>12. \A i \in 1 .. Len(x.got) : x.got[i].cp \in Nat /\ x.got[i].cp <= x.cp
    <2>1. \A i \in 1 .. Len(x.got) : x.got[i].cp \in Nat
      BY <1>1, EntryCps, Zenon
    <2> QED
      BY <1>1, <2>1 DEF InLine
  <1>13. \A i \in 1 .. Len(g) :
             \/ i \in 1 .. Len(x.got) /\ g[i] = x.got[i]
             \/ \E k \in 1 .. Len(s) : i = Len(x.got) + k /\ g[i] = s[k]
    <2> SUFFICES ASSUME NEW i \in 1 .. Len(g), i \notin 1 .. Len(x.got)
                 PROVE  \E k \in 1 .. Len(s) : i = Len(x.got) + k /\ g[i] = s[k]
      BY <1>5, Zenon
    <2>1. i - Len(x.got) \in 1 .. Len(s) /\ i = Len(x.got) + (i - Len(x.got))
      BY <1>4, <1>5
    <2> QED
      BY <1>5, <2>1, Zenon
  <1>14. InLine(y, lastCp)
    <2>1. \A i \in 1 .. Len(g) : g[i].cp <= c
      <3> SUFFICES ASSUME NEW i \in 1 .. Len(g) PROVE g[i].cp <= c
        OBVIOUS
      <3>1. CASE i \in 1 .. Len(x.got) /\ g[i] = x.got[i]
        BY <1>1, <1>a, <1>11, <1>12, <3>1
      <3>2. CASE \E k \in 1 .. Len(s) : i = Len(x.got) + k /\ g[i] = s[k]
        BY <1>10, <3>2
      <3> QED
        BY <1>13, <3>1, <3>2, Zenon
    <2>2. Ascending(g)
      <3> SUFFICES ASSUME NEW i \in 1 .. Len(g), NEW j \in 1 .. Len(g), i < j PROVE g[i].cp < g[j].cp
        BY DEF Ascending
      <3>1. CASE j \in 1 .. Len(x.got)
        <4>1. i \in 1 .. Len(x.got)
          BY <1>5, <3>1
        <4> QED
          BY <1>1, <1>5, <3>1, <4>1, Zenon DEF InLine, Ascending
      <3>2. CASE j \notin 1 .. Len(x.got)
        <4>1. PICK k \in 1 .. Len(s) : j = Len(x.got) + k /\ g[j] = s[k]
          BY <1>13, <3>2
        <4>2. CASE i \in 1 .. Len(x.got)
          <5>1. g[i] = x.got[i] /\ g[i].cp \in Nat /\ g[i].cp <= x.cp
            BY <1>5, <1>12, <4>2, Zenon
          <5>2. g[j].cp \in Nat /\ g[j].cp > x.cp
            BY <1>10, <4>1
          <5> QED
            BY <1>1, <5>1, <5>2
        <4>3. CASE i \notin 1 .. Len(x.got)
          <5>1. PICK l \in 1 .. Len(s) : i = Len(x.got) + l /\ g[i] = s[l]
            BY <1>13, <4>3
          <5>2. l < k
            BY <1>4, <1>5, <4>1, <5>1
          <5> QED
            BY <1>2, <4>1, <5>1, <5>2 DEF Ascending
        <4> QED
          BY <4>2, <4>3
      <3> QED
        BY <3>1, <3>2, Zenon
    <2> QED
      BY <1>1, <1>8, <1>11, <2>1, <2>2, Zenon DEF InLine
  <1>15. Steady => Served(y, rows, post)
    <2> SUFFICES ASSUME Steady PROVE Served(y, rows, post)
      OBVIOUS
    <2>1. Caught(x, rows) /\ Ahead(x, rows) /\ BeforePosts(x, post) /\ RowsBefore(rows, post)
      BY <1>1 DEF Served, MailInv
    <2>2. Caught(y, rows)
      <3> SUFFICES ASSUME NEW row \in rows PROVE \E i \in 1 .. Len(g) : row.vtxo \in g[i].vtxos
        BY <1>8 DEF Caught
      <3>1. CASE row.cp <= x.cp
        BY <1>5, <2>1, <3>1, Zenon DEF Caught
      <3>2. CASE ~(row.cp <= x.cp)
        <4>1. PICK i \in 1 .. Len(s) : row.vtxo \in s[i].vtxos
          BY <1>1, <1>2, <1>9, <3>2
        <4> QED
          BY <1>5, <4>1, Zenon
      <3> QED
        BY <3>1, <3>2
    <2>3. Ahead(y, rows)
      BY <1>8, <2>1 DEF Ahead
    <2>4. BeforePosts(y, post)
      BY <1>8, <1>11, <2>1 DEF BeforePosts, RowsBefore
    <2> QED
      BY <2>2, <2>3, <2>4 DEF Served
  <1> QED
    BY <1>3, <1>7, <1>14, <1>15, ReaderMoves, Zenon

(* A post call goes on after its inserts; the readers stay where they are. *)
LEMMA PostMoves ==
    ASSUME MailInv, NEW p \in PostCalls, NEW w \in PostRec, post' = [post EXCEPT ![p] = w],
           w.pc \notin {"new", "insert"}, post[p].pc \notin {"new", "done"},
           UNCHANGED <<mailMode, lastCp, rows>>, reader' \in [Readers -> ReaderRec],
           \A r \in Readers : /\ reader'[r].cp = reader[r].cp /\ reader'[r].got = reader[r].got
                              /\ reader'[r].processed = reader[r].processed
                              /\ reader'[r].entries = reader[r].entries /\ reader'[r].pc = reader[r].pc
    PROVE  MailInv'
  <1>1. MailTypes
    BY DEF MailInv
  <1>2. post' \in [PostCalls -> PostRec] /\ post'[p] = w /\ \A q \in PostCalls \ {p} : post'[q] = post[q]
    BY <1>1 DEF MailTypes
  <1>3. MailTypes'
    BY <1>1, <1>2, Zenon DEF MailTypes
  <1>4. \A r \in Readers : reader[r] \in ReaderRec /\ reader'[r] \in ReaderRec
    BY <1>1 DEF MailTypes
  <1>5. \A r \in Readers : InLine(reader'[r], lastCp)
    BY <1>4, SameServed, Zenon DEF MailInv
  <1>6. Steady' <=> Steady
    BY Zenon DEF Steady
  <1>7. ASSUME Steady, NEW r \in Readers PROVE Served(reader'[r], rows, post')
    <2>1. Served(reader'[r], rows, post)
      BY <1>4, <1>7, SameServed, Zenon DEF MailInv
    <2> QED
      BY <1>2, <2>1 DEF Served, BeforePosts
  <1>8. Steady => RowsBefore(rows, post')
    BY <1>2, Zenon DEF MailInv, RowsBefore
  <1>9. Steady => OnePost(post')
    BY <1>2, Zenon DEF MailInv, OnePost
  <1> QED
    BY <1>3, <1>5, <1>6, <1>7, <1>8, <1>9, Zenon DEF MailInv

LEMMA CheckpointStep ==
    ASSUME MailInv, NEW p \in PostCalls, NextCheckpoint(p)
    PROVE  MailInv'
  <1> DEFINE n == lastCp + 1
             w == [post[p] EXCEPT !.pc = "insert", !.cp = n]
  <1>1. MailTypes /\ lastCp \in Nat /\ n \in Nat /\ lastCp' = n /\ post[p].pc = "new"
    BY DEF MailInv, MailTypes, NextCheckpoint
  <1>2. post[p] \in PostRec
    BY <1>1, Zenon DEF MailTypes
  <1>3. post' = [post EXCEPT ![p] = w] /\ UNCHANGED <<mailMode, rows, reader>>
    BY Zenon DEF NextCheckpoint
  <1>n. n > lastCp /\ n \in 1 .. n
    BY <1>1
  <1> HIDE DEF n
  <1>4. w \in PostRec /\ w.pc = "insert" /\ w.cp = n /\ w.at = post[p].at
    BY <1>1, <1>2, Zenon DEF PostRec
  <1> HIDE DEF w
  <1>5. post' \in [PostCalls -> PostRec] /\ post'[p] = w /\ \A q \in PostCalls \ {p} : post'[q] = post[q]
    BY <1>1, <1>3, <1>4 DEF MailTypes
  <1>6. MailTypes'
    <2>1. \A c : c \in 1 .. lastCp => c \in 1 .. n
      BY <1>1, <1>n
    <2> QED
      BY <1>1, <1>3, <1>4, <1>5, <1>n, <2>1 DEF MailTypes
  <1>7. \A r \in Readers : reader[r] \in ReaderRec /\ reader[r].cp \in Nat /\ reader[r].entries \in Seq(Entry)
    BY <1>1 DEF MailTypes, ReaderRec
  <1>8. \A r \in Readers : \A i \in 1 .. Len(reader[r].entries) : reader[r].entries[i].cp \in Nat
    BY <1>7, EntryCps, Zenon
  <1>9. \A r \in Readers : InLine(reader[r], lastCp)
    BY Zenon DEF MailInv
  <1>10. \A r \in Readers :
             reader[r].cp < n /\ \A i \in 1 .. Len(reader[r].entries) : reader[r].entries[i].cp < n
    BY <1>1, <1>7, <1>8, <1>9, <1>n DEF InLine
  <1>11. \A r \in Readers : InLine(reader[r], n)
    BY <1>1, <1>7, <1>8, <1>9, <1>10 DEF InLine
  <1>12. Steady' => Steady /\ \A q \in PostCalls : post[q].pc \in {"new", "done"}
    BY <1>3 DEF Steady, NextCheckpoint
  <1>13. ASSUME Steady', NEW r \in Readers PROVE Served(reader[r], rows, post')
    <2>1. Served(reader[r], rows, post)
      BY <1>12, <1>13, Zenon DEF MailInv
    <2> QED
      BY <1>4, <1>5, <1>10, <2>1, Zenon DEF Served, BeforePosts
  <1>14. Steady' => RowsBefore(rows, post')
    <2>1. \A row \in rows : row.cp < n
      BY <1>1, <1>n DEF MailTypes
    <2> QED
      BY <1>4, <1>5, <1>12, <2>1 DEF MailInv, RowsBefore
  <1>15. Steady' => OnePost(post')
    BY <1>5, <1>12 DEF OnePost
  <1> QED
    BY <1>1, <1>3, <1>6, <1>11, <1>13, <1>14, <1>15, Zenon DEF MailInv

LEMMA InsertStep ==
    ASSUME MailInv, NEW p \in PostCalls, InsertRow(p)
    PROVE  MailInv'
  <1> DEFINE pc == IF post[p].at = Len(Posts[p]) THEN "notify" ELSE "insert"
             a == post[p].at + 1
             w == [post[p] EXCEPT !.at = a, !.pc = pc]
             new == [cp |-> post[p].cp, vtxo |-> Posts[p][post[p].at]]
  <1>1. /\ MailTypes /\ post[p].pc = "insert" /\ post[p].at \in 1 .. Len(Posts[p]) /\ post[p].cp \in 1 .. lastCp
        /\ post[p] \in PostRec
    <2>1. MailTypes /\ post[p].pc = "insert"
      BY DEF MailInv, InsertRow
    <2>2. post[p] \in PostRec
      BY <2>1 DEF MailTypes
    <2>3. post[p].pc \in {"new", "insert"}
      BY <2>1
    <2>4. post[p].at \in 1 .. Len(Posts[p]) /\ post[p].cp \in 1 .. lastCp
      BY <2>1, <2>3, Zenon DEF MailTypes
    <2> QED
      BY <2>1, <2>2, <2>4
  <1>2. /\ post' = [post EXCEPT ![p] = w] /\ rows' = rows \cup {new}
        /\ UNCHANGED <<mailMode, lastCp, reader>>
    BY Zenon DEF InsertRow
  <1>3. new \in Row /\ new.cp \in 1 .. lastCp /\ new.cp = post[p].cp
    <2>1. Posts[p] \in Seq(Range(Posts[p])) /\ Range(Posts[p]) \subseteq MailVtxos
      BY MailAssumption DEF PostCalls, MailVtxos
    <2>2. Posts[p][post[p].at] \in Range(Posts[p])
      BY <1>1, <2>1
    <2> QED
      BY <1>1, <2>1, <2>2 DEF Row, PostRec
  <1>4. /\ a \in Nat /\ pc \in {"notify", "insert"} /\ (SinglePosts => pc = "notify")
        /\ pc = "insert" => a \in 1 .. Len(Posts[p])
    <2>1. Len(Posts[p]) \in Nat
      BY MailAssumption DEF PostCalls
    <2>2. a \in Nat /\ (post[p].at # Len(Posts[p]) => a \in 1 .. Len(Posts[p]))
      BY <1>1, <2>1
    <2>3. SinglePosts => post[p].at = Len(Posts[p])
      BY <1>1 DEF SinglePosts
    <2> QED
      BY <2>2, <2>3
  <1> HIDE DEF a, pc, new
  <1>5. w \in PostRec /\ w.pc = pc /\ w.at = a /\ w.cp = post[p].cp
    BY <1>1, <1>4, Zenon DEF PostRec
  <1> HIDE DEF w
  <1>6. post' \in [PostCalls -> PostRec] /\ post'[p] = w /\ \A q \in PostCalls \ {p} : post'[q] = post[q]
    BY <1>1, <1>2, <1>5, Zenon DEF MailTypes
  <1>7. MailTypes'
    <2>1. rows' \subseteq Row /\ \A row \in rows' : row.cp \in 1 .. lastCp
      BY <1>1, <1>2, <1>3 DEF MailTypes
    <2> QED
      BY <1>1, <1>2, <1>4, <1>5, <1>6, <2>1 DEF MailTypes
  <1>8. \A r \in Readers : InLine(reader[r], lastCp)
    BY DEF MailInv
  <1>9. Steady' => Steady /\ SinglePosts
    BY <1>2 DEF Steady
  <1>10. \A r \in Readers : reader[r].cp \in Nat /\ reader[r].entries \in Seq(Entry)
    BY <1>1 DEF MailTypes, ReaderRec
  <1>11. \A r \in Readers : \A i \in 1 .. Len(reader[r].entries) : reader[r].entries[i].cp \in Nat
    BY <1>10, EntryCps, Zenon
  <1>12. ASSUME Steady, \A q \in PostCalls : post'[q].pc = "insert" => post[q] = post'[q], NEW r \in Readers
         PROVE  Served(reader[r], rows', post')
    <2>1. Caught(reader[r], rows) /\ Ahead(reader[r], rows) /\ BeforePosts(reader[r], post)
      BY <1>12, Zenon DEF MailInv, Served
    <2>2. reader[r].cp < new.cp /\ \A i \in 1 .. Len(reader[r].entries) : reader[r].entries[i].cp < new.cp
      BY <1>1, <1>3, <2>1, Zenon DEF BeforePosts
    <2>3. ~(new.cp <= reader[r].cp)
      BY <1>3, <1>10, <2>2
    <2>4. \A i \in 1 .. Len(reader[r].entries) : ~(new.cp <= reader[r].entries[i].cp)
      BY <1>3, <1>11, <2>2
    <2>5. Caught(reader[r], rows')
      BY <1>2, <2>1, <2>3, Zenon DEF Caught
    <2>6. Ahead(reader[r], rows')
      BY <1>2, <2>1, <2>4, Zenon DEF Ahead
    <2>7. BeforePosts(reader[r], post')
      BY <1>12, <2>1, Zenon DEF BeforePosts
    <2> QED
      BY <2>5, <2>6, <2>7, Zenon DEF Served
  <1>13. Steady => \A q \in PostCalls : post'[q].pc # "insert"
    BY <1>1, <1>4, <1>5, <1>6, Zenon DEF MailInv, OnePost, Steady
  <1>14. Steady => OnePost(post')
    BY <1>1, <1>6 DEF MailInv, OnePost
  <1>15. Steady => RowsBefore(rows', post')
    BY <1>13, Zenon DEF RowsBefore
  <1> QED
    BY <1>2, <1>7, <1>8, <1>9, <1>12, <1>13, <1>14, <1>15, Zenon DEF MailInv

LEMMA NotifyStep ==
    ASSUME MailInv, NEW p \in PostCalls, Notify(p) \/ RemoveEntry(p)
    PROVE  MailInv'
  <1> DEFINE pc == post'[p].pc
             w == [post[p] EXCEPT !.pc = pc]
  <1>1. MailTypes /\ post \in [PostCalls -> PostRec] /\ reader \in [Readers -> ReaderRec]
    BY Zenon DEF MailInv, MailTypes
  <1>2. /\ post' = [post EXCEPT ![p] = w] /\ pc \in {"remove", "done"} /\ post[p].pc \notin {"new", "done"}
        /\ UNCHANGED <<mailMode, lastCp, rows>>
    <2>1. PICK e \in {"remove", "done"} : post' = [post EXCEPT ![p].pc = e]
      BY DEF Notify, RemoveEntry
    <2>2. pc = e
      BY <1>1, <2>1 DEF PostRec
    <2> QED
      BY <2>1, <2>2, Zenon DEF Notify, RemoveEntry
  <1> HIDE DEF pc
  <1>3. w \in PostRec /\ w.pc = pc
    BY <1>1, <1>2 DEF PostRec
  <1> HIDE DEF w
  <1>4. reader' = reader \/ reader' = [r \in Readers |-> [reader[r] EXCEPT !.changed = Connected(r)]]
    BY DEF Notify, RemoveEntry
  <1>5. ASSUME NEW x \in ReaderRec, NEW b \in BOOLEAN
        PROVE  LET y == [x EXCEPT !.changed = b]
               IN /\ y \in ReaderRec /\ y.cp = x.cp /\ y.got = x.got /\ y.processed = x.processed
                  /\ y.entries = x.entries /\ y.pc = x.pc
    BY DEF ReaderRec
  <1>6. /\ reader' \in [Readers -> ReaderRec]
        /\ \A r \in Readers : /\ reader'[r].cp = reader[r].cp /\ reader'[r].got = reader[r].got
                              /\ reader'[r].processed = reader[r].processed
                              /\ reader'[r].entries = reader[r].entries /\ reader'[r].pc = reader[r].pc
    <2>1. CASE reader' = reader
      BY <1>1, <2>1
    <2>2. CASE reader' = [r \in Readers |-> [reader[r] EXCEPT !.changed = Connected(r)]]
      <3>1. \A r \in Readers : Connected(r) \in BOOLEAN /\ reader[r] \in ReaderRec
        BY <1>1 DEF Connected
      <3> QED
        BY <1>5, <2>2, <3>1, Zenon
    <2> QED
      BY <1>4, <2>1, <2>2
  <1> QED
    BY <1>2, <1>3, <1>6, PostMoves, Zenon

LEMMA MailStepInv == MailInv /\ [MailNext]_mailVars => MailInv'
  <1> SUFFICES ASSUME MailInv, [MailNext]_mailVars PROVE MailInv'
    OBVIOUS
  <1>1. CASE UNCHANGED <<mailMode, lastCp, rows, post, reader>>
    BY <1>1 DEF MailInv, MailTypes, Steady
  <1>2. ASSUME NEW v \in MailVtxos, StoreArkoor(v) PROVE MailInv'
    BY <1>1, <1>2, Zenon DEF StoreArkoor
  <1>3. ASSUME NEW c \in Pullers, SelectOors(c) \/ UpdateOors(c) PROVE MailInv'
    BY <1>1, <1>3 DEF SelectOors, UpdateOors
  <1>4. ASSUME NEW p \in PostCalls, PostStep(p) PROVE MailInv'
    BY <1>4, CheckpointStep, InsertStep, NotifyStep DEF PostStep, PostProceeds
  <1>5. ASSUME NEW r \in Readers, StreamStep(r) \/ Subscribe(r) \/ Disconnect(r) \/ ReadMailbox(r)
        PROVE  MailInv'
    BY <1>5, TipStep, FetchStep, YieldStep, SubscribeStep, DisconnectStep, ReadStep DEF StreamStep
  <1>6. CASE UNCHANGED mailVars
    BY <1>1, <1>6 DEF mailVars
  <1> QED
    BY <1>2, <1>3, <1>4, <1>5, <1>6 DEF MailNext

-----------------------------------------------------------------------------
(* pull_oors: the calls that have read the new rows and not yet marked them *)
(* have all read the same rows, unless another call has marked them since.  *)
PullRec == [pc : {"new", "update", "done", "panic"}, seen : SUBSET MailVtxos, got : SUBSET MailVtxos]
PulledBy(v, c) == \A d \in Pullers : v \in puller[d].got <=> d = c

PullInv ==
    /\ oors \in [MailVtxos -> {"none", "new", "processed"}]
    /\ puller \in [Pullers -> PullRec]
    /\ mailMode.quiet =>
         /\ \A c \in Pullers : puller[c].pc # "done" => puller[c].got = {}
         /\ \A c \in Pullers : puller[c].pc = "update" =>
                puller[c].seen # {} /\ NewOors \in {{}, puller[c].seen}
         /\ \A c \in Pullers : \A v \in puller[c].got : oors[v] = "processed"
         /\ \A v \in MailVtxos : oors[v] = "processed" => \E c \in Pullers : PulledBy(v, c)

(* Posts are finite, so the vtxos of a mailbox are. *)
LEMMA MailFinite == IsFiniteSet(MailVtxos)
  <1> DEFINE S == {Range(Posts[p]) : p \in PostCalls}
  <1>1. IsFiniteSet(S)
    <2> DEFINE f == [p \in PostCalls |-> Range(Posts[p])]
    <2>1. f \in Surjection(PostCalls, S)
      BY DEF Surjection
    <2> HIDE DEF f, S
    <2> QED
      BY <2>1, MailAssumption, FS_Surjection DEF PostCalls
  <1>2. \A T \in S : IsFiniteSet(T)
    <2> SUFFICES ASSUME NEW p \in PostCalls PROVE IsFiniteSet(Range(Posts[p]))
      OBVIOUS
    <2> DEFINE s == Posts[p]
    <2>1. s \in Seq(Range(s)) /\ Range(s) = {s[i] : i \in DOMAIN s}
      BY MailAssumption DEF PostCalls, Range
    <2>2. Len(s) \in Nat /\ DOMAIN s = 1 .. Len(s)
      BY <2>1
    <2>3. s \in Surjection(1 .. Len(s), Range(s))
      BY <2>1, <2>2 DEF Surjection
    <2>4. IsFiniteSet(1 .. Len(s))
      BY <2>2, FS_Interval
    <2> HIDE DEF s
    <2>5. IsFiniteSet(Range(s))
      BY <2>3, <2>4, FS_Surjection, Zenon
    <2> QED
      BY <2>5 DEF s
  <1> HIDE DEF S
  <1> QED
    BY <1>1, <1>2, FS_UNION, Zenon DEF MailVtxos, S

LEMMA PullInitInv == MailInit => PullInv
  <1> SUFFICES ASSUME MailInit PROVE PullInv
    OBVIOUS
  <1>1. oors = [v \in MailVtxos |-> "none"] /\ puller = [c \in Pullers |-> [pc |-> "new", seen |-> {}, got |-> {}]]
    BY Zenon DEF MailInit
  <1> QED
    BY <1>1, Zenon DEF PullInv, PullRec

LEMMA StoreStep ==
    ASSUME PullInv, NEW v \in MailVtxos, StoreArkoor(v)
    PROVE  PullInv'
  <1>1. /\ oors' = [oors EXCEPT ![v] = "new"] /\ oors[v] = "none" /\ UNCHANGED <<mailMode, puller>>
        /\ mailMode.quiet => \A c \in Pullers : puller[c].pc \in {"new", "done", "panic"}
    BY Zenon DEF StoreArkoor
  <1>2. /\ oors' \in [MailVtxos -> {"none", "new", "processed"}]
        /\ \A w \in MailVtxos : oors'[w] = "processed" <=> oors[w] = "processed"
    BY <1>1 DEF PullInv
  <1>3. \A c \in Pullers : puller[c].got \subseteq MailVtxos
    BY DEF PullInv, PullRec
  <1>4. \A w, c : PulledBy(w, c)' <=> PulledBy(w, c)
    BY <1>1, Zenon DEF PulledBy
  <1> QED
    BY <1>1, <1>2, <1>3, <1>4 DEF PullInv

LEMMA SelectStep ==
    ASSUME PullInv, NEW c \in Pullers, SelectOors(c)
    PROVE  PullInv'
  <1> DEFINE N == NewOors
             w == [puller[c] EXCEPT !.pc = "update", !.seen = N]
  <1>1. /\ puller' = [puller EXCEPT ![c] = w] /\ N # {} /\ puller[c].pc = "new"
        /\ UNCHANGED <<mailMode, oors>>
    BY DEF SelectOors
  <1>2. N \subseteq MailVtxos /\ NewOors' = N
    BY <1>1, Zenon DEF NewOors
  <1>3. puller[c] \in PullRec
    BY DEF PullInv
  <1> HIDE DEF N
  <1>4. w \in PullRec /\ w.pc = "update" /\ w.seen = N /\ w.got = puller[c].got
    BY <1>2, <1>3, Zenon DEF PullRec
  <1> HIDE DEF w
  <1>5. puller' \in [Pullers -> PullRec] /\ puller'[c] = w /\ \A d \in Pullers \ {c} : puller'[d] = puller[d]
    BY <1>1, <1>4, Zenon DEF PullInv
  <1>6. \A d \in Pullers : puller'[d].got = puller[d].got
    BY <1>4, <1>5, Zenon
  <1>7. \A v, d : PulledBy(v, d)' <=> PulledBy(v, d)
    BY <1>6, Zenon DEF PulledBy
  <1>8. NewOors = N
    BY DEF N
  <1>9. ASSUME mailMode.quiet
        PROVE  /\ \A d \in Pullers : puller'[d].pc # "done" => puller'[d].got = {}
               /\ \A d \in Pullers : puller'[d].pc = "update" => puller'[d].seen # {} /\ N \in {{}, puller'[d].seen}
    <2>1. w.got = {}
      BY <1>1, <1>4, <1>9, Zenon DEF PullInv
    <2> QED
      BY <1>1, <1>4, <1>5, <1>8, <1>9, <2>1 DEF PullInv
  <1> QED
    BY <1>1, <1>2, <1>5, <1>6, <1>7, <1>9 DEF PullInv

(* The call that marks the rows it has read answers with them; a call that  *)
(* comes later counts none and panics.                                      *)
LEMMA UpdateStep ==
    ASSUME PullInv, NEW c \in Pullers, UpdateOors(c)
    PROVE  PullInv'
  <1> DEFINE N == NewOors
             seen == puller[c].seen
             same == Cardinality(N) = Cardinality(seen)
             w == IF same THEN [puller[c] EXCEPT !.pc = "done", !.got = seen]
                  ELSE [puller[c] EXCEPT !.pc = "panic"]
  <1>1. /\ puller' = [puller EXCEPT ![c] = w] /\ puller[c].pc = "update" /\ UNCHANGED mailMode
        /\ oors' = [v \in MailVtxos |-> IF oors[v] = "new" THEN "processed" ELSE oors[v]]
    BY DEF UpdateOors
  <1>2. puller[c] \in PullRec /\ seen \subseteq MailVtxos /\ N \subseteq MailVtxos
    BY DEF PullInv, PullRec, NewOors
  <1>3. /\ oors' \in [MailVtxos -> {"none", "new", "processed"}] /\ NewOors' = {}
        /\ \A v \in MailVtxos : oors'[v] = "processed" <=> oors[v] = "processed" \/ v \in N
        /\ \A v \in N : oors[v] # "processed"
    BY <1>1 DEF PullInv, NewOors
  <1>4. w \in PullRec /\ w.pc \in {"done", "panic"} /\ w.got = IF same THEN seen ELSE puller[c].got
    <2> HIDE DEF seen, same
    <2> QED
      BY <1>2, Zenon DEF PullRec
  <1>5. ~same \/ same
    OBVIOUS
  <1>6. N = {} /\ seen # {} => ~same
    <2>1. IsFiniteSet(seen)
      BY <1>2, MailFinite, FS_Subset, Zenon
    <2> QED
      BY <2>1, FS_EmptySet, Zenon
  <1>7. N = seen => same
    OBVIOUS
  <1>8. w.pc # "done" => ~same
    OBVIOUS
  <1> HIDE DEF N, seen, same, w
  <1>9. puller' \in [Pullers -> PullRec] /\ puller'[c] = w /\ \A d \in Pullers \ {c} : puller'[d] = puller[d]
    BY <1>1, <1>4, Zenon DEF PullInv
  <1>10. ASSUME mailMode.quiet
         PROVE  /\ \A d \in Pullers : puller'[d].pc # "done" => puller'[d].got = {}
                /\ \A d \in Pullers : puller'[d].pc = "update" => puller'[d].seen # {}
                /\ \A d \in Pullers : \A v \in puller'[d].got : oors'[v] = "processed"
                /\ \A v \in MailVtxos : oors'[v] = "processed" => \E d \in Pullers : PulledBy(v, d)'
    <2>1. /\ puller[c].got = {} /\ seen # {} /\ (N = {} \/ N = seen)
          /\ \A d \in Pullers : puller[d].pc # "done" => puller[d].got = {}
          /\ \A d \in Pullers : puller[d].pc = "update" => puller[d].seen # {}
          /\ \A d \in Pullers : \A v \in puller[d].got : oors[v] = "processed"
          /\ \A v \in MailVtxos : oors[v] = "processed" => \E d \in Pullers : PulledBy(v, d)
      BY <1>1, <1>10, Zenon DEF PullInv, N, seen
    <2>2. w.got = N
      BY <1>4, <1>6, <1>7, <2>1, Zenon
    <2>3. w.pc # "done" => w.got = {}
      BY <1>4, <1>8, <2>1
    <2>4. \A d \in Pullers : puller[d].got \subseteq MailVtxos
      BY Zenon DEF PullInv, PullRec
    <2>5. \A d \in Pullers : \A v \in puller'[d].got : oors'[v] = "processed"
      BY <1>2, <1>3, <1>9, <2>1, <2>2, <2>4
    <2>6. ASSUME NEW v \in MailVtxos, oors'[v] = "processed" PROVE \E d \in Pullers : PulledBy(v, d)'
      <3>1. CASE v \in N
        <4>1. \A d \in Pullers : v \notin puller[d].got
          BY <1>3, <2>1, <3>1
        <4>2. PulledBy(v, c)'
          BY <1>9, <2>2, <3>1, <4>1 DEF PulledBy
        <4> QED
          BY <4>2, Zenon
      <3>2. CASE v \notin N
        <4>1. PICK d \in Pullers : PulledBy(v, d)
          BY <1>3, <2>1, <2>6, <3>2
        <4>2. v \notin puller[c].got /\ d # c
          BY <2>1, <4>1, Zenon DEF PulledBy
        <4>3. PulledBy(v, d)'
          BY <1>9, <2>2, <3>2, <4>1, <4>2, Zenon DEF PulledBy
        <4> QED
          BY <4>3, Zenon
      <3> QED
        BY <3>1, <3>2
    <2>7. \A d \in Pullers : puller'[d].pc # "done" => puller'[d].got = {}
      BY <1>9, <2>1, <2>3, Zenon
    <2>8. \A d \in Pullers : puller'[d].pc = "update" => puller'[d].seen # {}
      BY <1>4, <1>9, <2>1
    <2> QED
      BY <2>5, <2>6, <2>7, <2>8, Zenon
  <1> QED
    BY <1>1, <1>3, <1>9, <1>10 DEF PullInv

LEMMA PullStepInv == PullInv /\ [MailNext]_mailVars => PullInv'
  <1> SUFFICES ASSUME PullInv, [MailNext]_mailVars PROVE PullInv'
    OBVIOUS
  <1>1. CASE UNCHANGED <<mailMode, oors, puller>>
    BY <1>1 DEF PullInv, NewOors, PulledBy
  <1>2. ASSUME NEW p \in PostCalls, PostStep(p) PROVE PullInv'
    BY <1>1, <1>2 DEF PostStep, PostProceeds, NextCheckpoint, InsertRow, Notify, RemoveEntry
  <1>3. ASSUME NEW r \in Readers, StreamStep(r) \/ Subscribe(r) \/ Disconnect(r) \/ ReadMailbox(r)
        PROVE  PullInv'
    BY <1>1, <1>3 DEF StreamStep, TipChanged, FetchEntries, YieldEntry, Subscribe, Disconnect, ReadMailbox
  <1>4. CASE UNCHANGED mailVars
    BY <1>1, <1>4 DEF mailVars
  <1> QED
    BY <1>2, <1>3, <1>4, StoreStep, SelectStep, UpdateStep, Zenon DEF MailNext

LEMMA PulledOnceHolds == PullInv => PulledOnce
  <1> SUFFICES ASSUME PullInv, mailMode.quiet, NEW v \in MailVtxos, oors[v] = "processed"
               PROVE  Cardinality({c \in Pullers : v \in puller[c].got}) = 1
    BY Zenon DEF PulledOnce
  <1>1. PICK c \in Pullers : PulledBy(v, c)
    BY Zenon DEF PullInv
  <1>2. {d \in Pullers : v \in puller[d].got} = {c}
    BY <1>1, Zenon DEF PulledBy
  <1> QED
    BY <1>2, FS_Singleton, Zenon

LEMMA MailHolds == MailInv => MailTypeOK /\ InOrder /\ (SinglePosts => NothingSkipped)
  <1> SUFFICES ASSUME MailInv PROVE MailTypeOK /\ InOrder /\ (SinglePosts => NothingSkipped)
    OBVIOUS
  <1>1. MailTypes
    BY DEF MailInv
  <1>2. \A r \in Readers : reader[r] \in ReaderRec /\ InLine(reader[r], lastCp)
    BY <1>1 DEF MailInv, MailTypes
  <1>3. MailTypeOK
    BY <1>1, <1>2 DEF MailTypeOK, MailTypes, Row, ReaderRec, InLine
  <1>4. InOrder
    BY <1>2 DEF InOrder, InLine, Ascending
  <1>5. ASSUME SinglePosts, mailMode.serial, NEW r \in Readers, NEW row \in rows, row.cp <= reader[r].cp
        PROVE  row.vtxo \in ReceivedBy(r)
    <2>1. Caught(reader[r], rows)
      BY <1>5, Zenon DEF MailInv, Steady, Served
    <2>2. PICK i \in 1 .. Len(reader[r].got) : row.vtxo \in reader[r].got[i].vtxos
      BY <1>5, <2>1 DEF Caught
    <2>3. i \in DOMAIN reader[r].got
      BY <1>2 DEF ReaderRec
    <2>4. reader[r].got[i] \in Range(reader[r].got)
      BY <2>3 DEF Range
    <2> QED
      BY <2>2, <2>4, Zenon DEF ReceivedBy
  <1> QED
    BY <1>3, <1>4, <1>5 DEF NothingSkipped

(* A mailbox reader gets the checkpoints once and in order over all its     *)
(* streams and reads; if posts have one vtxo each and do not overlap, its   *)
(* checkpoint passes nothing that it does not have; and concurrent calls of *)
(* pull_oors answer with every row they mark, once.                         *)
THEOREM MailboxSound == MailSpec => [](MailTypeOK /\ InOrder /\ PulledOnce /\ (SinglePosts => NothingSkipped))
  <1>1. MailSpec => [](MailInv /\ PullInv)
    <2>1. MailInit => MailInv /\ PullInv
      BY MailInitInv, PullInitInv
    <2>2. MailInv /\ PullInv /\ [MailNext]_mailVars => (MailInv /\ PullInv)'
      BY MailStepInv, PullStepInv
    <2> QED
      BY <2>1, <2>2, PTL DEF MailSpec
  <1>2. MailInv /\ PullInv => MailTypeOK /\ InOrder /\ PulledOnce /\ (SinglePosts => NothingSkipped)
    BY PulledOnceHolds, MailHolds
  <1> QED
    BY <1>1, <1>2, PTL
=============================================================================
