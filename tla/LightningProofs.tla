--------------------------- MODULE LightningProofs ---------------------------
(***************************************************************************)
(* Proofs about the server's lightning payments, sent and received.        *)
(***************************************************************************)
EXTENDS LnPayment, LnReceive, FiniteSetTheorems, WellFoundedInduction, TLAPS

(***************************************************************************)
(* LnPayment, for any number of HTLCs, restarts of the monitor and crashes:*)
(* the comparison of updated_at keeps what is final.                       *)
(***************************************************************************)

(* A sequence of whatever elements *)
IsRows(s) == \E n \in Nat : DOMAIN s = 1 .. n /\ s = [i \in 1 .. n |-> s[i]]

Row(r) == r = [status |-> r.status, ver |-> r.ver, htlc |-> r.htlc] /\ r.ver \in Nat

(* Version v of attempt a was read when the attempt was open: unless the row *)
(* was written since, it still is.                                          *)
ReadOpen(a, v) ==
    /\ a \in DOMAIN attempts /\ v \in Nat /\ v <= attempts[a].ver
    /\ v = attempts[a].ver => attempts[a].status \notin Final

(* The same for an invoice without preimage *)
ReadUnpaid(v) ==
    /\ v \in Nat /\ v <= invoice.ver
    /\ v = invoice.ver => ~invoice.preimage

Rows ==
    /\ IsRows(attempts)
    /\ \A a \in DOMAIN attempts : Row(attempts[a])
    /\ invoice = [known |-> invoice.known, preimage |-> invoice.preimage, ver |-> invoice.ver]
    /\ invoice.ver \in Nat

Place(x) == x = [pc |-> x.pc, a |-> x.a, ver |-> x.ver, status |-> x.status,
                 verify |-> x.verify, iver |-> x.iver]

(* What an updater has read *)
Knows(x) ==
    \/ x = Idle
    \/ Place(x) /\ x.pc = "verify" /\ ReadOpen(x.a, x.ver)
    \/ Place(x) /\ x.pc = "attempt" /\ ReadOpen(x.a, x.ver) /\ (x.verify => ReadUnpaid(x.iver))
    \/ Place(x) /\ x.pc = "invoice" /\ ReadUnpaid(x.iver)

Updates ==
    /\ upd = [u \in Updaters |-> upd[u]]
    /\ \A u \in Updaters : Knows(upd[u])

Polls ==
    \/ mon = Waiting \/ mon = Down
    \/ mon = [job |-> "sendpay", kind |-> mon.kind, todo |-> mon.todo, max |-> mon.max]
    \/ /\ mon = [job |-> "poll", todo |-> mon.todo]
       /\ \A r \in mon.todo : ReadOpen(r.a, r.ver)

PayInv == Rows /\ Updates /\ Polls

-----------------------------------------------------------------------------

(* What the lemmas below use of sequences. *)
LEMMA SeqShape ==
    ASSUME NEW S, NEW s \in Seq(S)
    PROVE  Len(s) \in Nat /\ s \in [1 .. Len(s) -> S] /\ DOMAIN s = 1 .. Len(s)
  OBVIOUS

LEMMA NoElements ==
    ASSUME NEW S, NEW s \in Seq(S)
    PROVE  s = <<>> <=> Len(s) = 0
  <1>1. CASE Len(s) = 0
    <2>1. s = [i \in 1 .. 0 |-> s[i]] /\ <<>> = [i \in 1 .. 0 |-> s[i]]
      BY <1>1
    <2> QED
      BY <1>1, <2>1
  <1>2. CASE Len(s) # 0
    BY <1>2
  <1> QED
    BY <1>1, <1>2

(* A set of natural numbers up to n has a largest one. *)
LEMMA MaxExists ==
    ASSUME NEW n \in Nat, NEW S \in SUBSET (0 .. n), S # {}
    PROVE  Max(S) \in S /\ \A y \in S : y <= Max(S)
  <1> DEFINE T == {n - x : x \in S}
  <1>1. T \subseteq Nat /\ T # {}
    <2>1. \A x \in S : n - x \in Nat
      OBVIOUS
    <2>2. PICK x \in S : TRUE
      BY Zenon
    <2>3. n - x \in T
      BY <2>2
    <2> QED
      BY <2>1, <2>3
  <1>2. PICK m \in T : \A y \in T : ~(<<y, m>> \in OpToRel(<, Nat))
    BY <1>1, WFMin, NatLessThanWellFounded, Zenon
  <1>3. PICK x \in S : m = n - x
    BY <1>2, Zenon
  <1>4. \A y \in S : y <= x
    <2> SUFFICES ASSUME NEW y \in S, ~(y <= x) PROVE FALSE
      OBVIOUS
    <2>1. n - y \in T /\ n - y < m /\ n - y \in Nat /\ m \in Nat
      BY <1>3
    <2> QED
      BY <1>2, <2>1, Zenon DEF OpToRel
  <1> QED
    BY <1>4, Zenon DEF Max

LEMMA OpenAttemptOpen ==
    ASSUME Rows, OpenAttempt # 0
    PROVE  OpenAttempt \in DOMAIN attempts /\ attempts[OpenAttempt].status \notin Final
  <1> DEFINE S == {0} \cup {a \in DOMAIN attempts : attempts[a].status \notin Final}
  <1>1. PICK n \in Nat : DOMAIN attempts = 1 .. n
    BY Zenon DEF Rows, IsRows
  <1>2. S \in SUBSET (0 .. n) /\ S # {}
    BY <1>1
  <1>3. OpenAttempt \in S
    <2>1. Max(S) \in S
      BY <1>2, MaxExists, Zenon
    <2> QED
      BY <2>1 DEF OpenAttempt
  <1> QED
    BY <1>3

LEMMA AppendRows ==
    ASSUME NEW s, IsRows(s), NEW e
    PROVE  /\ IsRows(Append(s, e))
           /\ DOMAIN s \subseteq DOMAIN Append(s, e)
           /\ \A i \in DOMAIN s : Append(s, e)[i] = s[i]
           /\ \A i \in DOMAIN Append(s, e) : i \in DOMAIN s \/ Append(s, e)[i] = e
  <1>1. PICK n \in Nat : DOMAIN s = 1 .. n /\ s = [i \in 1 .. n |-> s[i]]
    BY DEF IsRows
  <1> DEFINE S == {s[i] : i \in 1 .. n} \cup {e}
  <1>2. s \in Seq(S) /\ Len(s) = n
    BY <1>1
  <1>3. /\ Append(s, e) \in Seq(S) /\ Len(Append(s, e)) = n + 1
        /\ \A i \in 1 .. n : Append(s, e)[i] = s[i]
        /\ Append(s, e)[n + 1] = e
    BY <1>2
  <1>4. Append(s, e) \in [1 .. n + 1 -> S]
    BY <1>3, SeqShape, Zenon
  <1>5. IsRows(Append(s, e))
    <2>1. n + 1 \in Nat
      OBVIOUS
    <2>2. DOMAIN Append(s, e) = 1 .. n + 1
      BY <1>4
    <2>3. Append(s, e) = [i \in 1 .. n + 1 |-> Append(s, e)[i]]
      BY <1>4, Zenon
    <2> QED
      BY <2>1, <2>2, <2>3 DEF IsRows
  <1>6. \A i \in 1 .. n + 1 : i \in 1 .. n \/ i = n + 1
    OBVIOUS
  <1>7. 1 .. n \subseteq 1 .. n + 1
    OBVIOUS
  <1>8. DOMAIN Append(s, e) = 1 .. n + 1
    BY <1>4
  <1> QED
    BY <1>1, <1>3, <1>5, <1>6, <1>7, <1>8

LEMMA PayInitInv == PayInit => PayInv
  <1> SUFFICES ASSUME PayInit PROVE PayInv
    BY Zenon
  <1>1. Rows
    <2>1. DOMAIN attempts = 1 .. 0 /\ attempts = [i \in 1 .. 0 |-> attempts[i]]
      BY DEF PayInit
    <2> QED
      BY <2>1 DEF PayInit, Rows, IsRows
  <1>2. Updates /\ Polls
    BY Zenon DEF PayInit, Updates, Knows, Polls
  <1> QED
    BY <1>1, <1>2 DEF PayInv

-----------------------------------------------------------------------------
(* What the writes leave true *)

LEMMA MaxAttemptsNat == MaxAttempts \in Nat
  BY PayAssumption, FS_CardinalityType, Zenon DEF MaxAttempts

(* What was read stays read as long as no row loses its version. *)
Grows ==
    /\ \A a, v : ReadOpen(a, v) => ReadOpen(a, v)'
    /\ \A v : ReadUnpaid(v) => ReadUnpaid(v)'

LEMMA NothingWritten ==
    ASSUME Rows, UNCHANGED <<attempts, invoice>>
    PROVE  Rows' /\ Grows
  BY Zenon DEF Rows, Grows, ReadOpen, ReadUnpaid

LEMMA AttemptStored ==
    ASSUME Rows, NEW h, StorePaymentStart(h)
    PROVE  Rows' /\ Grows
  <1> DEFINE e == [status |-> "requested", ver |-> 0, htlc |-> h]
  <1>1. attempts' = Append(attempts, e) /\ IsRows(attempts)
    BY Zenon DEF StorePaymentStart, StorePaymentAttempt, Rows
  <1>2. /\ IsRows(attempts')
        /\ DOMAIN attempts \subseteq DOMAIN attempts'
        /\ \A i \in DOMAIN attempts : attempts'[i] = attempts[i]
        /\ \A i \in DOMAIN attempts' : i \in DOMAIN attempts \/ attempts'[i] = e
    BY <1>1, AppendRows
  <1>3. invoice' = [known |-> TRUE, preimage |-> invoice.preimage, ver |-> invoice.ver]
    BY Zenon DEF StorePaymentStart, Rows
  <1>4. Row(e)
    BY Zenon DEF Row
  <1>5. \A a \in DOMAIN attempts' : Row(attempts'[a])
    BY <1>2, <1>4, Zenon DEF Rows
  <1>6. Rows'
    BY <1>2, <1>3, <1>5 DEF Rows, Row
  <1>7. \A a, v : ReadOpen(a, v) => ReadOpen(a, v)'
    BY <1>2, Zenon DEF ReadOpen
  <1>8. \A v : ReadUnpaid(v) => ReadUnpaid(v)'
    BY <1>3, Zenon DEF ReadUnpaid
  <1> QED
    BY <1>6, <1>7, <1>8, Zenon DEF Grows

LEMMA AttemptWritten ==
    ASSUME Rows, NEW a \in DOMAIN attempts, NEW st, UNCHANGED invoice,
           attempts' = [attempts EXCEPT ![a] = Written(@, st)]
    PROVE  Rows' /\ Grows /\ \A b \in DOMAIN attempts : b # a => attempts'[b] = attempts[b]
  <1> DEFINE r == attempts[a]
             q == [status |-> st, ver |-> r.ver + 1, htlc |-> r.htlc]
  <1>0. Row(r) /\ IsRows(attempts)
    BY Zenon DEF Rows
  <1>2. DOMAIN attempts' = DOMAIN attempts /\ attempts'[a] = q
        /\ \A b \in DOMAIN attempts : b # a => attempts'[b] = attempts[b]
    BY <1>0 DEF IsRows, Written
  <1>3. IsRows(attempts')
    BY <1>0, <1>2, Zenon DEF IsRows
  <1>4. Row(q)
    BY <1>0 DEF Row
  <1>5. Rows'
    <2>1. \A b \in DOMAIN attempts' : Row(attempts'[b])
      BY <1>2, <1>4 DEF Rows
    <2> QED
      BY <1>3, <2>1, Zenon DEF Rows, Row
  <1>6. \A b, v : ReadOpen(b, v) => ReadOpen(b, v)'
    <2> SUFFICES ASSUME NEW b, NEW v, ReadOpen(b, v) PROVE ReadOpen(b, v)'
      BY Zenon
    <2>1. CASE b = a
      BY <2>1, <1>0, <1>2 DEF ReadOpen, Row
    <2>2. CASE b # a
      BY <2>2, <1>2, Zenon DEF ReadOpen
    <2> QED
      BY <2>1, <2>2
  <1>7. \A v : ReadUnpaid(v) => ReadUnpaid(v)'
    BY DEF ReadUnpaid
  <1> QED
    BY <1>2, <1>5, <1>6, <1>7, Zenon DEF Grows

LEMMA InvoiceWritten ==
    ASSUME Rows, NEW p, UNCHANGED attempts,
           invoice' = [known |-> invoice.known, preimage |-> p, ver |-> invoice.ver + 1]
    PROVE  Rows' /\ Grows
  <1>2. invoice.ver + 1 \in Nat
    BY DEF Rows
  <1>3. Rows'
    BY <1>2 DEF Rows
  <1>4. \A v : ReadUnpaid(v) => ReadUnpaid(v)'
    BY <1>2 DEF ReadUnpaid, Rows
  <1>5. \A b, v : ReadOpen(b, v) => ReadOpen(b, v)'
    BY Zenon DEF ReadOpen
  <1> QED
    BY <1>3, <1>4, <1>5 DEF Grows

(* What an updater or a poll knows, it knows after a write as well. *)
LEMMA KnowsStill == ASSUME Grows, NEW x, Knows(x) PROVE Knows(x)'
  BY DEF Grows, Knows, Place

LEMMA UpdatesStill == ASSUME Grows, Updates, UNCHANGED upd PROVE Updates'
  BY KnowsStill, Zenon DEF Updates

LEMMA OneUpdates ==
    ASSUME Grows, Updates, NEW u \in Updaters, NEW x, Knows(x),
           upd' = [upd EXCEPT ![u] = x]
    PROVE  Updates'
  <1>1. upd' = [w \in Updaters |-> IF w = u THEN x ELSE upd[w]]
    BY DEF Updates
  <1>2. \A w \in Updaters : Knows(upd'[w])
    BY <1>1, Zenon DEF Updates
  <1>3. \A w \in Updaters : Knows(upd[w])'
    BY <1>2, KnowsStill, Zenon
  <1> QED
    BY <1>1, <1>3 DEF Updates

LEMMA PollsStill == ASSUME Grows, Polls, UNCHANGED mon PROVE Polls'
  BY DEF Grows, Polls

-----------------------------------------------------------------------------
(* The steps *)

(* What is final at a step stays as it is. *)
FinalStep ==
    /\ \A a \in DOMAIN attempts :
           attempts[a].status \in Final => attempts'[a].status = attempts[a].status
    /\ invoice.preimage => invoice'.preimage

LEMMA NothingWrittenFinal == UNCHANGED <<attempts, invoice>> => FinalStep
  BY Zenon DEF FinalStep

LEMMA BeginKnows ==
    ASSUME PayInv, Grows, OpenAttempt # 0,
           NEW u \in Updaters, NEW st, Begin(u, OpenAttempt, st, TRUE)
    PROVE  Updates'
  <1> DEFINE o == OpenAttempt
             x == [pc |-> "verify", a |-> o, ver |-> attempts[o].ver, status |-> st,
                   verify |-> TRUE, iver |-> 0]
  <1>1. ReadOpen(o, attempts[o].ver)
    BY OpenAttemptOpen DEF PayInv, Rows, Row, ReadOpen
  <1>2. Knows(x)
    BY <1>1, Zenon DEF Knows, Place
  <1>3. upd' = [upd EXCEPT ![u] = x]
    BY Zenon DEF Begin
  <1> QED
    BY <1>2, <1>3, OneUpdates, Zenon DEF PayInv

LEMMA DoneKnows ==
    ASSUME PayInv, Grows, NEW u \in Updaters, Done(u)
    PROVE  Updates'
  <1>1. Knows(Idle)
    BY Zenon DEF Knows
  <1> QED
    BY <1>1, OneUpdates, Zenon DEF PayInv, Done

(* Reading the invoice *)
LEMMA VerifyStep ==
    ASSUME PayInv, NEW u \in Updaters, Verify(u)
    PROVE  PayInv' /\ FinalStep
  <1>1. UNCHANGED <<attempts, invoice, mon>>
    BY Zenon DEF Verify, monitor
  <1>2. Rows' /\ Grows
    BY <1>1, NothingWritten DEF PayInv
  <1>3. Polls'
    BY <1>1, <1>2, PollsStill, Zenon DEF PayInv
  <1>4. Updates'
    <2>1. CASE Done(u)
      BY <2>1, <1>2, DoneKnows, Zenon
    <2>2. CASE ~invoice.preimage /\ ~Done(u)
      <3> DEFINE x == upd[u]
                 y == [pc |-> "attempt", a |-> x.a, ver |-> x.ver, status |-> x.status,
                       verify |-> x.verify, iver |-> invoice.ver]
      <3>1. upd' = [upd EXCEPT ![u] = y]
        BY <2>2, Zenon DEF Verify
      <3>2. ReadOpen(x.a, x.ver)
        BY DEF PayInv, Updates, Knows, Verify, Idle
      <3>3. ReadUnpaid(invoice.ver)
        BY <2>2 DEF ReadUnpaid, PayInv, Rows
      <3>4. Knows(y)
        BY <3>2, <3>3 DEF Knows, Place
      <3> QED
        BY <3>1, <3>4, <1>2, OneUpdates, Zenon DEF PayInv
    <2> QED
      BY <2>1, <2>2 DEF Verify
  <1> QED
    BY <1>1, <1>2, <1>3, <1>4, NothingWrittenFinal DEF PayInv

(* Writing the attempt *)
LEMMA UpdateAttemptStep ==
    ASSUME PayInv, NEW u \in Updaters, UpdateAttempt(u)
    PROVE  PayInv' /\ FinalStep
  <1> DEFINE x == upd[u]
  <1>1. UNCHANGED invoice /\ x.pc = "attempt"
    BY Zenon DEF UpdateAttempt
  <1>2. Place(x) /\ ReadOpen(x.a, x.ver) /\ (x.verify => ReadUnpaid(x.iver))
    BY <1>1 DEF PayInv, Updates, Knows, Idle
  <1>3. CASE attempts[x.a].ver = x.ver
    <2>1. attempts' = [attempts EXCEPT ![x.a] = Written(@, x.status)] /\ UNCHANGED mon
      BY <1>3, Zenon DEF UpdateAttempt
    <2>2. x.a \in DOMAIN attempts /\ attempts[x.a].status \notin Final
      BY <1>2, <1>3, Zenon DEF ReadOpen
    <2>3. Rows' /\ Grows /\ \A b \in DOMAIN attempts : b # x.a => attempts'[b] = attempts[b]
      BY <2>1, <2>2, <1>1, AttemptWritten, Zenon DEF PayInv
    <2>4. Polls'
      BY <2>1, <2>3, PollsStill DEF PayInv
    <2>5. FinalStep
      BY <2>2, <2>3, <1>1, Zenon DEF FinalStep
    <2>6. Updates'
      <3>1. CASE Done(u)
        BY <3>1, <2>3, DoneKnows
      <3>2. CASE x.verify /\ upd' = [upd EXCEPT ![u].pc = "invoice"]
        <4> DEFINE y == [pc |-> "invoice", a |-> x.a, ver |-> x.ver, status |-> x.status,
                         verify |-> x.verify, iver |-> x.iver]
        <4>1. [x EXCEPT !.pc = "invoice"] = y
          BY <1>2 DEF Place
        <4>2. upd' = [upd EXCEPT ![u] = y]
          BY <4>1, <3>2, Zenon
        <4>3. Knows(y)
          BY <1>2, <3>2, Zenon DEF Knows, Place
        <4> QED
          BY <4>2, <4>3, <2>3, OneUpdates, Zenon DEF PayInv
      <3> QED
        BY <3>1, <3>2, <1>3, Zenon DEF UpdateAttempt
    <2> QED
      BY <2>3, <2>4, <2>5, <2>6, Zenon DEF PayInv
  <1>4. CASE attempts[x.a].ver # x.ver
    <2>1. UNCHANGED attempts /\ Done(u) /\ (mon' = Down \/ UNCHANGED mon)
      BY <1>4, Zenon DEF UpdateAttempt, Fail
    <2>2. Rows' /\ Grows
      BY <2>1, <1>1, NothingWritten, Zenon DEF PayInv
    <2>3. Updates'
      BY <2>1, <2>2, DoneKnows, Zenon
    <2>4. Polls'
      BY <2>1, <2>2, PollsStill, Zenon DEF PayInv, Polls
    <2> QED
      BY <2>1, <2>2, <2>3, <2>4, <1>1, NothingWrittenFinal DEF PayInv
  <1> QED
    BY <1>3, <1>4, Zenon

(* Writing the invoice *)
LEMMA UpdateInvoiceStep ==
    ASSUME PayInv, NEW u \in Updaters, UpdateInvoice(u)
    PROVE  PayInv' /\ FinalStep
  <1> DEFINE x == upd[u]
  <1>1. UNCHANGED <<attempts, mon>> /\ Done(u) /\ x.pc = "invoice"
    BY Zenon DEF UpdateInvoice, monitor
  <1>2. ReadUnpaid(x.iver)
    BY <1>1 DEF PayInv, Updates, Knows, Idle
  <1>3. Rows' /\ Grows /\ FinalStep
    <2>1. CASE invoice.ver = x.iver
      <3>1. invoice' = [known |-> invoice.known, preimage |-> x.status = "succeeded",
                        ver |-> invoice.ver + 1]
        BY <2>1, Zenon DEF UpdateInvoice
      <3>2. ~invoice.preimage
        BY <1>2, <2>1, Zenon DEF ReadUnpaid
      <3>3. Rows' /\ Grows
        BY <3>1, <1>1, InvoiceWritten, Zenon DEF PayInv
      <3> QED
        BY <3>2, <3>3, <1>1, Zenon DEF FinalStep
    <2>2. CASE invoice.ver # x.iver
      <3>1. UNCHANGED invoice
        BY <2>2, Zenon DEF UpdateInvoice
      <3> QED
        BY <3>1, <1>1, NothingWritten, NothingWrittenFinal, Zenon DEF PayInv
    <2> QED
      BY <2>1, <2>2
  <1> QED
    BY <1>1, <1>3, DoneKnows, PollsStill, Zenon DEF PayInv

(* Storing an attempt *)
LEMMA StartPaymentStep ==
    ASSUME PayInv, NEW h, StartPayment(h)
    PROVE  PayInv' /\ FinalStep
  <1>1. StorePaymentStart(h) /\ UNCHANGED <<upd, mon>>
    BY DEF StartPayment, monitor
  <1>2. Rows' /\ Grows
    BY <1>1, AttemptStored, Zenon DEF PayInv
  <1>3. FinalStep
    <2> DEFINE e == [status |-> "requested", ver |-> 0, htlc |-> h]
    <2>1. attempts' = Append(attempts, e) /\ IsRows(attempts)
      BY <1>1, Zenon DEF StorePaymentStart, StorePaymentAttempt, PayInv, Rows
    <2>2. \A i \in DOMAIN attempts : attempts'[i] = attempts[i]
      BY <2>1, AppendRows
    <2>3. invoice'.preimage = invoice.preimage
      BY <1>1, Zenon DEF StorePaymentStart, PayInv, Rows
    <2> QED
      BY <2>2, <2>3 DEF FinalStep
  <1> QED
    BY <1>1, <1>2, <1>3, UpdatesStill, PollsStill, Zenon DEF PayInv

(* The task after an error of xpay *)
LEMMA PayErrorStep ==
    ASSUME PayInv, NEW a \in 1 .. MaxAttempts, PayError(a)
    PROVE  PayInv' /\ FinalStep
  <1>1. UNCHANGED <<attempts, invoice, mon>>
    BY Zenon DEF PayError, monitor
  <1>2. Rows' /\ Grows
    BY <1>1, NothingWritten, Zenon DEF PayInv
  <1>3. a \in Updaters
    BY MaxAttemptsNat DEF Updaters
  <1>4. Updates'
    <2>1. CASE OpenAttempt = 0
      BY <2>1, <1>2, UpdatesStill, Zenon DEF PayError, PayInv
    <2>2. CASE OpenAttempt # 0
      BY <2>2, <1>2, <1>3, BeginKnows, Zenon DEF PayError
    <2> QED
      BY <2>1, <2>2, Zenon
  <1> QED
    BY <1>1, <1>2, <1>4, PollsStill, NothingWrittenFinal, Zenon DEF PayInv

(* The monitor, for an event of CLN *)
LEMMA ProcessSendpayStep ==
    ASSUME PayInv, ProcessSendpay
    PROVE  PayInv' /\ FinalStep
  <1>1. UNCHANGED <<attempts, invoice>>
    BY DEF ProcessSendpay
  <1>2. Rows' /\ Grows
    BY <1>1, NothingWritten, Zenon DEF PayInv
  <1>3. 0 \in Updaters
    BY MaxAttemptsNat DEF Updaters
  <1>4. Updates'
    <2>1. CASE UNCHANGED upd
      BY <2>1, <1>2, UpdatesStill, Zenon DEF PayInv
    <2>2. CASE ~UNCHANGED upd
      <3>1. OpenAttempt # 0 /\ Begin(0, OpenAttempt, Head(mon.todo), TRUE)
        BY <2>2, Zenon DEF ProcessSendpay
      <3> QED
        BY <3>1, <1>2, <1>3, BeginKnows, Zenon
    <2> QED
      BY <2>1, <2>2, Zenon
  <1>5. Polls'
    <2>1. mon = [job |-> "sendpay", kind |-> mon.kind, todo |-> mon.todo, max |-> mon.max]
      BY DEF PayInv, Polls, ProcessSendpay, Waiting, Down
    <2> DEFINE t == Tail(mon.todo)
    <2>2. mon' = [mon EXCEPT !.todo = t]
      BY Zenon DEF ProcessSendpay
    <2> HIDE DEF t
    <2>3. mon' = [job |-> "sendpay", kind |-> mon.kind, todo |-> t, max |-> mon.max]
      BY <2>1, <2>2
    <2> QED
      BY <2>3, Zenon DEF Polls
  <1> QED
    BY <1>1, <1>2, <1>4, <1>5, NothingWrittenFinal, Zenon DEF PayInv

(* The monitor, listing the open attempts *)
LEMMA PollAttemptsStep ==
    ASSUME PayInv, PollAttempts
    PROVE  PayInv' /\ FinalStep
  <1>1. UNCHANGED <<attempts, invoice, upd>>
    BY Zenon DEF PollAttempts
  <1>2. Rows' /\ Grows
    BY <1>1, NothingWritten DEF PayInv
  <1>3. Polls'
    <2> DEFINE O == {b \in DOMAIN attempts : attempts[b].status \notin Final}
               L == {[a |-> a, ver |-> attempts[a].ver, status |-> attempts[a].status] : a \in O}
    <2>1. mon' = [job |-> "poll", todo |-> L]
      BY Zenon DEF PollAttempts
    <2>2. \A r \in L : ReadOpen(r.a, r.ver)
      BY DEF ReadOpen, PayInv, Rows, Row
    <2> HIDE DEF L
    <2>4. mon'.todo = L /\ mon' = [job |-> "poll", todo |-> mon'.todo]
      BY <2>1, Zenon
    <2> QED
      BY <2>2, <2>4, <1>2, Zenon DEF Polls, Grows
  <1> QED
    BY <1>1, <1>2, <1>3, UpdatesStill, NothingWrittenFinal, Zenon DEF PayInv

(* The monitor, looking at an attempt it listed *)
LEMMA PollAttemptStep ==
    ASSUME PayInv, NEW r \in mon.todo, PollAttempt(r)
    PROVE  PayInv' /\ FinalStep
  <1>1. UNCHANGED <<attempts, invoice>>
    BY Zenon DEF PollAttempt
  <1>2. Rows' /\ Grows
    BY <1>1, NothingWritten, Zenon DEF PayInv
  <1>3. 0 \in Updaters
    BY MaxAttemptsNat DEF Updaters
  <1>4. mon = [job |-> "poll", todo |-> mon.todo] /\ \A q \in mon.todo : ReadOpen(q.a, q.ver)
    BY DEF PayInv, Polls, PollAttempt, Waiting, Down
  <1>5. Polls'
    <2>1. mon' = [mon EXCEPT !.todo = @ \ {r}]
      BY Zenon DEF PollAttempt
    <2>2. mon' = [job |-> "poll", todo |-> mon.todo \ {r}]
      BY <2>1, <1>4
    <2>3. mon'.todo = mon.todo \ {r} /\ mon' = [job |-> "poll", todo |-> mon'.todo]
      BY <2>2, Zenon
    <2> QED
      BY <2>3, <1>2, <1>4, Zenon DEF Polls, Grows
  <1>6. Updates'
    <2>1. CASE UNCHANGED upd
      BY <2>1, <1>2, UpdatesStill, Zenon DEF PayInv
    <2>2. CASE ~UNCHANGED upd
      <3> DEFINE d == IF pays = <<>> THEN "failed" ELSE StatusOf(Len(pays))
                 y == [pc |-> IF pays = <<>> THEN "attempt" ELSE "verify", a |-> r.a,
                       ver |-> r.ver, status |-> d, verify |-> pays # <<>>, iver |-> 0]
      <3>1. upd' = [upd EXCEPT ![0] = y]
        BY <2>2, Zenon DEF PollAttempt
      <3>2. ReadOpen(r.a, r.ver)
        BY <1>4, Zenon
      <3>3. Knows(y)
        <4> HIDE DEF d
        <4>1. Place(y) /\ y.a = r.a /\ y.ver = r.ver
          BY DEF Place
        <4>2. CASE pays = <<>>
          <5>1. y.pc = "attempt" /\ ~y.verify
            BY <4>2, Zenon
          <5> QED
            BY <4>1, <5>1, <3>2, Zenon DEF Knows
        <4>3. CASE pays # <<>>
          <5>1. y.pc = "verify"
            BY <4>3, Zenon
          <5> QED
            BY <4>1, <5>1, <3>2, Zenon DEF Knows
        <4> QED
          BY <4>2, <4>3, Zenon
      <3> HIDE DEF y
      <3> QED
        BY <3>1, <3>3, <1>2, <1>3, OneUpdates, Zenon DEF PayInv
    <2> QED
      BY <2>1, <2>2
  <1> QED
    BY <1>1, <1>2, <1>5, <1>6, NothingWrittenFinal, Zenon DEF PayInv

(* The steps that write neither row and have no updater read one *)
LEMMA OtherStep ==
    ASSUME PayInv,
           \/ \E h \in Htlcs : Client(h) \/ StartNoNode(h)
           \/ \E a \in 1 .. MaxAttempts : CallXpay(a) \/ XpayReturns(a)
           \/ \E p \in DOMAIN pays : ClnResolves(p)
           \/ \E kind \in Kinds : ListSendpays(kind)
           \/ StoreIndex \/ PollDone \/ MonitorStarts \/ MonitorStops
           \/ UNCHANGED payVars
    PROVE  PayInv' /\ FinalStep
  <1>1. UNCHANGED <<attempts, invoice, upd>>
    BY Zenon DEF Client, RequestCosign, Initiate, Revoke, Expire, StartNoNode, CallXpay, XpayReturns,
           ClnResolves, ListSendpays, StoreIndex, PollDone, MonitorStarts, MonitorStops, payVars
  <1>2. Rows' /\ Grows
    BY <1>1, NothingWritten, Zenon DEF PayInv
  <1>3. Polls'
    <2>1. CASE UNCHANGED mon
      BY <2>1, <1>2, PollsStill, Zenon DEF PayInv
    <2>2. CASE \E kind \in Kinds : ListSendpays(kind)
      <3>1. \E k, t, m : mon' = [job |-> "sendpay", kind |-> k, todo |-> t, max |-> m]
        BY <2>2, Zenon DEF ListSendpays
      <3> QED
        BY <3>1, SMTT(60) DEF Polls
    <2>3. CASE StoreIndex \/ PollDone \/ MonitorStarts \/ MonitorStops
      BY <2>3, Zenon DEF StoreIndex, PollDone, MonitorStarts, MonitorStops, Polls
    <2> QED
      BY <2>1, <2>2, <2>3, Zenon DEF Client, RequestCosign, Initiate, Revoke, Expire, StartNoNode,
           CallXpay, XpayReturns, ClnResolves, payVars, monitor
  <1> QED
    BY <1>1, <1>2, <1>3, UpdatesStill, NothingWrittenFinal, Zenon DEF PayInv

LEMMA CrashStep ==
    ASSUME PayInv, Crash
    PROVE  PayInv' /\ FinalStep
  <1>1. UNCHANGED <<attempts, invoice>>
    BY Zenon DEF Crash
  <1>2. Rows'
    BY <1>1, NothingWritten, Zenon DEF PayInv
  <1>3. Updates'
    BY DEF Crash, Updates, Knows
  <1>4. Polls'
    BY Zenon DEF Crash, Polls
  <1> QED
    BY <1>1, <1>2, <1>3, <1>4, NothingWrittenFinal, Zenon DEF PayInv

LEMMA PayStep ==
    ASSUME PayInv, [PayNext]_payVars
    PROVE  PayInv' /\ FinalStep
  <1>1. CASE \E h \in Htlcs : StartPayment(h)
    BY <1>1, StartPaymentStep
  <1>2. CASE \E a \in 1 .. MaxAttempts : PayError(a)
    BY <1>2, PayErrorStep, Zenon
  <1>3. CASE \E u \in Updaters : Update(u)
    BY <1>3, VerifyStep, UpdateAttemptStep, UpdateInvoiceStep, Zenon DEF Update
  <1>4. CASE ProcessSendpay
    BY <1>4, ProcessSendpayStep
  <1>5. CASE PollAttempts
    BY <1>5, PollAttemptsStep, Zenon
  <1>6. CASE \E r \in mon.todo : PollAttempt(r)
    BY <1>6, PollAttemptStep
  <1>7. CASE Crash
    BY <1>7, CrashStep
  <1> QED
    BY <1>1, <1>2, <1>3, <1>4, <1>5, <1>6, <1>7, OtherStep, Zenon DEF PayNext, Manager, Task, Monitor

-----------------------------------------------------------------------------

(* What the updaters and the polls have read is never newer than the rows,  *)
(* and what they read as open or unpaid is so unless it was written since.  *)
THEOREM PayInvAlways == PaySpec => []PayInv
  <1>1. PayInit => PayInv
    BY PayInitInv
  <1>2. PayInv /\ [PayNext]_payVars => PayInv'
    BY PayStep
  <1> QED
    BY <1>1, <1>2, PTL DEF PaySpec

(* For any number of HTLC sets, stops of the monitor and crashes: an        *)
(* attempt that succeeded or failed is never written again and a preimage   *)
(* never lost, whichever of the task, the events and the polls write        *)
(* between the read and the write of another (update_lightning_payment_     *)
(* attempt_status, update_lightning_invoice).                               *)
THEOREM FinalStaysAlways == PaySpec => FinalStays
  <1>1. PayInv /\ [PayNext]_payVars => [FinalStep]_payVars
    BY PayStep, Zenon
  <1> QED
    BY <1>1, PayInvAlways, PTL DEF PaySpec, FinalStays, FinalStep

(***************************************************************************)
(* LnPayment again, for one HTLC: what the records say before the HTLC is  *)
(* given back.                                                             *)
(***************************************************************************)

(* No payment for h can begin any more. *)
NoStart(h) ==
    /\ h \notin ctrl
    /\ htlc[h] \in {"initiated", "revoked"} \/ h \in expired

(* CLN has not paid for h and never will. *)
Dead(h) ==
    /\ NoStart(h)
    /\ task[1] # "spawned"
    /\ \A p \in DOMAIN pays : pays[p].status = "failed"

(* CLN is through with h, and the server knows if it paid. *)
Settled(h) ==
    /\ NoStart(h)
    /\ task[1] # "spawned"
    /\ \A p \in DOMAIN pays : pays[p].status # "pending"
    /\ Paid => 1 \in DOMAIN attempts /\ attempts[1].status = "succeeded" /\ invoice.preimage

(* The one HTLC has one attempt, and that attempt one pay. *)
AskedOnce(h) ==
    /\ htlc \in [Htlcs -> {"none", "cosigned", "initiated", "revoked"}]
    /\ ctrl \subseteq {h}
    /\ h \in ctrl => htlc[h] = "initiated" /\ 1 \notin DOMAIN attempts
    /\ htlc[h] \in {"none", "cosigned"} => h \notin ctrl /\ 1 \notin DOMAIN attempts

TriedOnce(h) ==
    /\ DOMAIN attempts \subseteq {1}
    /\ \A a \in DOMAIN attempts : attempts[a].htlc = h /\ invoice.known
    /\ task = [a \in 1 .. 1 |-> task[a]]
    /\ task[1] = "spawned" => 1 \in DOMAIN attempts

SentOnce ==
    /\ IsRows(pays)
    /\ DOMAIN pays \subseteq {1}
    /\ \A p \in DOMAIN pays :
           /\ pays[p] = [status |-> pays[p].status, by |-> pays[p].by, updated |-> pays[p].updated]
           /\ pays[p].status \in {"pending", "complete", "failed"}
           /\ 1 \in DOMAIN attempts /\ task[1] # "spawned"

Once(h) == AskedOnce(h) /\ TriedOnce(h) /\ SentOnce

(* Somewhere in the server it says that the payment failed. *)
AttemptsSay == \E a \in DOMAIN attempts : attempts[a].status = "failed"
UpdatersSay == \E u \in Updaters : upd[u] # Idle /\ upd[u].status = "failed"
EventsSay == mon.job = "sendpay" /\ \E i \in DOMAIN mon.todo : mon.todo[i] = "failed"

SaidFailed == AttemptsSay \/ UpdatersSay \/ EventsSay

Events == mon.job = "sendpay" => IsRows(mon.todo)

UnpaidInv(h) ==
    /\ Once(h)
    /\ SaidFailed \/ htlc[h] = "revoked" => Dead(h)
    /\ h \in expired => Settled(h)
    /\ Events

-----------------------------------------------------------------------------

LEMMA OneRow ==
    ASSUME NEW s, IsRows(s), DOMAIN s \subseteq {1}
    PROVE  \/ s = <<>> /\ DOMAIN s = {}
           \/ s = <<s[1]>> /\ s # <<>> /\ Len(s) = 1 /\ DOMAIN s = {1}
  <1>1. PICK n \in Nat : DOMAIN s = 1 .. n /\ s = [i \in 1 .. n |-> s[i]]
    BY Zenon DEF IsRows
  <1>2. n = 0 \/ n = 1
    <2>1. n >= 2 => 2 \in 1 .. n
      OBVIOUS
    <2> QED
      BY <1>1, <2>1
  <1>3. CASE n = 0
    BY <1>1, <1>3
  <1>4. CASE n = 1
    <2>1. DOMAIN s = {1}
      BY <1>1, <1>4
    <2>2. s = <<s[1]>>
      BY <1>1, <1>4
    <2>3. Len(s) = 1 /\ s # <<>>
      BY <2>2
    <2> QED
      BY <2>1, <2>2, <2>3, Zenon
  <1> QED
    BY <1>2, <1>3, <1>4, Zenon

LEMMA FirstRow ==
    ASSUME NEW e
    PROVE  Append(<<>>, e) = <<e>> /\ Len(<<>>) = 0 /\ IsRows(<<e>>) /\ DOMAIN <<e>> = {1}
  <1>1. Append(<<>>, e) = <<e>> /\ Len(<<>>) = 0
    OBVIOUS
  <1>2. DOMAIN <<e>> = 1 .. 1 /\ <<e>> = [i \in 1 .. 1 |-> <<e>>[i]]
    OBVIOUS
  <1>3. 1 .. 1 = {1}
    OBVIOUS
  <1> QED
    BY <1>1, <1>2, <1>3, Zenon DEF IsRows

LEMMA TailRows ==
    ASSUME NEW s, IsRows(s), s # <<>>
    PROVE  /\ IsRows(Tail(s)) /\ 1 \in DOMAIN s /\ Head(s) = s[1]
           /\ \A i \in DOMAIN Tail(s) : i + 1 \in DOMAIN s /\ Tail(s)[i] = s[i + 1]
  <1>1. PICK n \in Nat : DOMAIN s = 1 .. n /\ s = [i \in 1 .. n |-> s[i]]
    BY Zenon DEF IsRows
  <1> DEFINE S == {s[i] : i \in 1 .. n}
  <1>2. s \in Seq(S) /\ Len(s) = n
    BY <1>1
  <1>3. n # 0
    BY <1>1
  <1>4. /\ Tail(s) \in Seq(S) /\ Len(Tail(s)) = n - 1 /\ Head(s) = s[1]
        /\ \A i \in 1 .. n - 1 : Tail(s)[i] = s[i + 1]
    BY <1>2, <1>3
  <1>5. n - 1 \in Nat
    BY <1>3
  <1>6. Tail(s) \in [1 .. n - 1 -> S]
    BY <1>4, SeqShape, Zenon
  <1>7. DOMAIN Tail(s) = 1 .. n - 1 /\ Tail(s) = [i \in 1 .. n - 1 |-> Tail(s)[i]]
    BY <1>6, Zenon
  <1>8. IsRows(Tail(s))
    BY <1>5, <1>7, Zenon DEF IsRows
  <1>9. \A i \in 1 .. n - 1 : i + 1 \in 1 .. n
    BY <1>5
  <1> QED
    BY <1>1, <1>3, <1>4, <1>7, <1>8, <1>9

LEMMA OneAttempt ==
    ASSUME NEW h, Htlcs = {h}
    PROVE  MaxAttempts = 1 /\ Updaters = {0, 1}
  <1>1. MaxAttempts = 1
    BY FS_Singleton, Zenon DEF MaxAttempts
  <1> QED
    BY <1>1 DEF Updaters

-----------------------------------------------------------------------------
(* One attempt and one pay *)

LEMMA AskedStep ==
    ASSUME NEW h, Htlcs = {h}, Once(h), Client(h) \/ StartNoNode(h)
    PROVE  Once(h)'
  <1>1. UNCHANGED <<attempts, task, pays, invoice>>
    BY Zenon DEF Client, RequestCosign, Initiate, Revoke, Expire, StartNoNode
  <1>2. TriedOnce(h)' /\ SentOnce'
    BY <1>1 DEF Once, TriedOnce, SentOnce, IsRows
  <1>3. AskedOnce(h)'
    <2>1. CASE RequestCosign(h)
      BY <2>1, <1>1, Zenon DEF RequestCosign, Once, AskedOnce
    <2>2. CASE Initiate(h)
      BY <2>2, <1>1, Zenon DEF Initiate, Once, AskedOnce
    <2>3. CASE Revoke(h)
      BY <2>3, <1>1, Zenon DEF Revoke, Once, AskedOnce
    <2>4. CASE Expire(h) \/ StartNoNode(h)
      BY <2>4, <1>1, Zenon DEF Expire, StartNoNode, Once, AskedOnce
    <2> QED
      BY <2>1, <2>2, <2>3, <2>4, Zenon DEF Client
  <1> QED
    BY <1>2, <1>3, Zenon DEF Once

LEMMA TriedStep ==
    ASSUME NEW h, Htlcs = {h}, PayInv, Once(h), StartPayment(h)
    PROVE  Once(h)'
  <1> DEFINE e == [status |-> "requested", ver |-> 0, htlc |-> h]
  <1>1. h \in ctrl /\ ctrl' = ctrl \ {h} /\ UNCHANGED <<htlc, pays>>
    BY DEF StartPayment
  <1>2. attempts = <<>>
    <2>1. IsRows(attempts) /\ DOMAIN attempts \subseteq {1} /\ 1 \notin DOMAIN attempts
      BY <1>1, Zenon DEF Once, TriedOnce, AskedOnce, PayInv, Rows
    <2> QED
      BY <2>1, OneRow, Zenon
  <1>3. attempts' = <<e>> /\ DOMAIN attempts' = {1} /\ attempts'[1] = e /\ Len(attempts) = 0
    <2>1. attempts' = Append(<<>>, e)
      BY <1>2 DEF StartPayment, StorePaymentStart, StorePaymentAttempt
    <2> HIDE DEF e
    <2>2. attempts' = <<e>> /\ DOMAIN attempts' = {1} /\ Len(<<>>) = 0
      BY <2>1, FirstRow
    <2> QED
      BY <2>2, <1>2, Zenon
  <1>4. invoice'.known
    BY Zenon DEF StartPayment, StorePaymentStart, PayInv, Rows
  <1>5. task' = [a \in 1 .. 1 |-> task'[a]]
    <2>1. PICK t : task' = [task EXCEPT ![Len(attempts) + 1] = t]
      BY Zenon DEF StartPayment
    <2> QED
      BY <2>1, Zenon DEF Once, TriedOnce
  <1>6. TriedOnce(h)'
    <2>1. e.htlc = h
      BY Zenon
    <2> QED
      BY <2>1, <1>3, <1>4, <1>5, Zenon DEF TriedOnce
  <1>7. AskedOnce(h)'
    BY <1>1, Zenon DEF Once, AskedOnce
  <1>8. SentOnce'
    <2>1. 1 \notin DOMAIN attempts
      BY <1>1, Zenon DEF Once, AskedOnce
    <2>2. DOMAIN pays = {} /\ IsRows(pays)
      BY <2>1, Zenon DEF Once, SentOnce
    <2> QED
      BY <2>2, <1>1, Zenon DEF SentOnce, IsRows
  <1> QED
    BY <1>6, <1>7, <1>8, Zenon DEF Once

LEMMA SentStep ==
    ASSUME NEW h, Htlcs = {h}, Once(h), CallXpay(1)
    PROVE  Once(h)'
  <1>1. UNCHANGED <<htlc, ctrl, invoice, attempts>> /\ task[1] = "spawned"
    BY Zenon DEF CallXpay
  <1>2. AskedOnce(h)'
    BY <1>1, Zenon DEF Once, AskedOnce
  <1>3. 1 \in DOMAIN attempts /\ task[1] = "spawned" /\ pays = <<>>
    <2>1. IsRows(pays) /\ DOMAIN pays = {}
      BY <1>1, Zenon DEF Once, SentOnce
    <2> QED
      BY <2>1, <1>1, OneRow DEF Once, TriedOnce
  <1> DEFINE e == [status |-> "pending", by |-> 1, updated |-> 0]
  <1>4. pays' = Append(<<>>, e) /\ task' = [task EXCEPT ![1] = "waiting"]
    BY <1>3 DEF CallXpay
  <1>5. TriedOnce(h)' /\ task'[1] # "spawned"
    <2>1. task' = [a \in 1 .. 1 |-> IF a = 1 THEN "waiting" ELSE task[a]]
      BY <1>4, Zenon DEF Once, TriedOnce
    <2>2. task' = [a \in 1 .. 1 |-> task'[a]] /\ task'[1] = "waiting"
      BY <2>1
    <2> QED
      BY <1>1, <2>2, Zenon DEF Once, TriedOnce
  <1>6. e = [status |-> e.status, by |-> e.by, updated |-> e.updated] /\ e.status = "pending"
    BY Zenon
  <1>7. SentOnce'
    <2> HIDE DEF e
    <2>1. pays' = <<e>> /\ IsRows(pays') /\ DOMAIN pays' = {1}
      BY <1>4, FirstRow
    <2> QED
      BY <2>1, <1>1, <1>3, <1>5, <1>6 DEF SentOnce
  <1> QED
    BY <1>2, <1>5, <1>7, Zenon DEF Once

LEMMA ResolvedStep ==
    ASSUME NEW h, Once(h), NEW p \in DOMAIN pays, ClnResolves(p)
    PROVE  Once(h)'
  <1>1. UNCHANGED <<htlc, ctrl, invoice, attempts, task>>
    BY Zenon DEF ClnResolves
  <1>2. AskedOnce(h)' /\ TriedOnce(h)'
    BY <1>1, Zenon DEF Once, AskedOnce, TriedOnce
  <1>3. PICK s \in {"complete", "failed"} :
            pays' = [pays EXCEPT ![p] = [status |-> s, by |-> @.by, updated |-> Updated + 1]]
    BY Zenon DEF ClnResolves
  <1>4. SentOnce'
    <2> DEFINE n == Updated + 1
               r == pays[p]
    <2>1. p = 1 /\ DOMAIN pays = {1} /\ pays = [i \in {1} |-> pays[i]]
          /\ r = [status |-> r.status, by |-> r.by, updated |-> r.updated]
      BY DEF Once, SentOnce, IsRows
    <2> HIDE DEF n
    <2>2. pays' = [pays EXCEPT ![p] = [status |-> s, by |-> r.by, updated |-> n]]
      BY <1>3, Zenon DEF n
    <2>3. IsRows(pays') /\ DOMAIN pays' = {1} /\ pays'[1] = [status |-> s, by |-> r.by, updated |-> n]
      <3>1. pays' = [i \in {1} |-> [status |-> s, by |-> r.by, updated |-> n]]
        BY <2>1, <2>2, Zenon
      <3>2. 1 .. 1 = {1}
        OBVIOUS
      <3> QED
        BY <3>1, <3>2 DEF IsRows
    <2> QED
      BY <2>3, <1>1, SMTT(60) DEF Once, SentOnce
  <1> QED
    BY <1>2, <1>4, Zenon DEF Once

LEMMA WrittenOnce ==
    ASSUME NEW h, PayInv, Once(h), NEW u \in Updaters, Update(u)
    PROVE  Once(h)'
  <1>1. UNCHANGED <<htlc, ctrl, task, pays>>
    BY Zenon DEF Update, Verify, UpdateAttempt, UpdateInvoice
  <1>2. DOMAIN attempts' = DOMAIN attempts /\ \A a \in DOMAIN attempts : attempts'[a].htlc = attempts[a].htlc
    <2>1. CASE UNCHANGED attempts
      BY <2>1, Zenon
    <2>2. CASE ~UNCHANGED attempts
      <3>1. attempts' = [attempts EXCEPT ![upd[u].a] = Written(@, upd[u].status)]
        BY <2>2, Zenon DEF Update, Verify, UpdateAttempt, UpdateInvoice
      <3> QED
        BY <3>1, Zenon DEF Written, PayInv, Rows, IsRows
    <2> QED
      BY <2>1, <2>2, Zenon
  <1>3. invoice'.known = invoice.known
    BY DEF Update, Verify, UpdateAttempt, UpdateInvoice
  <1> QED
    BY <1>1, <1>2, <1>3, SMTT(60) DEF Once, AskedOnce, TriedOnce, SentOnce, IsRows

LEMMA TaskStep ==
    ASSUME NEW h, Once(h), XpayReturns(1) \/ PayError(1)
    PROVE  Once(h)' /\ task'[1] # "spawned"
  <1>1. UNCHANGED <<htlc, ctrl, invoice, attempts, pays>>
    BY Zenon DEF XpayReturns, PayError
  <1>2. PICK t : task' = [task EXCEPT ![1] = t] /\ t # "spawned"
    BY Zenon DEF XpayReturns, PayError
  <1>3. task' = [a \in 1 .. 1 |-> task'[a]] /\ task'[1] # "spawned"
    <2>1. task' = [a \in 1 .. 1 |-> IF a = 1 THEN t ELSE task[a]]
      BY <1>2, Zenon DEF Once, TriedOnce
    <2>2. task'[1] = t
      BY <2>1
    <2>3. task' = [a \in 1 .. 1 |-> task'[a]]
      BY <2>1, Zenon
    <2> QED
      BY <1>2, <2>2, <2>3, Zenon
  <1> QED
    BY <1>1, <1>3, SMTT(60) DEF Once, AskedOnce, TriedOnce, SentOnce, IsRows

LEMMA CrashOnce ==
    ASSUME NEW h, Once(h), Crash
    PROVE  Once(h)' /\ task'[1] # "spawned"
  <1>1. UNCHANGED <<htlc, invoice, attempts, pays>> /\ ctrl' = {}
    BY Zenon DEF Crash
  <1>2. task' = [a \in 1 .. 1 |-> IF task[a] = "none" THEN "none" ELSE "done"]
    BY Zenon DEF Crash, Once, TriedOnce
  <1>3. task' = [a \in 1 .. 1 |-> task'[a]] /\ task'[1] # "spawned"
    BY <1>2
  <1> QED
    BY <1>1, <1>3, SMTT(60) DEF Once, AskedOnce, TriedOnce, SentOnce, IsRows

LEMMA OnceStep ==
    ASSUME NEW h, Htlcs = {h}, PayInv, Once(h), [PayNext]_payVars
    PROVE  Once(h)'
  <1>1. CASE Client(h) \/ StartNoNode(h)
    BY <1>1, AskedStep, Zenon
  <1>2. CASE StartPayment(h)
    BY <1>2, TriedStep, Zenon
  <1>3. CASE Task(1)
    BY <1>3, SentStep, TaskStep, Zenon DEF Task
  <1>4. CASE \E p \in DOMAIN pays : ClnResolves(p)
    BY <1>4, ResolvedStep, Zenon
  <1>5. CASE \E u \in Updaters : Update(u)
    BY <1>5, WrittenOnce
  <1>6. CASE Crash
    BY <1>6, CrashOnce, Zenon
  <1>7. CASE Monitor \/ MonitorStops \/ UNCHANGED payVars
    <2>1. UNCHANGED <<htlc, ctrl, invoice, attempts, task, pays>>
      BY <1>7, Zenon DEF Monitor, ListSendpays, ProcessSendpay, StoreIndex, PollAttempts, PollAttempt,
                  PollDone, MonitorStarts, MonitorStops, payVars
    <2> QED
      BY <2>1, SMTT(60) DEF Once, AskedOnce, TriedOnce, SentOnce, IsRows
  <1>8. \A a \in 1 .. MaxAttempts : a = 1
    BY OneAttempt
  <1> QED
    BY <1>1, <1>2, <1>3, <1>4, <1>5, <1>6, <1>7, <1>8, Zenon DEF PayNext, Manager

-----------------------------------------------------------------------------
(* What is over stays over *)

LEMMA NoStartStays ==
    ASSUME NEW h, Htlcs = {h}, Once(h), NoStart(h), [PayNext]_payVars
    PROVE  /\ NoStart(h)'
           /\ ~\E g \in Htlcs : StartPayment(g)
  <1>1. CASE Client(h)
    BY <1>1, Zenon DEF Client, RequestCosign, Initiate, Revoke, Expire, NoStart, Once, AskedOnce, StartPayment
  <1>2. CASE ~Client(h)
    <2>1. UNCHANGED <<htlc, expired>> /\ ctrl' \subseteq ctrl
      BY <1>2, Zenon DEF PayNext, Manager, StartNoNode, StartPayment, Task, CallXpay, XpayReturns, PayError,
         ClnResolves, Update, Verify, UpdateAttempt, UpdateInvoice, Monitor, ListSendpays,
         ProcessSendpay, StoreIndex, PollAttempts, PollAttempt, PollDone, MonitorStarts,
         MonitorStops, Crash, payVars
    <2> QED
      BY <2>1, Zenon DEF NoStart, StartPayment
  <1> QED
    BY <1>1, <1>2, Zenon

(* CLN's pays change only for a task that was spawned or a pay that was      *)
(* pending.                                                                 *)
LEMMA PaysStay ==
    ASSUME NEW h, Htlcs = {h}, Once(h), NoStart(h), [PayNext]_payVars, task[1] # "spawned",
           \A p \in DOMAIN pays : pays[p].status # "pending"
    PROVE  UNCHANGED pays /\ task'[1] # "spawned"
  <1>1. CASE Task(1)
    BY <1>1, TaskStep, Zenon DEF Task, CallXpay, XpayReturns, PayError
  <1>2. CASE \E p \in DOMAIN pays : ClnResolves(p)
    BY <1>2, Zenon DEF ClnResolves
  <1>3. CASE Crash
    BY <1>3, CrashOnce, Zenon DEF Crash
  <1>4. CASE ~Crash /\ ~Task(1) /\ ~\E p \in DOMAIN pays : ClnResolves(p)
    <2>1. \A a \in 1 .. MaxAttempts : a = 1
      BY OneAttempt
    <2>2. ~\E g \in Htlcs : StartPayment(g)
      BY NoStartStays, Zenon
    <2>3. UNCHANGED <<pays, task>>
      BY <1>4, <2>1, <2>2, Zenon DEF PayNext, Client, RequestCosign, Initiate, Revoke, Expire, Manager,
         StartNoNode, Update, Verify, UpdateAttempt, UpdateInvoice, Monitor, ListSendpays,
         ProcessSendpay, StoreIndex, PollAttempts, PollAttempt, PollDone, MonitorStarts,
         MonitorStops, payVars
    <2> QED
      BY <2>3, Zenon
  <1> QED
    BY <1>1, <1>2, <1>3, <1>4, Zenon

LEMMA DeadStays ==
    ASSUME NEW h, Htlcs = {h}, Once(h), Dead(h), [PayNext]_payVars
    PROVE  Dead(h)'
  <1>1. UNCHANGED pays /\ task'[1] # "spawned"
    BY PaysStay, Zenon DEF Dead
  <1>2. NoStart(h)'
    BY NoStartStays, Zenon DEF Dead
  <1> QED
    BY <1>1, <1>2, Zenon DEF Dead

LEMMA SettledStays ==
    ASSUME NEW h, Htlcs = {h}, PayInv, Once(h), Settled(h), [PayNext]_payVars
    PROVE  Settled(h)'
  <1>1. UNCHANGED pays /\ task'[1] # "spawned"
    BY PaysStay, Zenon DEF Settled
  <1>2. NoStart(h)' /\ ~\E g \in Htlcs : StartPayment(g)
    BY NoStartStays, Zenon DEF Settled
  <1>3. FinalStep
    BY PayStep, Zenon
  <1>4. DOMAIN attempts' = DOMAIN attempts
    <2>1. CASE UNCHANGED attempts
      BY <2>1, Zenon
    <2>2. CASE ~UNCHANGED attempts
      <3>1. PICK u \in Updaters : UpdateAttempt(u)
        BY <2>2, <1>2, Zenon DEF PayNext, Client, RequestCosign, Initiate, Revoke, Expire, Manager,
           StartNoNode, Task, CallXpay, XpayReturns, PayError, ClnResolves, Update, Verify,
           UpdateInvoice, Monitor, ListSendpays, ProcessSendpay, StoreIndex, PollAttempts,
           PollAttempt, PollDone, MonitorStarts, MonitorStops, Crash, payVars
      <3> QED
        BY <2>2, <3>1 DEF UpdateAttempt, PayInv, Rows, IsRows
    <2> QED
      BY <2>1, <2>2
  <1>5. Paid' => attempts'[1].status = "succeeded" /\ 1 \in DOMAIN attempts' /\ invoice'.preimage
    <2>1. Paid' => Paid
      BY <1>1, Zenon DEF Paid
    <2> QED
      BY <2>1, <1>3, <1>4, Zenon DEF Settled, FinalStep, Final
  <1> QED
    BY <1>1, <1>2, <1>5, Zenon DEF Settled

-----------------------------------------------------------------------------
(* Who says failed *)

LEMMA LastOne ==
    ASSUME NEW h, PayInv, Once(h)
    PROVE  /\ 1 \in DOMAIN attempts => LastStatus = attempts[1].status
           /\ 1 \notin DOMAIN attempts => LastStatus = "none"
  <1>1. IsRows(attempts) /\ DOMAIN attempts \subseteq {1}
    BY Zenon DEF PayInv, Rows, Once, TriedOnce
  <1> QED
    BY <1>1, OneRow, Zenon DEF LastStatus

(* A pay that CLN lists as failed *)
LEMMA FailedPayDead ==
    ASSUME NEW h, Htlcs = {h}, Once(h), NEW p \in DOMAIN pays, StatusOf(p) = "failed"
    PROVE  Dead(h)
  <1>1. p = 1 /\ DOMAIN pays = {1} /\ task[1] # "spawned" /\ 1 \in DOMAIN attempts
    BY DEF Once, SentOnce
  <1>2. pays[p].status = "failed"
    <2>1. pays[p].status \in {"pending", "complete", "failed"}
      BY Zenon DEF Once, SentOnce
    <2> QED
      BY <2>1, Zenon DEF StatusOf
  <1>3. NoStart(h)
    <2>1. h \notin ctrl /\ htlc[h] \notin {"none", "cosigned"}
      BY <1>1, Zenon DEF Once, AskedOnce
    <2>2. htlc[h] \in {"none", "cosigned", "initiated", "revoked"} \/ h \notin Htlcs
      BY Zenon DEF Once, AskedOnce
    <2> QED
      BY <2>1, <2>2, Zenon DEF NoStart
  <1> QED
    BY <1>1, <1>2, <1>3, Zenon DEF Dead

LEMMA ListedRows ==
    ASSUME NEW h, Once(h), NEW kind, NEW start
    PROVE  LET l == InOrder(kind, ListedFrom(kind, start))
           IN  /\ \E n \in Nat : DOMAIN l = 1 .. n
               /\ \A i \in DOMAIN l : l[i] \in DOMAIN pays
  <1> DEFINE S == ListedFrom(kind, start)
             Ordered(s) == \A i, j \in DOMAIN s : i < j => IndexOf(kind, s[i]) < IndexOf(kind, s[j])
             l == InOrder(kind, S)
  <1>1. S \subseteq DOMAIN pays /\ (S = {} \/ S = {1})
    BY Zenon DEF Once, SentOnce, ListedFrom
  <1>2. PICK n \in {0, 1} : Cardinality(S) = n /\ (n = 1 => S = {1})
    <2>1. S = {} => Cardinality(S) = 0
      BY FS_EmptySet, Zenon
    <2>2. S = {1} => Cardinality(S) = 1
      BY FS_Singleton, Zenon
    <2> QED
      BY <1>1, <2>1, <2>2
  <1> HIDE DEF S
  <1> DEFINE w == [i \in 1 .. n |-> 1]
  <1>3. w \in [1 .. Cardinality(S) -> S] /\ Ordered(w)
    <2>1. \A i, j \in 1 .. n : ~(i < j)
      BY <1>2
    <2>2. w \in [1 .. n -> S]
      BY <1>2
    <2> QED
      BY <2>1, <2>2, <1>2, Zenon
  <1>4. l \in [1 .. Cardinality(S) -> S]
    <2>1. l = CHOOSE s \in [1 .. Cardinality(S) -> S] : Ordered(s)
      BY Zenon DEF InOrder
    <2> HIDE DEF Ordered, w, l
    <2> QED
      BY <2>1, <1>3, Zenon
  <1>5. DOMAIN l = 1 .. n /\ \A i \in DOMAIN l : l[i] \in S
    BY <1>2, <1>4, Zenon
  <1> QED
    BY <1>1, <1>2, <1>5, Zenon DEF S

(* What a step makes the server say is true. *)
Learns(h) == Events' /\ (SaidFailed' => SaidFailed \/ Dead(h))

LEMMA UpdaterLearns ==
    ASSUME PayInv, NEW u \in Updaters, NEW x, upd' = [upd EXCEPT ![u] = x],
           UpdatersSay', ~UpdatersSay
    PROVE  x # Idle /\ x.status = "failed"
  <1>1. upd' = [w \in Updaters |-> IF w = u THEN x ELSE upd[w]]
    BY Zenon DEF PayInv, Updates
  <1>2. PICK w \in Updaters : upd'[w] # Idle /\ upd'[w].status = "failed"
    BY Zenon DEF UpdatersSay
  <1>3. w = u
    BY <1>1, <1>2, Zenon DEF UpdatersSay
  <1> QED
    BY <1>1, <1>2, <1>3, Zenon

LEMMA VerifyLearns ==
    ASSUME NEW h, PayInv, UnpaidInv(h), NEW u \in Updaters, Verify(u) \/ UpdateInvoice(u)
    PROVE  Learns(h)
  <1>1. UNCHANGED <<attempts, mon>>
    BY Zenon DEF Verify, UpdateInvoice, monitor
  <1>2. Events' /\ (AttemptsSay' => AttemptsSay) /\ (EventsSay' => EventsSay)
    BY <1>1, Zenon DEF UnpaidInv, Events, AttemptsSay, EventsSay, IsRows
  <1>3. UpdatersSay' => UpdatersSay
    <2> SUFFICES ASSUME UpdatersSay', ~UpdatersSay PROVE FALSE
      BY Zenon
    <2>1. CASE Done(u)
      BY <2>1, UpdaterLearns, Zenon DEF Done
    <2>2. CASE ~Done(u)
      <3> DEFINE x == upd[u]
                 y == [pc |-> "attempt", a |-> x.a, ver |-> x.ver, status |-> x.status,
                       verify |-> x.verify, iver |-> invoice.ver]
      <3>1. upd' = [upd EXCEPT ![u] = y] /\ x.pc = "verify"
        BY <2>2, Zenon DEF Verify, UpdateInvoice
      <3>2. y.status = x.status /\ x # Idle
        BY <3>1 DEF Idle
      <3>3. y.status = "failed"
        <4> HIDE DEF y
        <4> QED
          BY <3>1, UpdaterLearns, Zenon
      <3> QED
        BY <3>2, <3>3, Zenon DEF UpdatersSay
    <2> QED
      BY <2>1, <2>2
  <1> QED
    BY <1>2, <1>3, Zenon DEF Learns, SaidFailed

LEMMA UpdateAttemptLearns ==
    ASSUME NEW h, PayInv, UnpaidInv(h), NEW u \in Updaters, UpdateAttempt(u)
    PROVE  Learns(h)
  <1> DEFINE x == upd[u]
  <1>1. x.pc = "attempt" /\ x # Idle
    BY DEF UpdateAttempt, Idle
  <1>2. Place(x) /\ ReadOpen(x.a, x.ver)
    BY <1>1, Zenon DEF PayInv, Updates, Knows, Idle
  <1>3. mon' = Down \/ UNCHANGED mon
    BY Zenon DEF UpdateAttempt, Fail
  <1>4. Events' /\ (EventsSay' => EventsSay)
    BY <1>3 DEF UnpaidInv, Events, EventsSay, IsRows, Down
  <1>5. AttemptsSay' => AttemptsSay \/ UpdatersSay
    <2>1. CASE UNCHANGED attempts
      BY <2>1, Zenon DEF AttemptsSay
    <2>2. CASE ~UNCHANGED attempts
      <3>1. attempts' = [attempts EXCEPT ![x.a] = Written(@, x.status)]
        BY <2>2, Zenon DEF UpdateAttempt
      <3>2. /\ DOMAIN attempts' = DOMAIN attempts
            /\ \A a \in DOMAIN attempts :
                   attempts'[a] = attempts[a] \/ attempts'[a].status = x.status
        BY <3>1, Zenon DEF Written, PayInv, Rows, IsRows
      <3> QED
        BY <3>2, <1>1, Zenon DEF AttemptsSay, UpdatersSay
    <2> QED
      BY <2>1, <2>2, Zenon
  <1>6. UpdatersSay' => UpdatersSay
    <2> SUFFICES ASSUME UpdatersSay', ~UpdatersSay PROVE FALSE
      BY Zenon
    <2>1. CASE Done(u)
      BY <2>1, UpdaterLearns, Zenon DEF Done
    <2>2. CASE ~Done(u)
      <3> DEFINE y == [x EXCEPT !.pc = "invoice"]
      <3>1. upd' = [upd EXCEPT ![u] = y]
        BY <2>2, Zenon DEF UpdateAttempt, Fail
      <3>2. y.status = x.status
        BY <1>2 DEF Place
      <3>3. y.status = "failed"
        <4> HIDE DEF y
        <4> QED
          BY <3>1, UpdaterLearns, Zenon
      <3> QED
        BY <3>2, <3>3, <1>1, Zenon DEF UpdatersSay
    <2> QED
      BY <2>1, <2>2, Zenon
  <1> QED
    BY <1>4, <1>5, <1>6, Zenon DEF Learns, SaidFailed

LEMMA BeginLearns ==
    ASSUME PayInv, NEW u \in Updaters, NEW a, NEW st, Begin(u, a, st, TRUE),
           UpdatersSay', ~UpdatersSay
    PROVE  st = "failed"
  <1> DEFINE x == [pc |-> "verify", a |-> a, ver |-> attempts[a].ver, status |-> st,
                   verify |-> TRUE, iver |-> 0]
  <1>1. upd' = [upd EXCEPT ![u] = x]
    BY Zenon DEF Begin
  <1>2. x.status = st
    BY Zenon
  <1> HIDE DEF x
  <1> QED
    BY <1>1, <1>2, UpdaterLearns, Zenon

LEMMA PayErrorLearns ==
    ASSUME NEW h, Htlcs = {h}, PayInv, UnpaidInv(h), PayError(1)
    PROVE  Learns(h)
  <1>1. UNCHANGED <<attempts, mon>>
    BY Zenon DEF PayError, monitor
  <1>2. Events' /\ (AttemptsSay' => AttemptsSay) /\ (EventsSay' => EventsSay)
    BY <1>1, Zenon DEF UnpaidInv, Events, AttemptsSay, EventsSay, IsRows
  <1>3. UpdatersSay' => UpdatersSay
    <2> SUFFICES ASSUME UpdatersSay', ~UpdatersSay PROVE FALSE
      BY Zenon
    <2>1. ~UNCHANGED upd
      BY Zenon DEF UpdatersSay
    <2>2. Begin(1, OpenAttempt, "submitted", TRUE)
      BY <2>1, Zenon DEF PayError
    <2>3. 1 \in Updaters
      BY OneAttempt, Zenon
    <2> QED
      BY <2>2, <2>3, BeginLearns, Zenon
  <1> QED
    BY <1>2, <1>3, Zenon DEF Learns, SaidFailed

LEMMA ProcessSendpayLearns ==
    ASSUME NEW h, PayInv, UnpaidInv(h), ProcessSendpay
    PROVE  Learns(h)
  <1> DEFINE t == Tail(mon.todo)
  <1>1. /\ IsRows(t) /\ 1 \in DOMAIN mon.todo /\ Head(mon.todo) = mon.todo[1]
        /\ \A i \in DOMAIN t : i + 1 \in DOMAIN mon.todo /\ t[i] = mon.todo[i + 1]
    BY TailRows, Zenon DEF UnpaidInv, Events, ProcessSendpay
  <1>2. mon = [job |-> "sendpay", kind |-> mon.kind, todo |-> mon.todo, max |-> mon.max]
    BY DEF PayInv, Polls, ProcessSendpay, Waiting, Down
  <1>3. mon' = [mon EXCEPT !.todo = t] /\ UNCHANGED attempts /\ mon.job = "sendpay"
    BY DEF ProcessSendpay
  <1> HIDE DEF t
  <1>4. mon'.todo = t
    BY <1>2, <1>3, Zenon
  <1>5. Events'
    BY <1>1, <1>4, Zenon DEF Events
  <1>6. EventsSay' => EventsSay
    BY <1>1, <1>3, <1>4 DEF EventsSay
  <1>7. UpdatersSay' => UpdatersSay \/ EventsSay
    <2> SUFFICES ASSUME UpdatersSay', ~UpdatersSay PROVE EventsSay
      BY Zenon
    <2>1. ~UNCHANGED upd
      BY Zenon DEF UpdatersSay
    <2>2. Begin(0, OpenAttempt, Head(mon.todo), TRUE)
      BY <2>1, Zenon DEF ProcessSendpay
    <2>3. 0 \in Updaters
      BY MaxAttemptsNat DEF Updaters
    <2>4. Head(mon.todo) = "failed"
      BY <2>2, <2>3, BeginLearns, Zenon
    <2> QED
      BY <2>4, <1>1, <1>3, Zenon DEF EventsSay
  <1>8. AttemptsSay' => AttemptsSay
    BY <1>3, Zenon DEF AttemptsSay
  <1> QED
    BY <1>5, <1>6, <1>7, <1>8 DEF Learns, SaidFailed

LEMMA ListSendpaysLearns ==
    ASSUME NEW h, Htlcs = {h}, UnpaidInv(h), NEW kind, ListSendpays(kind)
    PROVE  Learns(h)
  <1> DEFINE S == ListedFrom(kind, index[kind] + 1)
             l == InOrder(kind, S)
             t == [i \in DOMAIN l |-> StatusOf(l[i])]
             m == Max({index[kind] + 1} \cup {pays[p].updated : p \in S})
  <1>1. UNCHANGED <<attempts, upd>>
    BY Zenon DEF ListSendpays
  <1>2. mon' = [job |-> "sendpay", kind |-> kind, todo |-> t, max |-> m]
    BY Zenon DEF ListSendpays
  <1>3. PICK n \in Nat : DOMAIN l = 1 .. n
    BY ListedRows, Zenon DEF UnpaidInv
  <1>4. \A i \in DOMAIN l : l[i] \in DOMAIN pays
    BY ListedRows, Zenon DEF UnpaidInv
  <1>5. \A i \in DOMAIN t : t[i] = "failed" => Dead(h)
    <2> SUFFICES ASSUME NEW i \in DOMAIN t, t[i] = "failed" PROVE Dead(h)
      BY Zenon
    <2>1. l[i] \in DOMAIN pays /\ StatusOf(l[i]) = "failed"
      BY <1>4
    <2> QED
      BY <2>1, FailedPayDead, Zenon DEF UnpaidInv
  <1>6. IsRows(t)
    <2>1. DOMAIN t = 1 .. n /\ t = [i \in 1 .. n |-> t[i]]
      BY <1>3, Zenon
    <2> HIDE DEF t
    <2> QED
      BY <2>1, Zenon DEF IsRows
  <1> HIDE DEF t, m
  <1>7. mon'.todo = t
    BY <1>2, Zenon
  <1>8. Events' /\ (EventsSay' => Dead(h))
    BY <1>5, <1>6, <1>7, Zenon DEF Events, EventsSay
  <1>9. (AttemptsSay' => AttemptsSay) /\ (UpdatersSay' => UpdatersSay)
    BY <1>1, Zenon DEF AttemptsSay, UpdatersSay
  <1> QED
    BY <1>8, <1>9, Zenon DEF Learns, SaidFailed

(* An attempt that invoice_recheck_delay lets the monitor look at and that  *)
(* CLN has no pay for is dead.                                              *)
LEMMA PollAttemptLearns ==
    ASSUME NEW h, Htlcs = {h}, Prompt, PayInv, UnpaidInv(h), NEW r \in mon.todo, PollAttempt(r)
    PROVE  Learns(h)
  <1>1. UNCHANGED attempts
    BY Zenon DEF PollAttempt
  <1>2. mon = [job |-> "poll", todo |-> mon.todo] /\ ReadOpen(r.a, r.ver)
    BY DEF PayInv, Polls, PollAttempt, Waiting, Down
  <1>3. mon'.job = "poll"
    <2>1. mon' = [mon EXCEPT !.todo = @ \ {r}]
      BY Zenon DEF PollAttempt
    <2> QED
      BY <2>1, <1>2
  <1>4. Events' /\ ~EventsSay'
    BY <1>3, Zenon DEF Events, EventsSay
  <1>5. r.a = 1 /\ 1 \in DOMAIN attempts
    BY <1>2, Zenon DEF ReadOpen, UnpaidInv, Once, TriedOnce
  <1>6. UpdatersSay' => UpdatersSay \/ Dead(h)
    <2> SUFFICES ASSUME UpdatersSay', ~UpdatersSay PROVE Dead(h)
      BY Zenon
    <2>1. ~UNCHANGED upd
      BY Zenon DEF UpdatersSay
    <2> DEFINE d == IF pays = <<>> THEN "failed" ELSE StatusOf(Len(pays))
               y == [pc |-> IF pays = <<>> THEN "attempt" ELSE "verify", a |-> r.a,
                     ver |-> r.ver, status |-> d, verify |-> pays # <<>>, iver |-> 0]
    <2>2. upd' = [upd EXCEPT ![0] = y] /\ task[1] # "spawned"
      BY <2>1, <1>5, Zenon DEF PollAttempt, Recheck
    <2>3. 0 \in Updaters
      BY MaxAttemptsNat DEF Updaters
    <2>4. d = "failed"
      <3> HIDE DEF d
      <3>1. y.status = d
        BY Zenon
      <3> HIDE DEF y
      <3> QED
        BY <3>1, <2>2, <2>3, UpdaterLearns, Zenon
    <2>5. CASE pays = <<>>
      <3>1. NoStart(h)
        BY <1>5, Zenon DEF UnpaidInv, Once, AskedOnce, NoStart
      <3> QED
        BY <3>1, <2>2, <2>5, SMTT(60) DEF Dead
    <2>6. CASE pays # <<>>
      <3>1. Len(pays) = 1 /\ 1 \in DOMAIN pays
        BY <2>6, OneRow, Zenon DEF UnpaidInv, Once, SentOnce
      <3>2. StatusOf(1) = "failed"
        BY <2>4, <2>6, <3>1, Zenon
      <3> QED
        BY <3>1, <3>2, FailedPayDead, Zenon DEF UnpaidInv
    <2> QED
      BY <2>5, <2>6, Zenon
  <1>7. AttemptsSay' => AttemptsSay
    BY <1>1, Zenon DEF AttemptsSay
  <1> QED
    BY <1>4, <1>6, <1>7, Zenon DEF Learns, SaidFailed

LEMMA StartLearns ==
    ASSUME NEW h, PayInv, UnpaidInv(h), StartPayment(h)
    PROVE  Learns(h)
  <1> DEFINE e == [status |-> "requested", ver |-> 0, htlc |-> h]
  <1>1. attempts' = Append(attempts, e) /\ IsRows(attempts) /\ UNCHANGED <<upd, mon>>
    BY Zenon DEF StartPayment, StorePaymentStart, StorePaymentAttempt, PayInv, Rows, monitor
  <1>2. e.status = "requested"
    BY Zenon
  <1> HIDE DEF e
  <1>3. /\ \A i \in DOMAIN attempts : attempts'[i] = attempts[i]
        /\ \A i \in DOMAIN attempts' : i \in DOMAIN attempts \/ attempts'[i] = e
    BY <1>1, AppendRows, Zenon
  <1>4. AttemptsSay' => AttemptsSay
    BY <1>2, <1>3, Zenon DEF AttemptsSay
  <1>5. Events' /\ (EventsSay' => EventsSay) /\ (UpdatersSay' => UpdatersSay)
    BY <1>1, Zenon DEF UnpaidInv, Events, EventsSay, UpdatersSay, IsRows
  <1> QED
    BY <1>4, <1>5, Zenon DEF Learns, SaidFailed

LEMMA OtherLearns ==
    ASSUME NEW h, UnpaidInv(h),
           \/ \E g \in Htlcs : Client(g) \/ StartNoNode(g)
           \/ \E a \in 1 .. MaxAttempts : CallXpay(a) \/ XpayReturns(a)
           \/ \E p \in DOMAIN pays : ClnResolves(p)
           \/ StoreIndex \/ PollAttempts \/ PollDone \/ MonitorStarts \/ MonitorStops \/ Crash
           \/ UNCHANGED payVars
    PROVE  Learns(h)
  <1>1. UNCHANGED attempts
    BY Zenon DEF Client, RequestCosign, Initiate, Revoke, Expire, StartNoNode, CallXpay, XpayReturns,
           ClnResolves, StoreIndex, PollAttempts, PollDone, MonitorStarts, MonitorStops, Crash, payVars
  <1>2. UNCHANGED upd \/ upd' = [u \in Updaters |-> Idle]
    BY Zenon DEF Client, RequestCosign, Initiate, Revoke, Expire, StartNoNode, CallXpay, XpayReturns,
           ClnResolves, StoreIndex, PollAttempts, PollDone, MonitorStarts, MonitorStops, Crash, payVars
  <1>3. UNCHANGED mon \/ mon' = Waiting \/ mon' = Down \/ mon'.job = "poll"
    <2>1. CASE PollAttempts
      <3>1. \E t : mon' = [job |-> "poll", todo |-> t]
        BY <2>1, Zenon DEF PollAttempts
      <3> QED
        BY <3>1
    <2> QED
      BY <2>1, Zenon DEF Client, RequestCosign, Initiate, Revoke, Expire, StartNoNode, CallXpay,
           XpayReturns, ClnResolves, StoreIndex, PollDone, MonitorStarts, MonitorStops, Crash,
           payVars, monitor
  <1>4. Events' /\ (EventsSay' => EventsSay)
    <2>1. CASE UNCHANGED mon
      BY <2>1, Zenon DEF UnpaidInv, Events, EventsSay, IsRows
    <2>2. CASE ~UNCHANGED mon
      <3>1. mon'.job # "sendpay"
        BY <2>2, <1>3 DEF Waiting, Down
      <3> QED
        BY <3>1, Zenon DEF Events, EventsSay
    <2> QED
      BY <2>1, <2>2, Zenon
  <1>5. (AttemptsSay' => AttemptsSay) /\ (UpdatersSay' => UpdatersSay)
    BY <1>1, <1>2, Zenon DEF AttemptsSay, UpdatersSay
  <1> QED
    BY <1>4, <1>5, Zenon DEF Learns, SaidFailed

LEMMA LearnsStep ==
    ASSUME NEW h, Htlcs = {h}, Prompt, PayInv, UnpaidInv(h), [PayNext]_payVars
    PROVE  Learns(h)
  <1>1. CASE StartPayment(h)
    BY <1>1, StartLearns, Zenon
  <1>2. CASE PayError(1)
    BY <1>2, PayErrorLearns, Zenon
  <1>3. CASE \E u \in Updaters : Update(u)
    BY <1>3, VerifyLearns, UpdateAttemptLearns, Zenon DEF Update
  <1>4. CASE ProcessSendpay
    BY <1>4, ProcessSendpayLearns, Zenon
  <1>5. CASE \E kind \in Kinds : ListSendpays(kind)
    BY <1>5, ListSendpaysLearns, Zenon
  <1>6. CASE \E r \in mon.todo : PollAttempt(r)
    BY <1>6, PollAttemptLearns, Zenon
  <1>7. \A a \in 1 .. MaxAttempts : a = 1
    BY OneAttempt
  <1> QED
    BY <1>1, <1>2, <1>3, <1>4, <1>5, <1>6, <1>7, OtherLearns DEF PayNext, Manager, Task, Monitor

-----------------------------------------------------------------------------
(* Giving the HTLC back, and its expiry *)

LEMMA RevokeDead ==
    ASSUME NEW h, Htlcs = {h}, PayInv, UnpaidInv(h), Revoke(h)
    PROVE  Dead(h)
  <1>1. CASE LastStatus = "failed"
    <2>1. 1 \in DOMAIN attempts /\ attempts[1].status = "failed"
      BY <1>1, LastOne, Zenon DEF UnpaidInv
    <2> QED
      BY <2>1, Zenon DEF UnpaidInv, SaidFailed, AttemptsSay
  <1>2. CASE LastStatus # "failed"
    <2>1. Settled(h)
      BY <1>2, Zenon DEF Revoke, ShouldRevoke, UnpaidInv
    <2>2. ~Paid
      <3> SUFFICES ASSUME Paid PROVE FALSE
        BY Zenon
      <3>1. 1 \in DOMAIN attempts /\ attempts[1].status = "succeeded" /\ invoice.preimage
        BY <2>1, Zenon DEF Settled
      <3>2. LastStatus = "succeeded" /\ invoice.known
        BY <3>1, LastOne, Zenon DEF UnpaidInv, Once, TriedOnce
      <3> QED
        BY <3>1, <3>2, Zenon DEF Revoke, MayRevoke, Final
    <2>3. \A p \in DOMAIN pays : pays[p].status = "failed"
      BY <2>1, <2>2, Zenon DEF Settled, Paid, UnpaidInv, Once, SentOnce
    <2> QED
      BY <2>1, <2>3, Zenon DEF Settled, Dead
  <1> QED
    BY <1>1, <1>2, Zenon

LEMMA ExpireSettled ==
    ASSUME NEW h, Htlcs = {h}, Timely, PayInv, UnpaidInv(h), Expire(h)
    PROVE  Settled(h)'
  <1>1. /\ UNCHANGED <<htlc, ctrl, invoice, attempts, task, pays>>
        /\ expired' = expired \cup {h} /\ h \notin ctrl
    BY Zenon DEF Expire
  <1>2. NoStart(h)'
    BY <1>1, Zenon DEF NoStart
  <1>3. task[1] # "spawned"
    BY Zenon DEF Expire, UnpaidInv, Once, TriedOnce
  <1>4. \A p \in DOMAIN pays : pays[p].status # "pending"
    BY Zenon DEF Expire
  <1>5. Paid => 1 \in DOMAIN attempts /\ attempts[1].status = "succeeded" /\ invoice.preimage
    <2> SUFFICES ASSUME Paid
                 PROVE  1 \in DOMAIN attempts /\ attempts[1].status = "succeeded" /\ invoice.preimage
      BY Zenon
    <2>1. LastStatus = "succeeded" /\ invoice.preimage
      BY Zenon DEF Expire
    <2> QED
      BY <2>1, LastOne, Zenon DEF UnpaidInv
  <1>6. Paid' = Paid
    BY <1>1, Zenon DEF Paid
  <1> QED
    BY <1>1, <1>2, <1>3, <1>4, <1>5, <1>6, Zenon DEF Settled

LEMMA UnpaidStep ==
    ASSUME NEW h, Htlcs = {h}, Prompt, Timely, PayInv, UnpaidInv(h), [PayNext]_payVars
    PROVE  UnpaidInv(h)'
  <1>1. Once(h) /\ Once(h)'
    BY OnceStep, Zenon DEF UnpaidInv
  <1>2. Learns(h)
    BY LearnsStep, Zenon
  <1>3. ASSUME SaidFailed' PROVE Dead(h)'
    <2>1. Dead(h)
      BY <1>2, <1>3, Zenon DEF Learns, UnpaidInv
    <2> QED
      BY <2>1, <1>1, DeadStays, Zenon
  <1>4. ASSUME htlc'[h] = "revoked" PROVE Dead(h)'
    <2>1. htlc[h] = "revoked" \/ Revoke(h)
      <3>1. CASE UNCHANGED htlc
        BY <3>1, <1>4, Zenon
      <3>2. CASE ~UNCHANGED htlc
        <4>1. RequestCosign(h) \/ Initiate(h) \/ Revoke(h)
          BY <3>2, Zenon DEF PayNext, Client, Expire, Manager, StartNoNode, StartPayment, Task,
             CallXpay, XpayReturns, PayError, ClnResolves, Update, Verify, UpdateAttempt,
             UpdateInvoice, Monitor, ListSendpays, ProcessSendpay, StoreIndex, PollAttempts,
             PollAttempt, PollDone, MonitorStarts, MonitorStops, Crash, payVars
        <4> QED
          BY <4>1, <1>1, <1>4, Zenon DEF RequestCosign, Initiate, Once, AskedOnce
      <3> QED
        BY <3>1, <3>2, Zenon
    <2>2. Dead(h)
      BY <2>1, RevokeDead, Zenon DEF UnpaidInv
    <2> QED
      BY <2>2, <1>1, DeadStays
  <1>5. ASSUME h \in expired' PROVE Settled(h)'
    <2>1. CASE h \in expired
      BY <2>1, <1>1, SettledStays, Zenon DEF UnpaidInv
    <2>2. CASE h \notin expired
      <3>1. Expire(h)
        BY <1>5, <2>2, Zenon DEF PayNext, Client, RequestCosign, Initiate, Revoke, Manager, StartNoNode,
           StartPayment, Task, CallXpay, XpayReturns, PayError, ClnResolves, Update, Verify,
           UpdateAttempt, UpdateInvoice, Monitor, ListSendpays, ProcessSendpay, StoreIndex,
           PollAttempts, PollAttempt, PollDone, MonitorStarts, MonitorStops, Crash, payVars
      <3> QED
        BY <3>1, ExpireSettled, Zenon
    <2> QED
      BY <2>1, <2>2, Zenon
  <1> QED
    BY <1>1, <1>2, <1>3, <1>4, <1>5, Zenon DEF UnpaidInv, Learns

LEMMA UnpaidInit ==
    ASSUME NEW h, Htlcs = {h}, PayInit
    PROVE  UnpaidInv(h)
  <1>1. IsRows(pays)
    <2>1. DOMAIN pays = 1 .. 0 /\ pays = [i \in 1 .. 0 |-> pays[i]]
      BY DEF PayInit
    <2> QED
      BY <2>1, Zenon DEF IsRows
  <1>2. Once(h)
    <2>1. task = [a \in 1 .. 1 |-> "none"]
      BY OneAttempt, Zenon DEF PayInit
    <2>2. task = [a \in 1 .. 1 |-> task[a]] /\ task[1] = "none"
      BY <2>1
    <2>3. attempts = <<>> /\ pays = <<>> /\ DOMAIN attempts = {} /\ DOMAIN pays = {}
      BY SMTT(60) DEF PayInit
    <2>4. TriedOnce(h)
      BY <2>2, <2>3, Zenon DEF TriedOnce
    <2>5. SentOnce
      BY <1>1, <2>3, Zenon DEF SentOnce
    <2>6. AskedOnce(h)
      BY <2>3, Zenon DEF PayInit, AskedOnce
    <2> QED
      BY <2>4, <2>5, <2>6, Zenon DEF Once
  <1>3. ~SaidFailed /\ Events
    BY SMTT(60) DEF PayInit, SaidFailed, AttemptsSay, UpdatersSay, EventsSay, Events, Waiting
  <1> QED
    BY <1>2, <1>3, Zenon DEF UnpaidInv, PayInit

LEMMA UnpaidInvSound ==
    ASSUME NEW h, Htlcs = {h}, PayInv, UnpaidInv(h)
    PROVE  RevokedUnpaid /\ FailedMeansFailed
  <1>1. RevokedUnpaid
    <2> SUFFICES ASSUME Paid PROVE htlc[h] = "initiated"
      BY Zenon DEF RevokedUnpaid
    <2>1. 1 \in DOMAIN attempts
      BY Zenon DEF Paid, UnpaidInv, Once, SentOnce
    <2>2. ~Dead(h)
      BY Zenon DEF Paid, Dead
    <2> QED
      BY <2>1, <2>2, Zenon DEF UnpaidInv, Once, AskedOnce
  <1>2. FailedMeansFailed
    BY Zenon DEF FailedMeansFailed, UnpaidInv, SaidFailed, AttemptsSay, Dead
  <1> QED
    BY <1>1, <1>2, Zenon

(* The behaviours the theorem is about: the wallet uses one HTLC, xpay      *)
(* reaches CLN within invoice_recheck_delay and the monitor catches up      *)
(* before the HTLC expires.                                                 *)
OnePayment == Cardinality(Htlcs) = 1 /\ Prompt /\ Timely

(* For any number of stops of the monitor and crashes, and errors of xpay   *)
(* while CLN goes on: an HTLC that revoke_bolt11_payment gave back is never *)
(* paid for, and an attempt is Failed only if CLN's payment is.             *)
THEOREM RevokedUnpaidAlways == OnePayment => (PaySpec => [](RevokedUnpaid /\ FailedMeansFailed))
  <1> SUFFICES ASSUME OnePayment PROVE PaySpec => [](RevokedUnpaid /\ FailedMeansFailed)
    BY Zenon
  <1>1. PICK h : Htlcs = {h}
    <2>1. IsFiniteSet(Htlcs) /\ Cardinality(Htlcs) = 1
      BY PayAssumption, Zenon DEF OnePayment
    <2> QED
      BY <2>1, FS_Singleton, Zenon
  <1>2. PayInit => UnpaidInv(h)
    BY <1>1, UnpaidInit, Zenon
  <1>3. PayInv /\ UnpaidInv(h) /\ [PayNext]_payVars => UnpaidInv(h)'
    BY <1>1, UnpaidStep, Zenon DEF OnePayment
  <1>4. PayInv /\ UnpaidInv(h) => RevokedUnpaid /\ FailedMeansFailed
    BY <1>1, UnpaidInvSound, Zenon
  <1> QED
    BY <1>2, <1>3, <1>4, PayInvAlways, PTL DEF PaySpec

(***************************************************************************)
(* LnReceive: a hold invoice has one payer.                                *)
(***************************************************************************)

(* The behaviours the theorem is about: where another user of the server    *)
(* pays, the receiver made one subscription and the manager's cancelling    *)
(* of the hold invoice does not fail.  Timeouts, blocks and the invoice's   *)
(* expiry are as they may be.                                               *)
OneSubscription == \A m \in ReceiveModes : m.intra => m.subs = 1 /\ ~m.cancelFails

(* The attempt of the other user keeps the hold invoice from being paid:    *)
(* while the manager is at work it settles nothing, and afterwards the      *)
(* invoice is cancelled for good.  A claim comes too late for the manager   *)
(* to begin.                                                                *)
Exclusive ==
    /\ attempt \in {"open", "succeeded"} => mgr # NoTask \/ hold = "cancelled"
    /\ mgr # NoTask => hold # "paid"
    /\ subs # <<>> /\ (hold = "paid" \/ \E c \in Requests : req[c] # NoTask) => subs[1] # "created"
    /\ subs = <<>> => /\ attempt = "none" /\ mgr = NoTask /\ hold # "paid"
                      /\ \A c \in Requests : req[c] = NoTask

Shapes ==
    /\ subs \in Seq(Statuses) /\ Len(subs) <= 1
    /\ mgr = NoTask \/ mgr = [pc |-> mgr.pc, sub |-> mgr.sub]
    /\ req = [c \in Requests |-> req[c]]

ReceiveInv ==
    /\ receiveMode \in ReceiveModes
    /\ ~receiveMode.intra => attempt = "none"
    /\ receiveMode.intra => Shapes /\ Exclusive

LEMMA ReceiveInitInv == ReceiveInit => ReceiveInv
  BY DEF ReceiveInit, ReceiveInv, Shapes, Exclusive, Statuses

LEMMA OneLong == ASSUME NEW s \in Seq(Statuses), Len(s) <= 1, s # <<>> PROVE Len(s) = 1
  <1>1. Len(s) \in Nat
    BY SeqShape, Zenon
  <1>2. Len(s) # 0
    BY NoElements, Zenon
  <1>3. \A n \in Nat : n <= 1 /\ n # 0 => n = 1
    OBVIOUS
  <1> QED
    BY <1>1, <1>2, <1>3, Zenon

(* Storing a status other than created *)
LEMMA StatusStored ==
    ASSUME NEW i, NEW st \in Statuses \ {"created"}, subs \in Seq(Statuses), Len(subs) <= 1,
           StoreStatus(i, st)
    PROVE  /\ subs' \in Seq(Statuses) /\ Len(subs') = Len(subs)
           /\ subs' = <<>> <=> subs = <<>>
           /\ subs # <<>> /\ subs'[1] = "created" => subs[1] = "created"
  <1>1. subs' = [subs EXCEPT ![i] = st]
    BY Zenon DEF StoreStatus
  <1>2. subs' \in Seq(Statuses) /\ Len(subs') = Len(subs)
    <2>1. CASE i \in 1 .. Len(subs)
      BY <1>1, <2>1
    <2>2. CASE i \notin 1 .. Len(subs)
      <3>1. DOMAIN subs = 1 .. Len(subs)
        BY SeqShape, Zenon
      <3>2. subs' = subs
        BY <1>1, <2>2, <3>1
      <3> QED
        BY <3>2, Zenon
    <2> QED
      BY <2>1, <2>2, Zenon
  <1>3. subs = <<>> <=> Len(subs) = 0
    BY NoElements, Zenon
  <1>4. subs' = <<>> <=> Len(subs') = 0
    BY <1>2, NoElements, Zenon
  <1>5. subs # <<>> => 1 \in DOMAIN subs
    BY <1>3, SeqShape
  <1>6. subs # <<>> => subs'[1] = st \/ subs'[1] = subs[1]
    BY <1>1, <1>5, Zenon
  <1> QED
    BY <1>2, <1>3, <1>4, <1>6, Zenon

LEMMA NotIntraStep ==
    ASSUME ReceiveInv, ~receiveMode.intra, [ReceiveNext]_receiveVars
    PROVE  ReceiveInv'
  <1>1. UNCHANGED receiveMode
    BY Zenon DEF ReceiveNext, receiveVars
  <1>2. attempt' = "none"
    BY Zenon DEF ReceiveInv, ReceiveNext, receiveVars, moved, intra, StartReceive, Network, NetworkPays,
           TimeoutPasses, BlocksArrive, InvoiceExpires, ReceiveManager, PayIntra, AcceptIntra,
           CancelIntra, RevokeIntra, ReceiveMonitor, ListSubscriptions, CheckSubscription,
           StoreChecked, CancelHold, StoreCanceled, FailAttempt, Receiver, Prepare, StoreHtlcs,
           Claim, Settle, SettleAttempt, SettleHold, StoreSettled, Cosign
  <1> QED
    BY <1>1, <1>2, Zenon DEF ReceiveInv

LEMMA StartReceiveStep ==
    ASSUME ReceiveInv, receiveMode.intra, receiveMode.subs = 1, StartReceive
    PROVE  Shapes' /\ Exclusive'
  <1>1. Shapes /\ Exclusive
    BY Zenon DEF ReceiveInv
  <1>2. subs = <<>> /\ Len(subs) = 0
    <2>1. Len(subs) = 0
      BY <1>1 DEF Shapes, StartReceive
    <2> QED
      BY <2>1, <1>1, NoElements, Zenon DEF Shapes
  <1>3. subs' = Append(subs, "created")
    BY Zenon DEF StartReceive
  <1>4. subs' \in Seq(Statuses) /\ Len(subs') = 1 /\ subs' # <<>>
    <2>1. subs' \in Seq(Statuses) /\ Len(subs') = Len(subs) + 1
      BY <1>1, <1>3 DEF Shapes, Statuses
    <2>2. Len(subs') = 1
      BY <2>1, <1>2
    <2>3. subs' # <<>>
      BY <2>1, <2>2, NoElements
    <2> QED
      BY <2>1, <2>2, <2>3, Zenon
  <1>5. UNCHANGED <<attempt, mgr, req>> /\ hold' = "unpaid"
    BY Zenon DEF StartReceive, intra, receiver
  <1> QED
    BY <1>1, <1>2, <1>4, <1>5, SMTT(60) DEF Shapes, Exclusive

(* Another user of the server pays. *)
LEMMA ManagerStep ==
    ASSUME ReceiveInv, receiveMode.intra, receiveMode.subs = 1, ~receiveMode.cancelFails,
           ReceiveManager
    PROVE  Shapes' /\ Exclusive'
  <1>1. Shapes /\ Exclusive
    BY Zenon DEF ReceiveInv
  <1>2. CASE PayIntra
    <2>1. UNCHANGED <<subs, hold, req>> /\ subs # <<>> /\ mgr = NoTask /\ attempt = "none"
      BY <1>2, Zenon DEF PayIntra, receiver
    <2>2. CASE UNCHANGED mgr
      BY <2>1, <2>2, <1>1, <1>2, SMTT(60) DEF PayIntra, Shapes, Exclusive, NoTask
    <2>3. CASE ~UNCHANGED mgr
      <3>1. subs[Len(subs)] = "created" /\ mgr' = [pc |-> "accept", sub |-> Len(subs)]
        BY <2>3, <1>2, Zenon DEF PayIntra
      <3>2. Len(subs) = 1
        BY <2>1, <1>1, OneLong, Zenon DEF Shapes
      <3>3. subs[1] = "created"
        BY <3>1, <3>2, Zenon
      <3>4. mgr' # NoTask /\ mgr' = [pc |-> mgr'.pc, sub |-> mgr'.sub]
        BY <3>1, Zenon DEF NoTask
      <3> QED
        BY <2>1, <3>3, <3>4, <1>1, Zenon DEF Shapes, Exclusive
    <2> QED
      BY <2>2, <2>3, Zenon
  <1>3. CASE AcceptIntra
    <2>1. StoreStatus(mgr.sub, "accepted") /\ UNCHANGED <<hold, attempt, req>>
      BY <1>3, Zenon DEF AcceptIntra, receiver
    <2>2. mgr # NoTask /\ mgr' # NoTask /\ mgr' = [pc |-> mgr'.pc, sub |-> mgr'.sub]
      <3>1. mgr # NoTask /\ mgr = [pc |-> mgr.pc, sub |-> mgr.sub]
        BY <1>1, <1>3 DEF AcceptIntra, NoTask, Shapes
      <3>2. mgr' = [mgr EXCEPT !.pc = "cancel"]
        BY <1>3, Zenon DEF AcceptIntra
      <3>3. mgr' = [pc |-> "cancel", sub |-> mgr.sub]
        BY <3>1, <3>2, Zenon
      <3> QED
        BY <3>1, <3>3, Zenon DEF NoTask
    <2>3. /\ subs' \in Seq(Statuses) /\ Len(subs') = Len(subs)
          /\ subs' = <<>> <=> subs = <<>>
          /\ subs # <<>> /\ subs'[1] = "created" => subs[1] = "created"
      BY <2>1, <1>1, StatusStored, Zenon DEF Shapes, Statuses
    <2> QED
      BY <2>1, <2>2, <2>3, <1>1 DEF Shapes, Exclusive
  <1>4. CASE CancelIntra
    <2>1. mgr # NoTask /\ mgr' = NoTask /\ UNCHANGED <<subs, req>>
      BY <1>4 DEF CancelIntra, NoTask, receiver
    <2>2. hold # "paid"
      BY <2>1, <1>1, Zenon DEF Exclusive
    <2>3. hold' = "cancelled" /\ UNCHANGED attempt
      BY <2>2, <1>4, Zenon DEF CancelIntra
    <2> QED
      BY <2>1, <2>3, <1>1, Zenon DEF Shapes, Exclusive
  <1> QED
    BY <1>2, <1>3, <1>4, Zenon DEF ReceiveManager

(* The network, time, the payer's revocation and the monitor *)
LEMMA OthersStep ==
    ASSUME ReceiveInv, receiveMode.intra,
           Network \/ RevokeIntra \/ ReceiveMonitor \/ UNCHANGED receiveVars
    PROVE  Shapes' /\ Exclusive'
  <1>1. Shapes /\ Exclusive
    BY Zenon DEF ReceiveInv
  <1>2. UNCHANGED <<mgr, req>>
    BY Zenon DEF Network, NetworkPays, TimeoutPasses, BlocksArrive, InvoiceExpires, RevokeIntra,
           ReceiveMonitor, ListSubscriptions, CheckSubscription, StoreChecked, CancelHold,
           StoreCanceled, FailAttempt, intra, receiver, receiveVars, moved
  <1>3. /\ hold' = hold \/ (hold = "unpaid" /\ hold' = "accepted")
           \/ (hold # "paid" /\ hold' = "cancelled")
        /\ attempt' = attempt \/ (attempt = "open" /\ attempt' = "failed")
    BY Zenon DEF Network, NetworkPays, TimeoutPasses, BlocksArrive, InvoiceExpires, RevokeIntra,
           ReceiveMonitor, ListSubscriptions, CheckSubscription, StoreChecked, CancelHold,
           StoreCanceled, FailAttempt, intra, receiver, receiveVars, moved
  <1>4. /\ subs' \in Seq(Statuses) /\ Len(subs') = Len(subs)
        /\ subs' = <<>> <=> subs = <<>>
        /\ subs # <<>> /\ subs'[1] = "created" => subs[1] = "created"
    <2>1. CASE UNCHANGED subs
      BY <2>1, <1>1, Zenon DEF Shapes
    <2>2. CASE StoreChecked \/ StoreCanceled
      <3>1. \E i : \E st \in Statuses \ {"created"} : StoreStatus(i, st)
        BY <2>2 DEF StoreChecked, StoreCanceled, Statuses
      <3> QED
        BY <3>1, <1>1, StatusStored DEF Shapes
    <2> QED
      BY <2>1, <2>2, Zenon DEF Network, NetworkPays, TimeoutPasses, BlocksArrive, InvoiceExpires,
           RevokeIntra, ReceiveMonitor, ListSubscriptions, CheckSubscription, CancelHold,
           FailAttempt, receiveVars, moved
  <1> QED
    BY <1>1, <1>2, <1>3, <1>4, Zenon DEF Shapes, Exclusive

(* The receiver *)
LEMMA ReceiverStep ==
    ASSUME ReceiveInv, receiveMode.intra, NEW c \in Requests, Receiver(c)
    PROVE  Shapes' /\ Exclusive'
  <1>1. Shapes /\ Exclusive
    BY Zenon DEF ReceiveInv
  <1>2. UNCHANGED mgr
    BY Zenon DEF Receiver, Prepare, StoreHtlcs, Claim, Settle, SettleAttempt, SettleHold, StoreSettled,
           Cosign, intra
  <1>0. Prepare(c) \/ Claim(c) \/ req[c] # NoTask
    <2>1. CASE StoreHtlcs(c)
      BY <2>1, SMTT(60) DEF StoreHtlcs, NoTask
    <2>2. CASE Settle(c)
      BY <2>2, SMTT(60) DEF Settle, NoTask
    <2>3. CASE SettleAttempt(c)
      BY <2>3, SMTT(60) DEF SettleAttempt, NoTask
    <2>4. CASE SettleHold(c)
      BY <2>4, SMTT(60) DEF SettleHold, NoTask
    <2>5. CASE StoreSettled(c)
      BY <2>5, SMTT(60) DEF StoreSettled, NoTask
    <2>6. CASE Cosign(c)
      BY <2>6, SMTT(60) DEF Cosign, NoTask
    <2> QED
      BY <2>1, <2>2, <2>3, <2>4, <2>5, <2>6, Zenon DEF Receiver
  <1>3. subs # <<>>
    BY <1>0, <1>1, Zenon DEF Prepare, Claim, Exclusive
  <1>4. Len(subs) = 1
    BY <1>1, <1>3, OneLong, Zenon DEF Shapes
  <1>5. /\ subs' \in Seq(Statuses) /\ Len(subs') = 1 /\ subs' # <<>>
        /\ subs'[1] = "created" => subs[1] = "created"
    <2>1. CASE UNCHANGED subs
      BY <2>1, <1>1, <1>3, <1>4, Zenon DEF Shapes
    <2>2. CASE ~UNCHANGED subs
      <3>1. \E i : \E st \in Statuses \ {"created"} : StoreStatus(i, st)
        BY <2>2, Zenon DEF Receiver, Prepare, StoreHtlcs, Claim, Settle, SettleAttempt, SettleHold,
               StoreSettled, Cosign, Statuses
      <3> QED
        BY <3>1, <1>1, <1>3, <1>4, StatusStored, Zenon DEF Shapes
    <2> QED
      BY <2>1, <2>2, Zenon
  <1>6. subs[1] # "created"
    <2>1. CASE Prepare(c) \/ Claim(c)
      BY <2>1, <1>4, Zenon DEF Prepare, Claim
    <2>2. CASE req[c] # NoTask
      BY <2>2, <1>1, <1>3, Zenon DEF Exclusive
    <2> QED
      BY <1>0, <2>1, <2>2, Zenon
  <1>7. \E r : req' = [req EXCEPT ![c] = r]
    BY Zenon DEF Receiver, Prepare, StoreHtlcs, Claim, Settle, SettleAttempt, SettleHold, StoreSettled,
           Cosign, Go, Return
  <1>8. req' = [d \in Requests |-> req'[d]]
    BY <1>1, <1>7, Zenon DEF Shapes
  <1>9. /\ hold' = hold \/ (hold \in {"accepted", "paid"} /\ hold' = "paid" /\ mgr = NoTask)
        /\ attempt' = attempt \/ (attempt = "open" /\ attempt' = "succeeded" /\ hold' = hold)
    BY Zenon DEF Receiver, Prepare, StoreHtlcs, Claim, Settle, SettleAttempt, SettleHold, StoreSettled,
           Cosign, intra
  <1>10. Shapes'
    BY <1>1, <1>2, <1>5, <1>8 DEF Shapes
  <1>11. hold' # hold => attempt' \notin {"open", "succeeded"}
    BY <1>1, <1>9, Zenon DEF Exclusive
  <1>12. Exclusive'
    BY <1>1, <1>2, <1>5, <1>6, <1>9, <1>11, Zenon DEF Exclusive
  <1> QED
    BY <1>10, <1>12, Zenon

LEMMA ReceiveStep ==
    ASSUME OneSubscription, ReceiveInv, [ReceiveNext]_receiveVars
    PROVE  ReceiveInv'
  <1>1. CASE ~receiveMode.intra
    BY <1>1, NotIntraStep, Zenon
  <1>2. CASE receiveMode.intra
    <2>1. receiveMode.subs = 1 /\ ~receiveMode.cancelFails
      BY <1>2, Zenon DEF OneSubscription, ReceiveInv
    <2>2. UNCHANGED receiveMode
      BY Zenon DEF ReceiveNext, receiveVars
    <2>3. Shapes' /\ Exclusive'
      BY <1>2, <2>1, StartReceiveStep, ManagerStep, OthersStep, ReceiverStep DEF ReceiveNext
    <2> QED
      BY <1>2, <2>2, <2>3, Zenon DEF ReceiveInv
  <1> QED
    BY <1>1, <1>2, Zenon

(* For any number of calls of the receiver, with timeouts, blocks and       *)
(* expiry: of a payer on the network and another user of the server only    *)
(* one pays, since the manager cancels the hold invoice (set_created_       *)
(* subscription_to_accepted) before anything settles it, provided that      *)
(* cancelling does not fail and the receiver asks for the invoice once.     *)
THEOREM CollectedOnceAlways == OneSubscription => (ReceiveSpec => []CollectedOnce)
  <1> SUFFICES ASSUME OneSubscription PROVE ReceiveSpec => []CollectedOnce
    BY Zenon
  <1>1. ReceiveInit => ReceiveInv
    BY ReceiveInitInv, Zenon
  <1>2. ReceiveInv /\ [ReceiveNext]_receiveVars => ReceiveInv'
    BY ReceiveStep, Zenon
  <1>3. ReceiveInv => CollectedOnce
    BY DEF ReceiveInv, Exclusive, CollectedOnce
  <1> QED
    BY <1>1, <1>2, <1>3, PTL DEF ReceiveSpec
=============================================================================
