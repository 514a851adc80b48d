--------------------------- MODULE EvidenceProofs ---------------------------
(***************************************************************************)
(* Theorems about EvidenceLog, for any payloads, any length of the log and *)
(* any clock.                                                              *)
(***************************************************************************)
EXTENDS EvidenceLog, SequenceTheorems, WellFoundedInduction, TLAPS

\* The database gives time in one direction only.
Forward == Advances \subseteq Nat \ {0}

(***************************************************************************)
(* The inductive invariant: the rows the open transaction sees form one    *)
(* chain in the order of their times.  It speaks of Visible, not of rows,  *)
(* because append_event extends the tail its own transaction flushed.      *)
(***************************************************************************)
Timed(s) ==
    \A i \in 1..Len(s) : s[i].at <= clock /\ \A k \in 1..(i - 1) : s[k].at < s[i].at

Fits(s, i) ==
    /\ s[i].hash = s[i].payload
    /\ s[i].chain = ChainHash(IF i = 1 THEN Genesis ELSE s[i - 1].chain, s[i].hash)

Linked(s) == Timed(s) /\ \A i \in 1..Len(s) : Fits(s, i)

\* What the evidence view shows of rows read in this order.
Shown(s) == [i \in 1..Len(s) |-> s[i].payload]

Untouched ==
    tampers = 0 =>
        /\ Linked(Visible)
        /\ truth = Shown(rows)

Inv == TypeOK /\ Untouched

-----------------------------------------------------------------------------
(* Typing *)

LEMMA VisibleType ==
  ASSUME TypeOK
  PROVE  /\ Visible \in Seq(Row)
         /\ Len(Visible) = Len(rows) + Len(pending)
         /\ \A i \in 1..Len(rows) : Visible[i] = rows[i]
         /\ pending = <<>> => Visible = rows
  BY ConcatProperties, ConcatEmptySeq DEF TypeOK, Visible

LEMMA ShownType ==
  ASSUME NEW s \in Seq(Row)
  PROVE  Shown(s) \in Seq(Payloads) /\ Len(Shown(s)) = Len(s)
<1>1. \A i \in 1..Len(s) : s[i] \in Row
  BY ElementOfSeq
<1>2. \A i \in 1..Len(s) : s[i].payload \in Payloads
  BY <1>1 DEF Row
<1>3. Len(s) \in Nat
  BY LenProperties
<1>4. QED
  BY <1>2, <1>3, IsASeq DEF Shown

LEMMA NewRowType ==
  ASSUME NEW p \in Payloads, NEW prev \in Seq(Payloads), NEW at \in 0..MaxTime
  PROVE  NewRow(p, prev, at) \in Row
<1>1. Append(prev, p) \in Seq(Payloads)
  BY AppendProperties
<1>2. QED
  BY <1>1 DEF NewRow, Row, ChainHash

\* An insert links to a row the transaction sees, or opens the chain.
LEMMA AppendCases ==
  ASSUME TypeOK, NEW p \in Payloads, AppendEvent(p)
  PROVE  \E prev \in Seq(Payloads) :
           /\ pending' = Append(pending, NewRow(p, prev, clock'))
           /\ \/ Last = {} /\ prev = Genesis
              \/ \E i \in Last : prev = Visible[i].chain
<1>1. CASE Last = {} /\ pending' = Append(pending, NewRow(p, Genesis, clock'))
  <2>1. Genesis \in Seq(Payloads)
    BY EmptySeq DEF Genesis
  <2>2. QED
    BY <1>1, <2>1
<1>2. ASSUME NEW i \in Last, pending' = Append(pending, NewRow(p, Visible[i].chain, clock'))
      PROVE  \E prev \in Seq(Payloads) :
               /\ pending' = Append(pending, NewRow(p, prev, clock'))
               /\ \E k \in Last : prev = Visible[k].chain
  <2>1. Visible[i].chain \in Seq(Payloads)
    <3>1. Visible[i] \in Row
      BY VisibleType, ElementOfSeq DEF Last
    <3>2. QED
      BY <3>1 DEF Row
  <2>2. QED
    BY <1>2, <2>1
<1>3. QED
  BY <1>1, <1>2 DEF AppendEvent

LEMMA AppendType ==
  ASSUME TypeOK, NEW p \in Payloads, AppendEvent(p)
  PROVE  TypeOK'
<1>1. PICK prev \in Seq(Payloads) :
             pending' = Append(pending, NewRow(p, prev, clock'))
  BY AppendCases
<1>2. clock' \in 0..MaxTime
  BY DEF AppendEvent
<1>3. NewRow(p, prev, clock') \in Row
  BY <1>2, NewRowType
<1>4. pending' \in Seq(Row) /\ Len(pending') = Len(pending) + 1
  BY <1>1, <1>3, AppendProperties DEF TypeOK
<1>5. Len(rows) + Len(pending) < MaxRows
  BY VisibleType DEF AppendEvent
<1>6. Len(rows) \in Nat /\ Len(pending) \in Nat /\ MaxRows \in Nat
  BY LenProperties, LogAssumption DEF TypeOK
<1>7. Len(rows') + Len(pending') <= MaxRows
  BY <1>4, <1>5, <1>6 DEF AppendEvent
<1>8. QED
  BY <1>2, <1>4, <1>7 DEF AppendEvent, TypeOK

LEMMA CommitType ==
  ASSUME TypeOK, Commit
  PROVE  TypeOK'
<1>1. rows' \in Seq(Row) /\ Len(rows') = Len(rows) + Len(pending)
  BY VisibleType DEF Commit
<1>2. pending' \in Seq(Row) /\ Len(pending') = 0
  BY EmptySeq DEF Commit
<1>3. Shown(pending) \in Seq(Payloads)
  BY ShownType DEF TypeOK
<1>4. truth' \in Seq(Payloads)
  BY <1>3, ConcatProperties DEF Commit, TypeOK, Shown
<1>5. Len(rows') + Len(pending') <= MaxRows
  BY <1>1, <1>2, LenProperties DEF TypeOK
<1>6. QED
  BY <1>1, <1>2, <1>4, <1>5 DEF Commit, TypeOK

LEMMA RollbackType ==
  ASSUME TypeOK, Rollback
  PROVE  TypeOK'
<1>1. pending' \in Seq(Row) /\ Len(pending') = 0
  BY EmptySeq DEF Rollback
<1>2. Len(rows) \in Nat /\ Len(pending) \in Nat /\ MaxRows \in Nat
  BY LenProperties, LogAssumption DEF TypeOK
<1>3. QED
  BY <1>1, <1>2 DEF Rollback, TypeOK

LEMMA TamperType ==
  ASSUME TypeOK, Tamper
  PROVE  TypeOK'
<1>1. SUFFICES ASSUME NEW i \in 1..Len(rows),
                      \/ DeleteRow(i)
                      \/ \E p \in Payloads : AlterPayload(i, p) \/ RewriteRow(i, p)
               PROVE  TypeOK'
  BY DEF Tamper
<1>2. Len(rows) \in Nat /\ rows[i] \in Row /\ MaxTampers \in Nat
  BY LenProperties, ElementOfSeq, LogAssumption DEF TypeOK
<1>3. Tampering
  BY <1>1 DEF AlterPayload, RewriteRow, DeleteRow
<1>4. tampers' \in 0..MaxTampers
  BY <1>2, <1>3 DEF Tampering, TypeOK
<1>5. damaged' \in BOOLEAN
  <2>1. CASE \E p \in Payloads : AlterPayload(i, p)
    BY <2>1 DEF AlterPayload
  <2>2. ASSUME damaged' = (i < Len(rows))
        PROVE  damaged' \in BOOLEAN
    BY <2>2
  <2>3. QED
    BY <1>1, <2>1, <2>2 DEF RewriteRow, DeleteRow
<1>6. \A r \in Row : /\ [rows EXCEPT ![i] = r] \in Seq(Row)
                     /\ Len([rows EXCEPT ![i] = r]) = Len(rows)
  BY <1>1, <1>2, ExceptSeq DEF TypeOK
<1>7. rows' \in Seq(Row) /\ Len(rows') <= Len(rows)
  <2>1. CASE DeleteRow(i)
    <3>1. /\ SubSeq(rows, 1, i - 1) \in Seq(Row)
          /\ Len(SubSeq(rows, 1, i - 1)) = i - 1
      BY <1>2, SubSeqProperties DEF TypeOK
    <3>2. /\ SubSeq(rows, i + 1, Len(rows)) \in Seq(Row)
          /\ Len(SubSeq(rows, i + 1, Len(rows))) = Len(rows) - i
      BY <1>2, SubSeqProperties DEF TypeOK
    <3> DEFINE front == SubSeq(rows, 1, i - 1)
               back == SubSeq(rows, i + 1, Len(rows))
    <3>3. rows' = front \o back
      BY <2>1 DEF DeleteRow
    <3> HIDE DEF front, back
    <3>4. rows' \in Seq(Row) /\ Len(rows') = Len(front) + Len(back)
      BY <3>1, <3>2, <3>3, ConcatProperties DEF front, back
    <3>5. Len(front) + Len(back) = Len(rows) - 1
      <4>1. Len(front) = i - 1 /\ Len(back) = Len(rows) - i
        BY <3>1, <3>2 DEF front, back
      <4>2. QED
        BY <1>2, <4>1
    <3>6. QED
      BY <1>2, <3>4, <3>5
  <2>2. ASSUME NEW p \in Payloads, AlterPayload(i, p)
        PROVE  rows' \in Seq(Row) /\ Len(rows') <= Len(rows)
    <3> DEFINE r == [rows[i] EXCEPT !.payload = p]
    <3>1. r \in Row
      BY <1>2 DEF Row
    <3>2. rows' = [rows EXCEPT ![i] = r]
      BY <1>2, <2>2 DEF AlterPayload, TypeOK
    <3> HIDE DEF r
    <3>3. QED
      BY <1>2, <1>6, <3>1, <3>2
  <2>3. ASSUME NEW p \in Payloads, RewriteRow(i, p)
        PROVE  rows' \in Seq(Row) /\ Len(rows') <= Len(rows)
    <3> DEFINE r == [rows[i] EXCEPT !.payload = p, !.hash = p,
                                    !.chain = ChainHash(rows[i].prev, p)]
    <3>1. ChainHash(rows[i].prev, p) \in Seq(Payloads)
      BY <1>2, AppendProperties DEF Row, ChainHash
    <3>2. r \in Row
      BY <1>2, <3>1 DEF Row
    <3>3. rows' = [rows EXCEPT ![i] = r]
      BY <1>2, <2>3 DEF RewriteRow, TypeOK
    <3> HIDE DEF r
    <3>4. QED
      BY <1>2, <1>6, <3>2, <3>3
  <2>4. QED
    BY <1>1, <2>1, <2>2, <2>3
<1>8. UNCHANGED <<pending, clock, truth>>
  BY <1>3 DEF Tampering
<1>9. Len(rows') \in Nat /\ Len(pending) \in Nat /\ MaxRows \in Nat
  BY <1>7, LenProperties, LogAssumption DEF TypeOK
<1>10. QED
  BY <1>4, <1>5, <1>7, <1>8, <1>9 DEF TypeOK

\* Every variable has its type, and the table its bound, whatever the clock does.
THEOREM TypeCorrect == Spec => []TypeOK
<1>1. ASSUME Init PROVE TypeOK
  <2>1. <<>> \in Seq(Row) /\ <<>> \in Seq(Payloads) /\ Len(<<>>) = 0
    BY EmptySeq
  <2>2. 0 \in 0..MaxTampers /\ 0 <= MaxRows /\ Start \in 0..MaxTime
    BY LogAssumption
  <2>3. rows \in Seq(Row) /\ pending \in Seq(Row) /\ Len(rows) + Len(pending) <= MaxRows
    BY <1>1, <2>1, <2>2 DEF Init
  <2>4. QED
    BY <1>1, <2>1, <2>2, <2>3 DEF Init, TypeOK
<1>2. TypeOK /\ [Next]_vars => TypeOK'
  <2>1. TypeOK /\ Next => TypeOK'
    BY AppendType, CommitType, RollbackType, TamperType DEF Next
  <2>2. TypeOK /\ UNCHANGED vars => TypeOK'
    BY DEF TypeOK, vars
  <2>3. QED
    BY <2>1, <2>2
<1>3. QED
  BY <1>1, <1>2, PTL DEF Spec

-----------------------------------------------------------------------------
(* The chain of an untouched log *)

\* In order of time the newest row is the last one, so that an insert extends it.
LEMMA LastOfTimed ==
  ASSUME TypeOK, Timed(Visible)
  PROVE  Last = IF Len(Visible) = 0 THEN {} ELSE {Len(Visible)}
<1>1. Len(Visible) \in Nat /\ \A i \in 1..Len(Visible) : Visible[i].at \in Int
  <2>1. Visible \in Seq(Row)
    BY VisibleType
  <2>2. \A i \in 1..Len(Visible) : Visible[i] \in Row
    BY <2>1, ElementOfSeq
  <2>3. \A i \in 1..Len(Visible) : Visible[i].at \in 0..MaxTime
    BY <2>2 DEF Row
  <2>4. QED
    BY <2>1, <2>3, LenProperties
<1>2. \A i \in 1..Len(Visible) : \A k \in 1..(i - 1) : Visible[k].at < Visible[i].at
  BY DEF Linked, Timed, Fits
<1>3. ASSUME NEW i \in Last
      PROVE  i = Len(Visible)
  <2>1. i \in 1..Len(Visible) /\ Visible[Len(Visible)].at <= Visible[i].at
    BY <1>1 DEF Last
  <2>2. CASE i < Len(Visible)
    <3>1. i \in 1..(Len(Visible) - 1) /\ Len(Visible) \in 1..Len(Visible)
      BY <1>1, <2>1, <2>2
    <3>2. Visible[i].at < Visible[Len(Visible)].at
      BY <1>2, <3>1
    <3>3. QED
      BY <1>1, <2>1, <3>1, <3>2
  <2>3. QED
    BY <1>1, <2>1, <2>2
<1>4. ASSUME Len(Visible) # 0
      PROVE  Len(Visible) \in Last
  <2>1. \A k \in 1..Len(Visible) : k = Len(Visible) \/ k \in 1..(Len(Visible) - 1)
    BY <1>1
  <2>2. Len(Visible) \in 1..Len(Visible)
    BY <1>1, <1>4
  <2>3. \A k \in 1..Len(Visible) : Visible[k].at <= Visible[Len(Visible)].at
    BY <1>1, <1>2, <2>1, <2>2
  <2>4. QED
    BY <2>2, <2>3 DEF Last
<1>5. Len(Visible) = 0 => Last = {}
  BY DEF Last
<1>6. QED
  BY <1>3, <1>4, <1>5

LEMMA ConcatAppend ==
  ASSUME NEW S, NEW s \in Seq(S), NEW t \in Seq(S), NEW e \in S
  PROVE  s \o Append(t, e) = Append(s \o t, e)
<1>1. Append(t, e) = t \o <<e>>
  BY AppendIsConcat
<1>2. <<e>> \in Seq(S)
  OBVIOUS
<1>3. s \o (t \o <<e>>) = (s \o t) \o <<e>>
  BY <1>2, ConcatAssociative
<1>4. s \o t \in Seq(S)
  BY ConcatProperties
<1>5. Append(s \o t, e) = (s \o t) \o <<e>>
  BY <1>4, AppendIsConcat
<1>6. QED
  BY <1>1, <1>3, <1>5

LEMMA AppendedRow ==
  ASSUME TypeOK, Timed(Visible), NEW p \in Payloads, AppendEvent(p)
  PROVE  /\ Len(Visible') = Len(Visible) + 1
         /\ \A i \in 1..Len(Visible) : Visible'[i] = Visible[i]
         /\ Visible'[Len(Visible) + 1] =
              NewRow(p, IF Len(Visible) = 0 THEN Genesis ELSE Visible[Len(Visible)].chain,
                     clock')
<1> DEFINE n == Len(Visible)
           last == IF n = 0 THEN Genesis ELSE Visible[n].chain
           row == NewRow(p, last, clock')
<1>1. n \in Nat /\ Visible \in Seq(Row) /\ \A i \in 1..n : Visible[i] \in Row
  BY VisibleType, LenProperties, ElementOfSeq
<1>2. pending' = Append(pending, row)
  BY <1>1, LastOfTimed, AppendCases
<1>3. last \in Seq(Payloads)
  <2>1. n # 0 => Visible[n] \in Row
    BY <1>1
  <2>2. QED
    BY <2>1, EmptySeq DEF Row, Genesis
<1>4. row \in Row
  <2>1. clock' \in 0..MaxTime
    BY DEF AppendEvent
  <2>2. QED
    BY <1>3, <2>1, NewRowType
<1> HIDE DEF row
<1>5. Visible' = Append(Visible, row)
  <2>1. rows \o Append(pending, row) = Append(rows \o pending, row)
    BY <1>4, ConcatAppend DEF TypeOK
  <2>2. QED
    BY <1>2, <2>1 DEF AppendEvent, Visible
<1>6. /\ Len(Visible') = n + 1
      /\ \A i \in 1..n : Visible'[i] = Visible[i]
      /\ Visible'[n + 1] = row
  BY <1>1, <1>4, <1>5, AppendProperties
<1>7. QED
  BY <1>6 DEF row

LEMMA AppendKeepsTimed ==
  ASSUME Forward, TypeOK, Timed(Visible), NEW p \in Payloads, AppendEvent(p)
  PROVE  Timed(Visible)'
<1>1. PICK n, s, v : n = Len(Visible) /\ s = Visible /\ v = Visible'
  OBVIOUS
<1>2. n \in Nat /\ s \in Seq(Row)
  BY <1>1, VisibleType, LenProperties
<1>3. /\ Len(v) = n + 1 /\ \A i \in 1..n : v[i] = s[i]
      /\ v[n + 1].at = clock'
  <2>1. /\ Len(Visible') = Len(Visible) + 1
        /\ \A i \in 1..Len(Visible) : Visible'[i] = Visible[i]
        /\ Visible'[Len(Visible) + 1] =
              NewRow(p, IF Len(Visible) = 0 THEN Genesis ELSE Visible[Len(Visible)].chain,
                     clock')
    BY AppendedRow
  <2>2. Visible'[Len(Visible) + 1].at = clock'
    BY <2>1 DEF NewRow
  <2>3. QED
    BY <1>1, <2>1, <2>2
<1>4. clock < clock' /\ clock \in Int /\ clock' \in Int
  BY DEF AppendEvent, Forward, TypeOK
<1>5. \A i \in 1..n : s[i].at \in Int /\ s[i].at < clock'
  <2>1. ASSUME NEW i \in 1..n
        PROVE  s[i].at \in Int
    <3>1. s[i] \in Row
      BY <1>1, <1>2, ElementOfSeq
    <3>2. QED
      BY <3>1 DEF Row
  <2>2. \A i \in 1..n : s[i].at <= clock
    BY <1>1 DEF Timed
  <2>3. QED
    BY <1>4, <2>1, <2>2
<1>6. ASSUME NEW i \in 1..(n + 1)
      PROVE  v[i].at <= clock' /\ \A k \in 1..(i - 1) : v[k].at < v[i].at
  <2>1. CASE i \in 1..n
    <3>1. v[i] = s[i] /\ \A k \in 1..(i - 1) : v[k] = s[k]
      BY <1>2, <1>3, <2>1
    <3>2. \A k \in 1..(i - 1) : s[k].at < s[i].at
      BY <1>1, <2>1 DEF Timed
    <3>3. v[i].at <= clock'
      BY <1>4, <1>5, <2>1, <3>1
    <3>4. QED
      BY <3>1, <3>2, <3>3
  <2>2. CASE i = n + 1
    BY <1>2, <1>3, <1>4, <1>5, <2>2
  <2>3. QED
    BY <1>2, <2>1, <2>2
<1>7. QED
  BY <1>1, <1>3, <1>6 DEF Timed

LEMMA AppendKeepsLinked ==
  ASSUME Forward, TypeOK, Linked(Visible), NEW p \in Payloads, AppendEvent(p)
  PROVE  Linked(Visible)'
<1>1. Timed(Visible)'
  BY AppendKeepsTimed DEF Linked
<1>2. PICK n, s, v : n = Len(Visible) /\ s = Visible /\ v = Visible'
  OBVIOUS
<1>3. n \in Nat
  BY <1>2, VisibleType, LenProperties
<1>4. /\ Len(v) = n + 1 /\ \A i \in 1..n : v[i] = s[i]
      /\ v[n + 1].hash = v[n + 1].payload
      /\ v[n + 1].chain = ChainHash(IF n = 0 THEN Genesis ELSE s[n].chain, v[n + 1].hash)
  <2>1. /\ Len(Visible') = Len(Visible) + 1
        /\ \A i \in 1..Len(Visible) : Visible'[i] = Visible[i]
        /\ Visible'[Len(Visible) + 1] =
              NewRow(p, IF Len(Visible) = 0 THEN Genesis ELSE Visible[Len(Visible)].chain,
                     clock')
    BY AppendedRow DEF Linked
  <2>2. QED
    BY <1>2, <2>1 DEF NewRow
<1>5. ASSUME NEW i \in 1..(n + 1)
      PROVE  Fits(v, i)
  <2>1. CASE i \in 1..n
    <3>1. v[i] = s[i] /\ (i # 1 => v[i - 1] = s[i - 1])
      BY <1>3, <1>4, <2>1
    <3>2. Fits(s, i)
      BY <1>2, <2>1 DEF Linked
    <3>3. QED
      BY <3>1, <3>2 DEF Fits
  <2>2. CASE i = n + 1
    <3>1. n # 0 => v[n] = s[n]
      BY <1>3, <1>4
    <3>2. (i = 1 <=> n = 0) /\ i - 1 = n
      BY <1>3, <2>2
    <3>3. QED
      BY <1>4, <2>2, <3>1, <3>2 DEF Fits
  <2>3. QED
    BY <1>3, <2>1, <2>2
<1>6. QED
  BY <1>1, <1>2, <1>4, <1>5 DEF Linked

\* The rows a transaction leaves behind when it commits or rolls back.
LEMMA TimedPrefix ==
  ASSUME TypeOK, Timed(Visible)
  PROVE  Timed(rows)
<1>1. /\ Len(rows) \in Nat /\ Len(rows) <= Len(Visible) /\ Len(Visible) \in Nat
      /\ \A i \in 1..Len(rows) : Visible[i] = rows[i]
  BY VisibleType, LenProperties DEF TypeOK
<1>2. ASSUME NEW i \in 1..Len(rows)
      PROVE  rows[i].at <= clock /\ \A k \in 1..(i - 1) : rows[k].at < rows[i].at
  <2>1. i \in 1..Len(Visible) /\ Visible[i] = rows[i]
    BY <1>1
  <2>2. \A k \in 1..(i - 1) : Visible[k] = rows[k]
    BY <1>1
  <2>3. QED
    BY <2>1, <2>2 DEF Timed
<1>3. QED
  BY <1>2 DEF Timed

LEMMA FitsPrefix ==
  ASSUME TypeOK, NEW i \in 1..Len(rows)
  PROVE  i \in 1..Len(Visible) /\ (Fits(Visible, i) <=> Fits(rows, i))
<1>1. /\ Len(rows) \in Nat /\ Len(rows) <= Len(Visible) /\ Len(Visible) \in Nat
      /\ \A k \in 1..Len(rows) : Visible[k] = rows[k]
  BY VisibleType, LenProperties DEF TypeOK
<1>2. Visible[i] = rows[i] /\ (i # 1 => Visible[i - 1] = rows[i - 1])
  BY <1>1
<1>3. QED
  BY <1>1, <1>2 DEF Fits

LEMMA Prefix ==
  ASSUME TypeOK, Linked(Visible)
  PROVE  Linked(rows)
  BY TimedPrefix, FitsPrefix DEF Linked

LEMMA ShownConcat ==
  ASSUME TypeOK
  PROVE  Shown(rows) \o Shown(pending) = Shown(Visible)
<1> DEFINE a == Shown(rows)
           b == Shown(pending)
           c == Shown(Visible)
<1>1. /\ a \in Seq(Payloads) /\ b \in Seq(Payloads) /\ c \in Seq(Payloads)
      /\ Len(a) = Len(rows) /\ Len(b) = Len(pending)
      /\ Len(c) = Len(rows) + Len(pending)
  BY ShownType, VisibleType DEF TypeOK
<1>2. /\ \A i \in 1..Len(a) : a[i] = rows[i].payload
      /\ \A i \in 1..Len(b) : b[i] = pending[i].payload
      /\ \A i \in 1..Len(c) : c[i] = Visible[i].payload
  BY <1>1, VisibleType DEF Shown
<1>3. /\ Len(rows) \in Nat /\ Len(pending) \in Nat
      /\ \A i \in 1..Len(rows) : Visible[i] = rows[i]
      /\ \A i \in 1..Len(pending) : Visible[Len(rows) + i] = pending[i]
  BY ConcatProperties, LenProperties DEF TypeOK, Visible
<1> HIDE DEF a, b, c
<1>4. /\ a \o b \in Seq(Payloads) /\ Len(a \o b) = Len(rows) + Len(pending)
      /\ \A i \in 1..(Len(rows) + Len(pending)) :
           (a \o b)[i] = IF i <= Len(a) THEN a[i] ELSE b[i - Len(a)]
  BY <1>1, ConcatProperties
<1>5. ASSUME NEW i \in 1..Len(c)
      PROVE  (a \o b)[i] = c[i]
  <2>1. CASE i <= Len(rows)
    <3>1. i \in 1..Len(rows) /\ i \in 1..Len(a) /\ i <= Len(a)
      BY <1>1, <1>3, <2>1
    <3>2. (a \o b)[i] = a[i]
      BY <1>1, <1>3, <1>4, <3>1
    <3>3. a[i] = rows[i].payload /\ c[i] = Visible[i].payload
      BY <1>2, <3>1
    <3>4. Visible[i] = rows[i]
      BY <1>3, <3>1
    <3>5. QED
      BY <3>2, <3>3, <3>4
  <2>2. CASE ~(i <= Len(rows))
    <3>1. i - Len(rows) \in 1..Len(pending) /\ i = Len(rows) + (i - Len(rows))
      BY <1>1, <1>3, <2>2
    <3>2. Visible[i] = pending[i - Len(rows)]
      BY <1>3, <3>1
    <3>3. (a \o b)[i] = b[i - Len(rows)]
      BY <1>1, <1>4, <2>2
    <3>4. QED
      BY <1>1, <1>2, <3>1, <3>2, <3>3
  <2>3. QED
    BY <2>1, <2>2
<1>6. a \o b = c
  BY <1>1, <1>4, <1>5, SeqEqual
<1>7. QED
  BY <1>6 DEF a, b, c

LEMMA UntouchedInductive ==
  ASSUME Forward, Inv, Next
  PROVE  Untouched'
<1>1. TypeOK /\ Untouched
  BY DEF Inv
<1>2. ASSUME NEW p \in Payloads, AppendEvent(p)
      PROVE  Untouched'
  BY <1>1, <1>2, AppendKeepsLinked DEF Untouched, AppendEvent, Shown
<1>3. CASE Commit
  <2>1. Visible' = Visible
    <3>1. Visible \in Seq(Row)
      BY <1>1, VisibleType
    <3>2. Visible \o <<>> = Visible
      BY <3>1, ConcatEmptySeq
    <3>3. QED
      BY <1>3, <3>2 DEF Commit, Visible
  <2>2. tampers = 0 => truth' = Shown(Visible)
    BY <1>1, <1>3, ShownConcat DEF Untouched, Commit, Shown
  <2>3. QED
    BY <1>1, <1>3, <2>1, <2>2 DEF Untouched, Commit, Linked, Timed, Fits, Shown
<1>4. CASE Rollback
  <2>1. Visible' = rows
    BY <1>1, <1>4, ConcatEmptySeq DEF Rollback, Visible, TypeOK
  <2>2. tampers = 0 => Linked(rows)
    BY <1>1, Prefix DEF Untouched
  <2>3. QED
    BY <1>1, <1>4, <2>1, <2>2 DEF Untouched, Rollback, Linked, Timed, Fits, Shown
<1>5. CASE Tamper
  <2>1. Tampering
    BY <1>5 DEF Tamper, AlterPayload, RewriteRow, DeleteRow
  <2>2. tampers' = tampers + 1 /\ tampers \in Nat
    BY <1>1, <2>1 DEF Tampering, TypeOK
  <2>3. tampers' # 0
    BY <2>2
  <2>4. QED
    BY <2>3 DEF Untouched
<1>6. QED
  BY <1>2, <1>3, <1>4, <1>5 DEF Next

-----------------------------------------------------------------------------
(* Reading the log back *)

LEMMA LeastElement ==
  ASSUME NEW S, S \subseteq Nat, S # {}
  PROVE  \E m \in S : \A k \in S : m <= k
<1> DEFINE R == {ij \in Nat \X Nat : ij[1] < ij[2]}
<1>1. R = OpToRel(<, Nat)
  BY Zenon DEF OpToRel
<1>2. IsWellFoundedOn(R, Nat)
  BY <1>1, NatLessThanWellFounded, Zenon
<1> HIDE DEF R
<1>3. PICK m \in S : \A k \in S : ~(<<k, m>> \in R)
  BY <1>2, WFMin
<1>4. ASSUME NEW k \in S
      PROVE  m <= k
  <2>1. m \in Nat /\ k \in Nat
    OBVIOUS
  <2>2. k < m => <<k, m>> \in R
    BY <2>1 DEF R
  <2>3. ~(k < m)
    BY <1>3, <2>2
  <2>4. QED
    BY <2>1, <2>3
<1>5. QED
  BY <1>4

\* A strictly increasing map of 1..n into itself moves nothing.  The first number
\* moved down would lie above its predecessor, the last one moved up below its
\* successor.
LEMMA IncreasingIsIdentity ==
  ASSUME NEW n \in Nat, NEW f \in [1..n -> 1..n],
         \A i, k \in 1..n : i < k => f[i] < f[k]
  PROVE  \A i \in 1..n : f[i] = i
<1>1. \A i \in 1..n : f[i] \in 1..n
  OBVIOUS
<1>2. \A i \in 1..n : ~(f[i] < i)
  <2> DEFINE S == {i \in 1..n : f[i] < i}
  <2>1. SUFFICES ASSUME S # {} PROVE FALSE
    OBVIOUS
  <2>2. PICK m \in S : \A k \in S : m <= k
    <3>1. S \subseteq Nat
      OBVIOUS
    <3> HIDE DEF S
    <3>2. QED
      BY <2>1, <3>1, LeastElement
  <2>3. m \in 1..n /\ f[m] < m /\ f[m] \in 1..n
    BY <1>1
  <2>4. m - 1 \in 1..n /\ m - 1 \notin S /\ m - 1 < m
    BY <2>2, <2>3
  <2>5. f[m - 1] < f[m] /\ f[m - 1] >= m - 1 /\ f[m - 1] \in 1..n
    BY <1>1, <2>3, <2>4
  <2>6. QED
    BY <2>3, <2>5
<1>3. \A i \in 1..n : ~(f[i] > i)
  <2> DEFINE S == {d \in 0..(n - 1) : f[n - d] > n - d}
  <2>1. SUFFICES ASSUME NEW i \in 1..n, f[i] > i PROVE FALSE
    OBVIOUS
  <2>2. n - i \in S
    <3>1. n - i \in 0..(n - 1) /\ n - (n - i) = i
      OBVIOUS
    <3>2. QED
      BY <2>1, <3>1
  <2>3. PICK d \in S : \A k \in S : d <= k
    <3>1. S \subseteq Nat
      OBVIOUS
    <3> HIDE DEF S
    <3>2. QED
      BY <2>2, <3>1, LeastElement
  <2>4. d \in 0..(n - 1) /\ f[n - d] > n - d /\ n - d \in 1..n /\ f[n - d] \in 1..n
    BY <1>1
  <2>5. d - 1 \in 0..(n - 1) /\ d - 1 \notin S /\ n - (d - 1) \in 1..n
    BY <2>3, <2>4
  <2>6. f[n - d] < f[n - (d - 1)] /\ f[n - (d - 1)] <= n - (d - 1)
    <3>1. n - d < n - (d - 1) /\ f[n - (d - 1)] \in 1..n
      BY <1>1, <2>4, <2>5
    <3>2. QED
      BY <2>4, <2>5, <3>1
  <2>7. QED
    BY <1>1, <2>4, <2>5, <2>6
<1>4. QED
  BY <1>1, <1>2, <1>3

LEMMA OneReading ==
  ASSUME TypeOK, Timed(rows), NEW f \in Readings
  PROVE  DOMAIN f = 1..Len(rows) /\ \A i \in 1..Len(rows) : f[i] = i
<1> DEFINE n == Len(rows)
<1>1. n \in Nat /\ f \in [1..n -> 1..n]
  BY LenProperties DEF TypeOK, Readings
<1>2. \A i \in 1..n : rows[i].at \in Int
  <2>1. \A i \in 1..n : rows[i] \in Row
    BY ElementOfSeq DEF TypeOK
  <2>2. QED
    BY <2>1 DEF Row
<1>3. ASSUME NEW i \in 1..n, NEW k \in 1..n, i < k
      PROVE  f[i] < f[k]
  <2>1. f[i] # f[k] /\ rows[f[i]].at <= rows[f[k]].at
    BY <1>3 DEF Readings
  <2>2. f[i] \in 1..n /\ f[k] \in 1..n
    BY <1>1
  <2>3. CASE f[k] < f[i]
    <3>1. f[k] \in 1..(f[i] - 1)
      BY <1>1, <2>2, <2>3
    <3>2. rows[f[k]].at < rows[f[i]].at
      BY <2>2, <3>1 DEF Linked, Timed, Fits
    <3>3. QED
      BY <1>2, <2>1, <2>2, <3>2
  <2>4. QED
    BY <2>1, <2>2, <2>3
<1>4. \A i \in 1..n : f[i] = i
  <2> HIDE DEF n
  <2>1. QED
    BY <1>1, <1>3, IncreasingIsIdentity
<1>5. QED
  BY <1>1, <1>4

LEMMA UntouchedVerifies == Inv => HonestVerifies
<1>1. SUFFICES ASSUME Inv, tampers = 0, NEW f \in Readings
               PROVE  Verify(f) /\ [i \in DOMAIN f |-> rows[f[i]].payload] = truth
  BY DEF HonestVerifies
<1>2. TypeOK /\ Linked(rows) /\ truth = Shown(rows)
  BY <1>1, Prefix DEF Inv, Untouched, Linked
<1>3. DOMAIN f = 1..Len(rows) /\ \A i \in 1..Len(rows) : f[i] = i
  BY <1>2, OneReading DEF Linked
<1>4. Verify(f)
  <2>1. SUFFICES ASSUME NEW i \in 1..Len(rows)
                 PROVE  /\ rows[f[i]].hash = rows[f[i]].payload
                        /\ rows[f[i]].chain =
                             ChainHash(IF i = 1 THEN Genesis ELSE rows[f[i - 1]].chain,
                                       rows[f[i]].hash)
    BY <1>3 DEF Verify
  <2>2. f[i] = i /\ (i # 1 => f[i - 1] = i - 1)
    BY <1>3
  <2>3. QED
    BY <1>2, <2>2 DEF Linked, Timed, Fits
<1>5. [i \in DOMAIN f |-> rows[f[i]].payload] = truth
  BY <1>2, <1>3 DEF Shown
<1>6. QED
  BY <1>4, <1>5

\* With a clock that only runs forward, the rows of an untouched log form one chain,
\* whatever was committed, rolled back or still pending.
THEOREM LogInvariant == ASSUME Forward PROVE Spec => []Inv
<1>1. Init => Untouched
  <2>1. ASSUME Init PROVE Untouched
    <3>1. Visible = <<>> /\ Len(Visible) = 0 /\ Len(rows) = 0
      BY <2>1, EmptySeq, ConcatEmptySeq DEF Init, Visible
    <3>2. Linked(Visible)
      BY <3>1 DEF Linked, Timed, Fits
    <3>3. Shown(rows) = <<>>
      BY <3>1 DEF Shown
    <3>4. QED
      BY <2>1, <3>2, <3>3 DEF Init, Untouched
  <2>2. QED
    BY <2>1
<1>2. Inv /\ [Next]_vars => Untouched'
  <2>1. Inv /\ Next => Untouched'
    BY UntouchedInductive
  <2>2. Inv /\ UNCHANGED vars => Untouched'
    BY DEF Inv, Untouched, vars, Linked, Timed, Fits, Visible, Shown
  <2>3. QED
    BY <2>1, <2>2
<1>3. Inv <=> TypeOK /\ Untouched
  BY DEF Inv
<1>4. QED
  BY <1>1, <1>2, <1>3, TypeCorrect, PTL DEF Spec

\* With a clock that only runs forward, a log nobody tampered with verifies in
\* every order the database may return it, and shows the events that were
\* committed, in the order they were committed.
THEOREM HonestLogVerifies == ASSUME Forward PROVE Spec => []HonestVerifies
<1>1. Inv => HonestVerifies
  BY UntouchedVerifies
<1>2. QED
  BY <1>1, LogInvariant, PTL

-----------------------------------------------------------------------------
(* A log that was tampered with once *)

Damage ==
    /\ Timed(Visible)
    /\ tampers = 0 => ~damaged
    /\ damaged => \E i \in 1..Len(rows) : ~Fits(rows, i)

LEMMA AppendMoves ==
  ASSUME NEW s \in Seq(Payloads), NEW e \in Payloads
  PROVE  Append(s, e) # s
<1>1. Len(s) \in Nat /\ Len(Append(s, e)) = Len(s) + 1
  BY LenProperties, AppendProperties
<1>2. QED
  BY <1>1

\* The chain hash a row is linked to.
Before(s, i) == IF i = 1 THEN Genesis ELSE s[i - 1].chain

LEMMA LinkedRow ==
  ASSUME TypeOK, Linked(rows), NEW i \in 1..Len(rows)
  PROVE  /\ rows[i] \in Row /\ Before(rows, i) \in Seq(Payloads)
         /\ rows[i].payload \in Payloads /\ rows[i].hash = rows[i].payload
         /\ rows[i].chain \in Seq(Payloads) /\ rows[i].prev \in Seq(Payloads)
         /\ rows[i].chain = Append(Before(rows, i), rows[i].hash)
<1>1. Len(rows) \in Nat /\ \A k \in 1..Len(rows) : rows[k] \in Row
  BY LenProperties, ElementOfSeq DEF TypeOK
<1>2. \A k \in 1..Len(rows) : /\ rows[k].payload \in Payloads
                              /\ rows[k].chain \in Seq(Payloads)
                              /\ rows[k].prev \in Seq(Payloads)
  BY <1>1 DEF Row
<1>3. Before(rows, i) \in Seq(Payloads)
  <2>1. i # 1 => i - 1 \in 1..Len(rows)
    BY <1>1
  <2>2. QED
    BY <1>2, <2>1, EmptySeq DEF Before, Genesis
<1>4. Fits(rows, i)
  BY DEF Linked
<1>5. QED
  BY <1>1, <1>2, <1>3, <1>4 DEF Fits, ChainHash, Before

LEMMA AlterDamages ==
  ASSUME TypeOK, Linked(rows), NEW i \in 1..Len(rows), NEW p \in Payloads, AlterPayload(i, p)
  PROVE  i \in 1..Len(rows') /\ ~Fits(rows', i)
<1>1. rows[i] \in Row /\ rows[i].hash = rows[i].payload
  BY LinkedRow
<1>2. rows' = [rows EXCEPT ![i] = [rows[i] EXCEPT !.payload = p]] /\ p # rows[i].payload
  BY DEF AlterPayload
<1>3. PICK r : r = [rows[i] EXCEPT !.payload = p]
  OBVIOUS
<1>4. r \in Row /\ r.payload = p /\ r.hash = rows[i].hash
  BY <1>1, <1>3 DEF Row
<1>5. rows'[i] = r /\ Len(rows') = Len(rows)
  BY <1>2, <1>3, <1>4, ExceptSeq DEF TypeOK
<1>6. QED
  BY <1>1, <1>2, <1>4, <1>5 DEF Fits

\* The row after the rewritten one no longer fits.
LEMMA RewriteDamages ==
  ASSUME TypeOK, Linked(rows), NEW i \in 1..Len(rows), i < Len(rows),
         NEW p \in Payloads, RewriteRow(i, p)
  PROVE  i + 1 \in 1..Len(rows') /\ ~Fits(rows', i + 1)
<1>1. Len(rows) \in Nat /\ i + 1 \in 1..Len(rows) /\ i + 1 # 1 /\ (i + 1) - 1 = i
  BY LenProperties DEF TypeOK
<1>2. PICK r : r = [rows[i] EXCEPT !.payload = p, !.hash = p,
                                   !.chain = ChainHash(rows[i].prev, p)]
  OBVIOUS
<1>3. /\ rows[i] \in Row /\ rows[i].prev \in Seq(Payloads)
      /\ rows[i].payload \in Payloads
      /\ Before(rows, i) \in Seq(Payloads) /\ rows[i].chain \in Seq(Payloads)
      /\ rows[i].chain = Append(Before(rows, i), rows[i].payload)
  BY LinkedRow
<1>4. Append(rows[i].prev, p) \in Seq(Payloads)
  BY <1>3, AppendProperties
<1>5. r \in Row /\ r.chain = Append(rows[i].prev, p)
  BY <1>2, <1>3, <1>4 DEF Row, ChainHash
<1>6. rows' = [rows EXCEPT ![i] = r] /\ p # rows[i].payload
  BY <1>2 DEF RewriteRow, TypeOK
<1>7. rows'[i] = r /\ rows'[i + 1] = rows[i + 1] /\ Len(rows') = Len(rows)
  BY <1>1, <1>5, <1>6, ExceptSeq DEF TypeOK
<1>8. r.chain # rows[i].chain
  BY <1>3, <1>5, <1>6, AppendInjective
<1>9. /\ rows[i + 1].chain = Append(rows[i].chain, rows[i + 1].hash)
      /\ rows[i + 1].hash \in Payloads
  BY <1>1, LinkedRow DEF Before
<1>10. Append(r.chain, rows[i + 1].hash) # Append(rows[i].chain, rows[i + 1].hash)
  <2>1. PICK h, c, d : h = rows[i + 1].hash /\ c = r.chain /\ d = rows[i].chain
    OBVIOUS
  <2>2. h \in Payloads /\ c \in Seq(Payloads) /\ d \in Seq(Payloads) /\ c # d
    BY <1>3, <1>4, <1>5, <1>8, <1>9, <2>1
  <2>3. Append(c, h) # Append(d, h)
    BY <2>2, AppendInjective
  <2>4. QED
    BY <2>1, <2>3
<1>11. QED
  BY <1>1, <1>7, <1>9, <1>10 DEF Fits, ChainHash

\* What is left when a row is taken out.
LEMMA Deleted ==
  ASSUME TypeOK, NEW i \in 1..Len(rows), DeleteRow(i)
  PROVE  /\ rows' \in Seq(Row) /\ Len(rows') = Len(rows) - 1
         /\ \A k \in 1..(Len(rows) - 1) : rows'[k] = IF k < i THEN rows[k] ELSE rows[k + 1]
<1>1. PICK n, a, b : /\ n = Len(rows) /\ a = SubSeq(rows, 1, i - 1)
                     /\ b = SubSeq(rows, i + 1, n)
  OBVIOUS
<1>2. n \in Nat /\ i \in Nat /\ rows \in Seq(Row) /\ i >= 1 /\ i <= n
  BY <1>1, LenProperties DEF TypeOK
<1>3. a \in Seq(Row) /\ Len(a) = i - 1 /\ \A k \in 1..(i - 1) : a[k] = rows[k]
  <2>1. /\ a \in Seq(Row) /\ Len(a) = IF 1 <= i - 1 THEN (i - 1) - 1 + 1 ELSE 0
        /\ \A k \in 1..((i - 1) - 1 + 1) : a[k] = rows[1 + k - 1]
    BY <1>1, <1>2, SubSeqProperties
  <2>2. \A k \in 1..(i - 1) : 1 + k - 1 = k
    BY <1>2
  <2>3. QED
    BY <1>2, <2>1, <2>2
<1>4. b \in Seq(Row) /\ Len(b) = n - i /\ \A k \in 1..(n - i) : b[k] = rows[i + k]
  <2>1. /\ b \in Seq(Row) /\ Len(b) = IF i + 1 <= n THEN n - (i + 1) + 1 ELSE 0
        /\ \A k \in 1..(n - (i + 1) + 1) : b[k] = rows[(i + 1) + k - 1]
    BY <1>1, <1>2, SubSeqProperties
  <2>2. \A k \in 1..(n - i) : (i + 1) + k - 1 = i + k
    BY <1>2
  <2>3. QED
    BY <1>2, <2>1, <2>2
<1>5. rows' = a \o b
  BY <1>1 DEF DeleteRow
<1>6. /\ rows' \in Seq(Row) /\ Len(rows') = Len(a) + Len(b)
      /\ \A k \in 1..(Len(a) + Len(b)) :
           rows'[k] = IF k <= Len(a) THEN a[k] ELSE b[k - Len(a)]
  BY <1>3, <1>4, <1>5, ConcatProperties
<1>7. Len(a) + Len(b) = n - 1
  BY <1>2, <1>3, <1>4
<1>8. ASSUME NEW k \in 1..(n - 1)
      PROVE  rows'[k] = IF k < i THEN rows[k] ELSE rows[k + 1]
  <2>1. CASE k < i
    <3>1. k \in 1..(i - 1) /\ k <= Len(a)
      BY <1>2, <1>3, <2>1
    <3>2. QED
      BY <1>3, <1>6, <1>7, <2>1, <3>1
  <2>2. CASE ~(k < i)
    <3>1. /\ ~(k <= Len(a)) /\ k - Len(a) \in 1..(n - i)
          /\ i + (k - Len(a)) = k + 1
      BY <1>2, <1>3, <2>2
    <3>2. rows'[k] = b[k - Len(a)]
      BY <1>6, <1>7, <3>1
    <3>3. QED
      BY <1>4, <2>2, <3>1, <3>2
  <2>3. QED
    BY <2>1, <2>2
<1>9. QED
  BY <1>1, <1>6, <1>7, <1>8

\* The row after the deleted one continues a chain that is no longer there.
LEMMA DeleteDamages ==
  ASSUME TypeOK, Linked(rows), NEW i \in 1..Len(rows), i < Len(rows), DeleteRow(i)
  PROVE  i \in 1..Len(rows') /\ ~Fits(rows', i)
<1>1. /\ Len(rows) \in Nat /\ i + 1 \in 1..Len(rows) /\ i + 1 # 1 /\ (i + 1) - 1 = i
      /\ i \in 1..(Len(rows) - 1)
  BY LenProperties DEF TypeOK
<1>2. /\ Len(rows') = Len(rows) - 1 /\ rows'[i] = rows[i + 1]
      /\ i # 1 => rows'[i - 1] = rows[i - 1]
  <2>1. rows'[i] = rows[i + 1]
    BY <1>1, Deleted
  <2>2. i # 1 => i - 1 \in 1..(Len(rows) - 1) /\ i - 1 < i
    BY <1>1
  <2>3. QED
    BY <2>1, <2>2, Deleted
<1>3. Before(rows', i) = Before(rows, i)
  BY <1>2 DEF Before
<1>4. /\ Before(rows, i) \in Seq(Payloads) /\ rows[i].hash \in Payloads
      /\ rows[i].chain \in Seq(Payloads)
      /\ rows[i].chain = Append(Before(rows, i), rows[i].hash)
  BY LinkedRow
<1>5. /\ rows[i + 1].chain = Append(rows[i].chain, rows[i + 1].hash)
      /\ rows[i + 1].hash \in Payloads
  BY <1>1, LinkedRow DEF Before
<1>6. rows[i].chain # Before(rows, i)
  BY <1>4, AppendMoves
<1>7. Append(rows[i].chain, rows[i + 1].hash) # Append(Before(rows, i), rows[i + 1].hash)
  BY <1>4, <1>5, <1>6, AppendInjective
<1>8. QED
  BY <1>1, <1>2, <1>3, <1>5, <1>7 DEF Fits, ChainHash, Before

LEMMA TamperKeepsTimed ==
  ASSUME TypeOK, Timed(rows), Tamper
  PROVE  Timed(rows)'
<1>1. PICK i \in 1..Len(rows) : \/ DeleteRow(i)
                                \/ \E p \in Payloads : AlterPayload(i, p) \/ RewriteRow(i, p)
  BY DEF Tamper
<1>2. /\ Len(rows) \in Nat /\ clock' = clock
      /\ \A k \in 1..Len(rows) : rows[k] \in Row
  BY <1>1, LenProperties, ElementOfSeq
     DEF TypeOK, DeleteRow, AlterPayload, RewriteRow, Tampering
<1>3. CASE DeleteRow(i)
  <2>1. PICK s, n : s = rows' /\ n = Len(rows)
    OBVIOUS
  <2>2. /\ Len(s) = n - 1
        /\ \A k \in 1..(n - 1) : s[k] = IF k < i THEN rows[k] ELSE rows[k + 1]
    BY <1>3, <2>1, Deleted
  <2>3. ASSUME NEW k \in 1..Len(s)
        PROVE  s[k].at <= clock /\ \A j \in 1..(k - 1) : s[j].at < s[k].at
    <3>1. PICK m : m = IF k < i THEN k ELSE k + 1
      OBVIOUS
    <3>2. m \in 1..n /\ s[k] = rows[m]
      BY <1>2, <2>1, <2>2, <3>1
    <3>3. ASSUME NEW j \in 1..(k - 1)
          PROVE  s[j].at < s[k].at
      <4>1. PICK l : l = IF j < i THEN j ELSE j + 1
        OBVIOUS
      <4>2. j \in 1..(n - 1) /\ l \in 1..(m - 1)
        BY <1>2, <2>1, <2>2, <3>1, <4>1
      <4>3. s[j] = rows[l]
        BY <2>2, <4>1, <4>2
      <4>4. rows[l].at < rows[m].at
        BY <2>1, <3>2, <4>2 DEF Timed
      <4>5. QED
        BY <3>2, <4>3, <4>4
    <3>4. rows[m].at <= clock
      BY <2>1, <3>2 DEF Timed
    <3>5. QED
      BY <3>2, <3>3, <3>4
  <2>4. QED
    BY <1>2, <2>1, <2>3 DEF Timed
<1>4. ASSUME NEW p \in Payloads, AlterPayload(i, p) \/ RewriteRow(i, p)
      PROVE  Timed(rows)'
  <2>1. PICK r : /\ rows' = [rows EXCEPT ![i] = r]
                 /\ \/ r = [rows[i] EXCEPT !.payload = p]
                    \/ r = [rows[i] EXCEPT !.payload = p, !.hash = p,
                                           !.chain = ChainHash(rows[i].prev, p)]
    BY <1>4 DEF AlterPayload, RewriteRow, TypeOK
  <2>2. r.at = rows[i].at
    BY <1>2, <2>1 DEF Row
  <2>3. DOMAIN rows = 1..Len(rows)
    BY DEF TypeOK
  <2>4. Len(rows') = Len(rows) /\ \A k \in 1..Len(rows) : rows'[k].at = rows[k].at
    <3>1. DOMAIN rows' = 1..Len(rows)
      BY <2>1, <2>3
    <3>2. TypeOK'
      BY TamperType
    <3>3. Len(rows') = Len(rows)
      BY <1>2, <3>1, <3>2, LenProperties DEF TypeOK
    <3>4. \A k \in 1..Len(rows) : rows'[k] = IF k = i THEN r ELSE rows[k]
      BY <2>1, <2>3
    <3>5. QED
      BY <2>2, <3>3, <3>4
  <2>5. QED
    BY <1>2, <2>4 DEF Timed
<1>5. QED
  BY <1>1, <1>3, <1>4

LEMMA TamperShows ==
  ASSUME TypeOK, Linked(rows), Tamper, damaged'
  PROVE  \E i \in 1..Len(rows') : ~Fits(rows', i)
<1>1. PICK i \in 1..Len(rows) : \/ DeleteRow(i)
                                \/ \E p \in Payloads : AlterPayload(i, p) \/ RewriteRow(i, p)
  BY DEF Tamper
<1>2. CASE DeleteRow(i)
  <2>1. i < Len(rows)
    BY <1>2 DEF DeleteRow
  <2>2. QED
    BY <1>2, <2>1, DeleteDamages
<1>3. ASSUME NEW p \in Payloads, AlterPayload(i, p)
      PROVE  \E k \in 1..Len(rows') : ~Fits(rows', k)
  BY <1>3, AlterDamages
<1>4. ASSUME NEW p \in Payloads, RewriteRow(i, p)
      PROVE  \E k \in 1..Len(rows') : ~Fits(rows', k)
  <2>1. i < Len(rows)
    BY <1>4 DEF RewriteRow
  <2>2. QED
    BY <1>4, <2>1, RewriteDamages
<1>5. QED
  BY <1>1, <1>2, <1>3, <1>4

LEMMA DamageInductive ==
  ASSUME Forward, MaxTampers <= 1, Inv, Damage, Next
  PROVE  Damage'
<1>1. TypeOK /\ Untouched /\ Timed(Visible) /\ TypeOK'
  BY AppendType, CommitType, RollbackType, TamperType DEF Inv, Damage, Next
<1>2. ASSUME NEW p \in Payloads, AppendEvent(p)
      PROVE  Damage'
  <2>1. Timed(Visible)'
    BY <1>1, <1>2, AppendKeepsTimed
  <2>2. rows' = rows /\ tampers' = tampers /\ damaged' = damaged
    BY <1>2 DEF AppendEvent
  <2>3. QED
    BY <2>1, <2>2 DEF Damage, Fits
<1>3. CASE Commit
  <2>1. Visible' = Visible /\ rows' = Visible
    <3>1. Visible \in Seq(Row)
      BY <1>1, VisibleType
    <3>2. Visible \o <<>> = Visible
      BY <3>1, ConcatEmptySeq
    <3>3. QED
      BY <1>3, <3>2 DEF Commit, Visible
  <2>2. clock' = clock /\ tampers' = tampers /\ damaged' = damaged
    BY <1>3 DEF Commit
  <2>3. Timed(Visible)'
    BY <1>1, <2>1, <2>2 DEF Timed
  <2>4. ASSUME damaged'
        PROVE  \E i \in 1..Len(rows') : ~Fits(rows', i)
    BY <1>1, <2>1, <2>2, <2>4, FitsPrefix DEF Damage
  <2>5. QED
    BY <2>2, <2>3, <2>4 DEF Damage
<1>4. CASE Rollback
  <2>1. Visible' = rows /\ rows' = rows
    BY <1>1, <1>4, ConcatEmptySeq DEF Rollback, Visible, TypeOK
  <2>2. clock' = clock /\ tampers' = tampers /\ damaged' = damaged
    BY <1>4 DEF Rollback
  <2>3. Timed(rows)
    BY <1>1, TimedPrefix
  <2>4. Timed(Visible)'
    BY <2>1, <2>2, <2>3 DEF Timed
  <2>5. QED
    BY <2>1, <2>2, <2>4 DEF Damage, Fits
<1>5. CASE Tamper
  <2>1. Tampering
    BY <1>5 DEF Tamper, AlterPayload, RewriteRow, DeleteRow
  <2>2. /\ tampers = 0 /\ tampers' # 0 /\ pending = <<>> /\ pending' = <<>>
    BY <1>1, <2>1, LogAssumption DEF Tampering, TypeOK
  <2>3. Visible = rows /\ Visible' = rows'
    BY <1>1, <2>2, ConcatEmptySeq DEF Visible, TypeOK
  <2>4. Linked(rows) /\ Timed(rows)
    BY <1>1, <2>2, Prefix, TimedPrefix DEF Untouched
  <2>5. Timed(rows)'
    BY <1>1, <1>5, <2>4, TamperKeepsTimed
  <2>6. Timed(Visible)'
    BY <2>3, <2>5 DEF Timed
  <2>7. damaged' => \E i \in 1..Len(rows') : ~Fits(rows', i)
    BY <1>1, <1>5, <2>4, TamperShows
  <2>8. QED
    BY <2>2, <2>6, <2>7 DEF Damage
<1>6. QED
  BY <1>2, <1>3, <1>4, <1>5 DEF Next

LEMMA DamageIsRead ==
  ASSUME TypeOK, Damage
  PROVE  DamageShows
<1>1. SUFFICES ASSUME damaged, NEW f \in Readings
               PROVE  ~Verify(f)
  BY DEF DamageShows
<1>2. PICK i \in 1..Len(rows) : ~Fits(rows, i)
  BY <1>1 DEF Damage
<1>3. DOMAIN f = 1..Len(rows) /\ \A k \in 1..Len(rows) : f[k] = k
  BY OneReading, TimedPrefix DEF Damage
<1>4. i # 1 => i - 1 \in 1..Len(rows)
  BY LenProperties DEF TypeOK
<1>5. f[i] = i /\ (i # 1 => f[i - 1] = i - 1)
  BY <1>3, <1>4
<1>6. QED
  BY <1>2, <1>3, <1>5 DEF Verify, Fits

\* With a clock that only runs forward, one tampering with a past event, by changing
\* its payload, by making it consistent in itself again or by taking it out, shows in
\* every order the database may return, and whatever is appended afterwards.
THEOREM TamperingShows ==
  ASSUME Forward, MaxTampers <= 1
  PROVE  Spec => []DamageShows
<1>1. Init => Damage
  <2>1. SUFFICES ASSUME Init
                 PROVE  Damage
    OBVIOUS
  <2>2. Len(Visible) = 0
    BY <2>1, EmptySeq, ConcatEmptySeq DEF Init, Visible
  <2>3. QED
    BY <2>1, <2>2 DEF Init, Damage, Timed
<1>2. Inv /\ Damage /\ [Next]_vars => Damage'
  <2>1. Inv /\ Damage /\ Next => Damage'
    BY DamageInductive
  <2>2. Inv /\ Damage /\ UNCHANGED vars => Damage'
    BY DEF Damage, vars, Timed, Visible, Fits
  <2>3. QED
    BY <2>1, <2>2
<1>3. Inv /\ Damage => DamageShows
  BY DamageIsRead DEF Inv
<1>4. QED
  BY <1>1, <1>2, <1>3, LogInvariant, PTL DEF Spec
=============================================================================
