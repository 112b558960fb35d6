------------------------- MODULE MemController_proofs -------------------------
(***************************************************************************)
(* The safety of a channel's controller, for every set of lines, every     *)
(* size of the queues, every watermark of the write mode and every length  *)
(* of the runs.                                                            *)
(***************************************************************************)
EXTENDS MemController, FiniteSetTheorems, WellFoundedInduction, SequenceTheorems, TLAPS

(***************************************************************************)
(* The inductive invariant.                                                *)
(***************************************************************************)
CountersInv ==
  /\ reqs \in 0..MaxReqs /\ refreshes \in 0..MaxRefresh
  /\ otherq <= refreshes
  /\ \A l \in Lines : latest[l] <= reqs

\* A read is queued when no write of its address is, so that the bank holds at
\* least what it has to return, and later writes only add to that.
ReadsOk(q) == \A i \in 1..Len(q) : q[i].type = "RD" /\ q[i].ver <= mem[q[i].ln]

\* The queued writes of a line are in order, newer than the value in the bank,
\* and the last of them is the last that was accepted.
WritesOk ==
  /\ \A i \in 1..Len(writeq) :
       /\ writeq[i].type = "WR"
       /\ mem[writeq[i].ln] < writeq[i].ver /\ writeq[i].ver <= latest[writeq[i].ln]
  /\ \A i, j \in 1..Len(writeq) :
       i < j /\ writeq[i].ln = writeq[j].ln => writeq[i].ver < writeq[j].ver
  /\ \A l \in Lines :
       \/ latest[l] = mem[l]
       \/ \E i \in 1..Len(writeq) : writeq[i].ln = l /\ writeq[i].ver = latest[l]

\* The last write of an address is the last that is queued for it, or its line in
\* the bank has that value or a later one, of another address of the line.
WrittenOk ==
  /\ \A i \in 1..Len(writeq) : writeq[i].ver <= written[<<writeq[i].ln, writeq[i].off>>]
  /\ \A l \in Lines, off \in Offsets :
       \/ written[<<l, off>>] <= mem[l]
       \/ \E i \in WritesOf(l, off) : writeq[i].ver = written[<<l, off>>]

AnswersOk(a) == \A i \in 1..Len(a) : a[i].got >= a[i].want

FreshInv ==
  /\ ReadsOk(readq) /\ ReadsOk(migq) /\ WritesOk /\ WrittenOk
  /\ AnswersOk(pending) /\ AnswersOk(mig_pending)

IInv == TypeOK /\ CountersInv /\ FreshInv /\ ServingExact /\ RowTableSound

(***************************************************************************)
(* Sequences and the numbers of what they hold.                            *)
(***************************************************************************)
\* Where the element of index i of RemoveAt(s, h) comes from.
From(h, i) == IF i < h THEN i ELSE i + 1

\* The indices, of the n - 1 left, of the elements whose indices were in I.
LeftOf(n, h, I) == {i \in 1..(n - 1) : From(h, i) \in I}

\* RemoveAt takes one element out and keeps the order of the others.
LEMMA RemoveAtElements ==
  ASSUME NEW S, NEW s \in Seq(S), NEW h \in 1..Len(s)
  PROVE  /\ RemoveAt(s, h) \in Seq(S)
         /\ Len(RemoveAt(s, h)) = Len(s) - 1
         /\ \A i \in 1..(Len(s) - 1) :
              From(h, i) \in 1..Len(s) /\ RemoveAt(s, h)[i] = s[From(h, i)]
<1> DEFINE a == SubSeq(s, 1, h - 1)
           b == SubSeq(s, h + 1, Len(s))
<1>1. /\ a \in Seq(S) /\ Len(a) = h - 1
      /\ \A i \in 1..(h - 1) : a[i] = s[i]
  OBVIOUS
<1>2. /\ b \in Seq(S) /\ Len(b) = Len(s) - h
      /\ \A i \in 1..(Len(s) - h) : b[i] = s[h + i]
  OBVIOUS
<1>3. RemoveAt(s, h) = a \o b
  BY DEF RemoveAt
<1> HIDE DEF a, b
<1>4. /\ a \o b \in Seq(S) /\ Len(a \o b) = Len(s) - 1
      /\ \A i \in 1..(Len(s) - 1) : (a \o b)[i] = IF i < h THEN a[i] ELSE b[i - (h - 1)]
  <2>1. /\ a \o b \in Seq(S) /\ Len(a \o b) = Len(a) + Len(b)
        /\ \A i \in 1..(Len(a) + Len(b)) :
             (a \o b)[i] = IF i <= Len(a) THEN a[i] ELSE b[i - Len(a)]
    BY <1>1, <1>2, ConcatProperties
  <2>2. Len(a) + Len(b) = Len(s) - 1
    BY <1>1, <1>2
  <2>3. \A i \in 1..(Len(s) - 1) : i <= Len(a) <=> i < h
    BY <1>1
  <2>4. QED
    BY <1>1, <2>1, <2>2, <2>3
<1>5. \A i \in 1..(Len(s) - 1) : (a \o b)[i] = s[From(h, i)]
  <2> SUFFICES ASSUME NEW i \in 1..(Len(s) - 1) PROVE (a \o b)[i] = s[From(h, i)]
    OBVIOUS
  <2>1. CASE i < h
    BY <1>1, <1>4, <2>1 DEF From
  <2>2. CASE ~ (i < h)
    <3>1. i - (h - 1) \in 1..(Len(s) - h) /\ h + (i - (h - 1)) = i + 1
      BY <2>2
    <3>2. QED
      BY <1>2, <1>4, <2>2, <3>1 DEF From
  <2>3. QED
    BY <2>1, <2>2
<1>6. QED
  BY <1>3, <1>4, <1>5 DEF From

\* The indices of what is left when the element of index h is removed.
LEMMA IndicesLeft ==
  ASSUME NEW n \in Nat, NEW h \in 1..n, NEW I \in SUBSET (1..n)
  PROVE  /\ IsFiniteSet(I) /\ Cardinality(I) \in Nat
         /\ Cardinality(LeftOf(n, h, I)) = Cardinality(I) - (IF h \in I THEN 1 ELSE 0)
<1> DEFINE J == LeftOf(n, h, I)
           f == [i \in J |-> From(h, i)]
<1>1. IsFiniteSet(I) /\ IsFiniteSet(J)
  <2>1. IsFiniteSet(1..n) /\ IsFiniteSet(1..(n - 1))
    BY FS_Interval
  <2>2. QED
    BY <2>1, FS_Subset DEF LeftOf
<1>2. f \in [J -> I \ {h}]
  BY DEF From, LeftOf
<1>3. \A i, j \in J : f[i] = f[j] => i = j
  BY DEF From, LeftOf
<1>4. \A k \in I \ {h} : \E i \in J : f[i] = k
  <2> SUFFICES ASSUME NEW k \in I, k # h PROVE \E i \in J : f[i] = k
    OBVIOUS
  <2>1. CASE k < h
    <3>1. k \in J /\ f[k] = k
      BY <2>1 DEF From, LeftOf
    <3>2. QED
      BY <3>1
  <2>2. CASE k > h
    <3>1. k - 1 \in J /\ f[k - 1] = k
      BY <2>2 DEF From, LeftOf
    <3>2. QED
      BY <3>1
  <2>3. QED
    BY <2>1, <2>2
<1>5. f \in Bijection(J, I \ {h})
  BY <1>2, <1>3, <1>4 DEF Bijection, Injection, IsInjective, Surjection
<1>6. Cardinality(J) = Cardinality(I \ {h})
  BY <1>1, <1>5, FS_Bijection DEF ExistsBijection
<1>7. Cardinality(I) \in Nat
  BY <1>1, FS_CardinalityType
<1>8. Cardinality(I \ {h}) = IF h \in I THEN Cardinality(I) - 1 ELSE Cardinality(I)
  BY <1>1, FS_RemoveElement
<1> HIDE DEF f
<1>9. QED
  BY <1>1, <1>6, <1>7, <1>8

\* A set of indices has a least element, and Min is it.
LEMMA MinIndex ==
  ASSUME NEW I \in SUBSET Nat, I # {}
  PROVE  Min(I) \in I /\ \A i \in I : Min(I) <= i
<1> DEFINE R == {p \in Nat \X Nat : p[1] < p[2]}
<1>1. IsWellFoundedOn(R, Nat)
  BY NatLessThanWellFounded DEF OpToRel
<1>2. \A i, j \in Nat : i < j => <<i, j>> \in R
  OBVIOUS
<1> HIDE DEF R
<1>3. PICK m \in I : \A i \in I : ~ (<<i, m>> \in R)
  BY <1>1, WFMin
<1>4. \A i \in I : ~ (i < m)
  <2> SUFFICES ASSUME NEW i \in I, i < m PROVE FALSE
    OBVIOUS
  <2>1. i \in Nat /\ m \in Nat
    OBVIOUS
  <2>2. <<i, m>> \in R
    BY <1>2, <2>1, Zenon
  <2>3. QED
    BY <1>3, <2>2, Zenon
<1>5. \A i \in I : m <= i
  BY <1>4
<1>6. QED
  BY <1>5 DEF Min

\* Max is the element that is greater than all others.
LEMMA MaxIndex ==
  ASSUME NEW I \in SUBSET Nat, NEW m \in I, \A i \in I : i <= m
  PROVE  Max(I) = m
<1>1. \A i \in I : m >= i
  OBVIOUS
<1>2. \E x \in I : \A y \in I : x >= y
  BY <1>1
<1>3. Max(I) \in I /\ \A i \in I : Max(I) >= i
  BY <1>2, Zenon DEF Max
<1>4. m \in Nat /\ Max(I) \in Nat
  BY <1>3
<1>5. m >= Max(I) /\ Max(I) >= m
  BY <1>1, <1>3
<1>6. QED
  BY <1>4, <1>5

(***************************************************************************)
(* How many requests of a queue have begun, and how many pending reads have*)
(* accessed a row.                                                         *)
(***************************************************************************)
LEMMA StartedType ==
  ASSUME NEW q \in Seq(Requests)
  PROVE  Started(q) \in Nat
<1>1. IsFiniteSet(1..Len(q))
  BY FS_Interval
<1>2. IsFiniteSet({i \in 1..Len(q) : ~ q[i].first})
  BY <1>1, FS_Subset
<1>3. QED
  BY <1>2, FS_CardinalityType DEF Started

\* The number of answers whose requests have accessed a bank is a number.
LEMMA AccessedType ==
  ASSUME NEW a \in Seq(Answers)
  PROVE  Accessed(a) \in Nat
<1>1. IsFiniteSet(1..Len(a))
  BY FS_Interval
<1>2. IsFiniteSet({i \in 1..Len(a) : a[i].accessed})
  BY <1>1, FS_Subset
<1>3. QED
  BY <1>2, FS_CardinalityType DEF Accessed

\* A request that is queued has not begun.
LEMMA StartedAppend ==
  ASSUME NEW q \in Seq(Requests), NEW r \in Requests, r.first
  PROVE  Started(Append(q, r)) = Started(q)
<1>1. {i \in 1..Len(Append(q, r)) : ~ Append(q, r)[i].first} = {i \in 1..Len(q) : ~ q[i].first}
  <2>1. /\ Len(Append(q, r)) = Len(q) + 1 /\ Append(q, r)[Len(q) + 1] = r
        /\ \A i \in 1..Len(q) : Append(q, r)[i] = q[i]
    OBVIOUS
  <2>2. \A i \in 1..(Len(q) + 1) : i \in 1..Len(q) \/ i = Len(q) + 1
    OBVIOUS
  <2>3. QED
    BY <2>1, <2>2
<1>2. QED
  BY <1>1 DEF Started

\* Its first command begins it.
LEMMA StartedMark ==
  ASSUME NEW q \in Seq(Requests), NEW h \in 1..Len(q)
  PROVE  LET q2 == [q EXCEPT ![h].first = FALSE]
         IN /\ q2 \in Seq(Requests) /\ Len(q2) = Len(q)
            /\ \A i \in 1..Len(q) :
                 /\ q2[i].type = q[i].type /\ q2[i].ln = q[i].ln
                 /\ q2[i].off = q[i].off /\ q2[i].ver = q[i].ver
            /\ Started(q2) = Started(q) + (IF q[h].first THEN 1 ELSE 0)
<1> DEFINE q2 == [q EXCEPT ![h].first = FALSE]
           I == {i \in 1..Len(q) : ~ q[i].first}
<1>1. /\ q[h] \in Requests /\ [q[h] EXCEPT !.first = FALSE] \in Requests
      /\ q2 = [q EXCEPT ![h] = [q[h] EXCEPT !.first = FALSE]]
  <2>1. q[h] \in Requests
    OBVIOUS
  <2>2. [q[h] EXCEPT !.first = FALSE] \in Requests
    BY <2>1 DEF Requests
  <2>3. q2 = [q EXCEPT ![h] = [q[h] EXCEPT !.first = FALSE]]
    OBVIOUS
  <2>4. QED
    BY <2>1, <2>2, <2>3
<1>2. /\ q2 \in Seq(Requests) /\ Len(q2) = Len(q)
      /\ \A i \in 1..Len(q) : q2[i] = IF i = h THEN [q[h] EXCEPT !.first = FALSE] ELSE q[i]
  BY <1>1
<1> HIDE DEF q2
<1>3. \A i \in 1..Len(q) :
        /\ q2[i].type = q[i].type /\ q2[i].ln = q[i].ln
        /\ q2[i].off = q[i].off /\ q2[i].ver = q[i].ver
        /\ ~ q2[i].first <=> i = h \/ ~ q[i].first
  <2> SUFFICES ASSUME NEW i \in 1..Len(q)
               PROVE  /\ q2[i].type = q[i].type /\ q2[i].ln = q[i].ln
                      /\ q2[i].off = q[i].off /\ q2[i].ver = q[i].ver
                      /\ ~ q2[i].first <=> i = h \/ ~ q[i].first
    OBVIOUS
  <2>1. CASE i = h
    <3>1. q[h] \in [type : {"RD", "WR"}, ln : Lines, off : Offsets,
                    first : BOOLEAN, ver : 0..MaxReqs]
      BY <1>1, Zenon DEF Requests
    <3>2. q2[i] = [q[h] EXCEPT !.first = FALSE]
      BY <1>2, <2>1
    <3>3. QED
      BY <2>1, <3>1, <3>2
  <2>2. CASE i # h
    BY <1>2, <2>2
  <2>3. QED
    BY <2>1, <2>2
<1>4. {i \in 1..Len(q2) : ~ q2[i].first} = I \cup {h}
  BY <1>2, <1>3
<1>5. IsFiniteSet(I)
  <2>1. IsFiniteSet(1..Len(q))
    BY FS_Interval
  <2>2. QED
    BY <2>1, FS_Subset
<1>6. Cardinality(I \cup {h}) = IF h \in I THEN Cardinality(I) ELSE Cardinality(I) + 1
  BY <1>5, FS_AddElement
<1>7. Started(q2) = Started(q) + (IF q[h].first THEN 1 ELSE 0)
  <2>1. Cardinality(I) \in Nat
    BY <1>5, FS_CardinalityType
  <2>2. h \in I <=> ~ q[h].first
    OBVIOUS
  <2>3. Started(q) = Cardinality(I) /\ Started(q2) = Cardinality(I \cup {h})
    BY <1>4 DEF Started
  <2> HIDE DEF I
  <2>4. QED
    BY <1>6, <2>1, <2>2, <2>3
<1>8. QED
  BY <1>2, <1>3, <1>7 DEF q2

\* The request leaves the queue.
LEMMA StartedRemove ==
  ASSUME NEW q \in Seq(Requests), NEW h \in 1..Len(q)
  PROVE  Started(RemoveAt(q, h)) = Started(q) - (IF q[h].first THEN 0 ELSE 1)
<1> DEFINE I == {i \in 1..Len(q) : ~ q[i].first}
           J == LeftOf(Len(q), h, I)
<1>1. I \in SUBSET (1..Len(q)) /\ Len(q) \in Nat
  OBVIOUS
<1>2. h \in I <=> ~ q[h].first
  OBVIOUS
<1>3. Started(q) = Cardinality(I)
  BY DEF Started
<1>4. {i \in 1..Len(RemoveAt(q, h)) : ~ RemoveAt(q, h)[i].first} = J
  <2>1. /\ Len(RemoveAt(q, h)) = Len(q) - 1
        /\ \A i \in 1..(Len(q) - 1) :
             From(h, i) \in 1..Len(q) /\ RemoveAt(q, h)[i] = q[From(h, i)]
    BY RemoveAtElements
  <2>2. QED
    BY <2>1 DEF LeftOf
<1>5. Started(RemoveAt(q, h)) = Cardinality(J)
  BY <1>4 DEF Started
<1> HIDE DEF I
<1>6. /\ Cardinality(J) = Cardinality(I) - (IF h \in I THEN 1 ELSE 0)
      /\ Cardinality(I) \in Nat
  BY <1>1, IndicesLeft
<1> HIDE DEF J
<1>7. QED
  BY <1>2, <1>3, <1>5, <1>6

\* One more answer adds one to it, if its request has accessed a bank.
LEMMA AccessedAppend ==
  ASSUME NEW a \in Seq(Answers), NEW x \in Answers
  PROVE  Accessed(Append(a, x)) = Accessed(a) + Counted(x)
<1> DEFINE I == {i \in 1..Len(a) : a[i].accessed}
<1>1. /\ Len(Append(a, x)) = Len(a) + 1 /\ Append(a, x)[Len(a) + 1] = x
      /\ \A i \in 1..Len(a) : Append(a, x)[i] = a[i]
      /\ \A i \in 1..(Len(a) + 1) : i \in 1..Len(a) \/ i = Len(a) + 1
  OBVIOUS
<1>2. {i \in 1..Len(Append(a, x)) : Append(a, x)[i].accessed}
        = IF x.accessed THEN I \cup {Len(a) + 1} ELSE I
  BY <1>1
<1>3. IsFiniteSet(I) /\ Cardinality(I) \in Nat
  <2>1. IsFiniteSet(1..Len(a))
    BY FS_Interval
  <2>2. QED
    BY <2>1, FS_Subset, FS_CardinalityType
<1>4. Len(a) + 1 \notin I
  OBVIOUS
<1>5. Accessed(a) = Cardinality(I)
  BY DEF Accessed
<1>6. Accessed(Append(a, x)) = Cardinality(IF x.accessed THEN I \cup {Len(a) + 1} ELSE I)
  BY <1>2 DEF Accessed
<1> HIDE DEF I
<1>7. Cardinality(I \cup {Len(a) + 1}) = Cardinality(I) + 1
  BY <1>3, <1>4, FS_AddElement
<1>8. QED
  BY <1>3, <1>5, <1>6, <1>7 DEF Counted

\* The oldest pending read departs.
LEMMA AccessedTail ==
  ASSUME NEW a \in Seq(Answers), a # <<>>
  PROVE  Accessed(Tail(a)) = Accessed(a) - Counted(Head(a))
<1> DEFINE I == {i \in 1..Len(a) : a[i].accessed}
           J == LeftOf(Len(a), 1, I)
<1>1. /\ Len(Tail(a)) = Len(a) - 1 /\ 1 \in 1..Len(a) /\ Head(a) = a[1]
      /\ \A i \in 1..(Len(a) - 1) : i + 1 \in 1..Len(a) /\ Tail(a)[i] = a[i + 1]
  OBVIOUS
<1>2. {i \in 1..Len(Tail(a)) : Tail(a)[i].accessed} = J
  BY <1>1 DEF From, LeftOf
<1>3. I \in SUBSET (1..Len(a)) /\ Len(a) \in Nat
  OBVIOUS
<1>4. 1 \in I <=> Head(a).accessed
  BY <1>1
<1>5. Accessed(a) = Cardinality(I) /\ Accessed(Tail(a)) = Cardinality(J)
  BY <1>2 DEF Accessed
<1> HIDE DEF I
<1>6. /\ Cardinality(J) = Cardinality(I) - (IF 1 \in I THEN 1 ELSE 0)
      /\ Cardinality(I) \in Nat
  BY <1>1, <1>3, IndicesLeft
<1> HIDE DEF J
<1>7. QED
  BY <1>4, <1>5, <1>6 DEF Counted

(***************************************************************************)
(* The parts of a tick.                                                    *)
(***************************************************************************)
\* The bank and the row of a request exist.
LEMMA RequestPlace ==
  ASSUME NEW r \in Requests
  PROVE  /\ r.ln \in Lines /\ r.off \in Offsets /\ Bank(r.ln) \in Banks /\ Row(r.ln) \in Rows
         /\ r.type \in {"RD", "WR"} /\ r.first \in BOOLEAN /\ r.ver \in 0..MaxReqs
BY DEF Requests, Banks, Rows

Served == QueueOf(QueueName)

\* The queue that is served is one of the three and holds requests.
LEMMA ServedType ==
  ASSUME TypeOK
  PROVE  /\ QueueName \in {"mig", "write", "read"}
         /\ QueueName = "mig" => Served = migq
         /\ QueueName = "write" => Served = writeq
         /\ QueueName = "read" => Served = readq
         /\ Served \in Seq(Requests)
<1>1. QueueName \in {"mig", "write", "read"}
  BY DEF QueueName
<1>2. /\ QueueName = "mig" => Served = migq
      /\ QueueName = "write" => Served = writeq
      /\ QueueName = "read" => Served = readq
  BY DEF Served, QueueOf
<1>3. QED
  BY <1>1, <1>2 DEF TypeOK

\* The request chosen is ready whenever it is the oldest row hit that is; one
\* that closes a row closes none that is hit.
LEMMA GetHead ==
  ASSUME NEW q \in Seq(Requests), NEW ready, NEW h, h = get_head(q, ready), h # 0
  PROVE  /\ h \in 1..Len(q)
         /\ RowHit(q[h]) /\ Command(q[h]) \in ready =>
              \A i \in 1..Len(q) : RowHit(q[i]) /\ Command(q[i]) \in ready => h <= i
         /\ ~ RowHit(q[h]) => SparesHits(q, h)
<1> DEFINE all == 1..Len(q)
           can == {i \in all : Command(q[i]) \in ready}
           hits == {i \in all : RowHit(q[i])}
           allowed == {i \in all : SparesHits(q, i)}
<1>1. h = IF can \cap hits # {} THEN Oldest(can \cap hits)
          ELSE IF allowed = {} THEN 0 ELSE Prefer(allowed, can)
  BY DEF get_head
<1>2. /\ \A i \in can : i \in all /\ Command(q[i]) \in ready
      /\ \A i \in all : Command(q[i]) \in ready => i \in can
      /\ \A i \in hits : i \in all /\ RowHit(q[i])
      /\ \A i \in all : RowHit(q[i]) => i \in hits
      /\ \A i \in allowed : i \in all /\ SparesHits(q, i)
      /\ all \subseteq Nat
  OBVIOUS
<1> HIDE DEF can, hits, allowed, all
<1>3. CASE can \cap hits # {}
  <2>1. h = Min(can \cap hits) /\ can \cap hits \in SUBSET Nat
    BY <1>1, <1>2, <1>3 DEF Oldest
  <2>2. h \in can \cap hits /\ \A i \in can \cap hits : h <= i
    BY <1>3, <2>1, MinIndex
  <2>3. QED
    BY <1>2, <2>2 DEF all
<1>4. CASE can \cap hits = {}
  <2>1. allowed # {} /\ h = Prefer(allowed, can)
    BY <1>1, <1>4
  <2> DEFINE A == IF allowed \cap can # {} THEN allowed \cap can ELSE allowed
  <2>2. A # {} /\ A \in SUBSET Nat /\ A \subseteq allowed
    BY <1>2, <2>1
  <2>3. h = Min(A)
    BY <2>1 DEF Prefer, Oldest
  <2> HIDE DEF A
  <2>4. h \in allowed
    BY <2>2, <2>3, MinIndex
  <2>5. QED
    BY <1>2, <1>4, <2>4 DEF all
<1>5. QED
  BY <1>3, <1>4

AnswersLeft(due) == IF due THEN Tail(Answering) ELSE Answering
ServingLeft(due) == cur_serving_requests - (IF due THEN Counted(Head(Answering)) ELSE 0)
OtherNow(inject) == otherq + (IF inject THEN 1 ELSE 0)

\* A refresh is due, and issued or waited for.
RefreshTick(due, inject) ==
  /\ OtherNow(inject) > 0
  /\ SetAnswers(AnswersLeft(due)) /\ cur_serving_requests' = ServingLeft(due)
  /\ UNCHANGED <<readq, writeq, migq>>
  /\ \/ IssueRefresh(OtherNow(inject))
     \/ otherq' = OtherNow(inject) /\ UNCHANGED <<banks, asserts>>

\* The scheduler finds no request whose command is ready.
QuietTick(due, inject) ==
  /\ OtherNow(inject) <= 0 /\ UNCHANGED otherq
  /\ SetAnswers(AnswersLeft(due)) /\ cur_serving_requests' = ServingLeft(due)
  /\ UNCHANGED <<readq, writeq, migq, banks, asserts>>

\* A command of request h of the served queue is issued.
IssueTick(due, inject, h) ==
  /\ OtherNow(inject) <= 0 /\ UNCHANGED otherq
  /\ RowHit(Served[h]) =>
       \A i \in 1..Len(Served) :
         RowHit(Served[i]) /\ Command(Served[i]) = Command(Served[h]) => h <= i
  /\ ~ RowHit(Served[h]) => SparesHits(Served, h)
  /\ Issue(QueueName, Served, h, AnswersLeft(due), ServingLeft(due))

\* A tick answers, may inject a refresh, and then refreshes, idles or issues.
LEMMA TickParts ==
  ASSUME TypeOK, CountersInv, tick
  PROVE  /\ UNCHANGED <<mig_status, to_send, latest, written, reqs, migs>>
         /\ write_mode' \in BOOLEAN
         /\ \E due, inject \in BOOLEAN :
              /\ due => Answering # <<>>
              /\ refreshes' \in 0..MaxRefresh
              /\ refreshes' = refreshes + (IF inject THEN 1 ELSE 0)
              /\ \/ RefreshTick(due, inject)
                 \/ QuietTick(due, inject)
                 \/ \E h \in 1..Len(Served) : IssueTick(due, inject, h)
<1>0. PICK due \in BOOLEAN, inject \in BOOLEAN :
        \E ready \in SUBSET Wanted(inject) : Tick(due, inject, ready)
  BY DEF tick
<1>1. PICK ready \in SUBSET Wanted(inject) : Tick(due, inject, ready)
  BY <1>0
<1>2. /\ UNCHANGED <<mig_status, to_send, latest, written, reqs, migs>>
      /\ due => Answering # <<>>
      /\ inject => refreshes < MaxRefresh
      /\ refreshes' = refreshes + (IF inject THEN 1 ELSE 0)
      /\ UpdateMode
  BY <1>1 DEF Tick
<1>3. write_mode' \in BOOLEAN
  BY <1>2 DEF UpdateMode, NextMode, TypeOK
<1>4. refreshes' \in 0..MaxRefresh
  BY <1>2, BoundAssumption DEF CountersInv
<1>5. CASE OtherNow(inject) > 0
  <2>1. RefreshTick(due, inject)
    BY <1>1, <1>5 DEF Tick, RefreshTick, OtherNow, AnswersLeft, ServingLeft
  <2>2. QED
    BY <1>2, <1>3, <1>4, <2>1
<1>6. CASE ~ (OtherNow(inject) > 0)
  <2>1. OtherNow(inject) <= 0
    BY <1>6 DEF OtherNow, TypeOK
  <2>2. PICK h \in {get_head(Served, ready)} :
          /\ UNCHANGED otherq
          /\ IF h # 0 /\ Command(Served[h]) \in ready
             THEN Issue(QueueName, Served, h, AnswersLeft(due), ServingLeft(due))
             ELSE /\ SetAnswers(AnswersLeft(due)) /\ cur_serving_requests' = ServingLeft(due)
                  /\ UNCHANGED <<readq, writeq, migq, banks, asserts>>
    BY <1>1, <1>6 DEF Tick, OtherNow, AnswersLeft, ServingLeft, Served
  <2>3. CASE h # 0 /\ Command(Served[h]) \in ready
    <3>1. /\ h \in 1..Len(Served)
          /\ RowHit(Served[h]) =>
               \A i \in 1..Len(Served) :
                 RowHit(Served[i]) /\ Command(Served[i]) \in ready => h <= i
          /\ ~ RowHit(Served[h]) => SparesHits(Served, h)
      BY <2>3, ServedType, GetHead
    <3>2. IssueTick(due, inject, h)
      BY <2>1, <2>2, <2>3, <3>1 DEF IssueTick
    <3>3. QED
      BY <1>2, <1>3, <1>4, <3>1, <3>2
  <2>4. CASE ~ (h # 0 /\ Command(Served[h]) \in ready)
    <3>1. QuietTick(due, inject)
      BY <2>1, <2>2, <2>4 DEF QuietTick
    <3>2. QED
      BY <1>2, <1>3, <1>4, <3>1
  <2>5. QED
    BY <2>3, <2>4
<1>7. QED
  BY <1>5, <1>6

StartedAll == Started(readq) + Started(writeq) + Started(migq)
AccessedAll == Accessed(pending) + Accessed(mig_pending)

\* The served queue alone changes.
LEMMA QueueSet ==
  ASSUME TypeOK, NEW q \in Seq(Requests), Len(q) <= Len(Served), SetQueue(QueueName, q)
  PROVE  /\ readq' \in Seq(Requests) /\ writeq' \in Seq(Requests) /\ migq' \in Seq(Requests)
         /\ Len(readq') <= RdMax /\ Len(writeq') <= WrMax /\ Len(migq') <= MgMax
         /\ StartedAll' = StartedAll - Started(Served) + Started(q)
<1>1. /\ readq \in Seq(Requests) /\ writeq \in Seq(Requests) /\ migq \in Seq(Requests)
      /\ Len(readq) <= RdMax /\ Len(writeq) <= WrMax /\ Len(migq) <= MgMax
      /\ Len(q) \in Nat /\ Len(Served) \in Nat
      /\ RdMax \in Nat /\ WrMax \in Nat /\ MgMax \in Nat
  BY ServedType, QueueAssumption DEF TypeOK
<1>2. /\ Started(readq) \in Nat /\ Started(writeq) \in Nat /\ Started(migq) \in Nat
      /\ Started(q) \in Nat /\ Started(Served) \in Nat
  BY <1>1, StartedType, ServedType
<1>3. StartedAll' = Started(readq') + Started(writeq') + Started(migq')
  BY DEF StartedAll, Started
<1>4. CASE QueueName = "read"
  <2>1. Served = readq /\ readq' = q /\ writeq' = writeq /\ migq' = migq
    BY <1>4, ServedType DEF SetQueue
  <2>2. QED
    BY <1>1, <1>2, <1>3, <2>1 DEF StartedAll
<1>5. CASE QueueName = "write"
  <2>1. Served = writeq /\ writeq' = q /\ readq' = readq /\ migq' = migq
    BY <1>5, ServedType DEF SetQueue
  <2>2. QED
    BY <1>1, <1>2, <1>3, <2>1 DEF StartedAll
<1>6. CASE QueueName = "mig"
  <2>1. Served = migq /\ migq' = q /\ readq' = readq /\ writeq' = writeq
    BY <1>6, ServedType DEF SetQueue
  <2>2. QED
    BY <1>1, <1>2, <1>3, <2>1 DEF StartedAll
<1>7. QED
  BY <1>4, <1>5, <1>6, ServedType

\* What is left of the pending reads when the oldest one may have departed.
LEMMA AnswersLeftFacts ==
  ASSUME TypeOK, FreshInv, NEW due \in BOOLEAN, due => Answering # <<>>
  PROVE  /\ Answering \in Seq(Answers)
         /\ AnswersLeft(due) \in Seq(Answers) /\ AnswersOk(AnswersLeft(due))
         /\ Accessed(Answering) \in Nat /\ Accessed(AnswersLeft(due)) \in Nat
         /\ ServingLeft(due) = cur_serving_requests - Accessed(Answering)
                                 + Accessed(AnswersLeft(due))
         /\ ServingLeft(due) \in Int
<1>1. Answering \in Seq(Answers) /\ AnswersOk(Answering) /\ cur_serving_requests \in Int
  BY DEF TypeOK, FreshInv, Answering
<1>2. CASE due
  <2>1. /\ Tail(Answering) \in Seq(Answers) /\ Len(Tail(Answering)) = Len(Answering) - 1
        /\ \A i \in 1..(Len(Answering) - 1) :
             i + 1 \in 1..Len(Answering) /\ Tail(Answering)[i] = Answering[i + 1]
    BY <1>1, <1>2
  <2>2. AnswersOk(Tail(Answering))
    BY <1>1, <2>1 DEF AnswersOk
  <2>3. Accessed(Tail(Answering)) = Accessed(Answering) - Counted(Head(Answering))
    BY <1>1, <1>2, AccessedTail
  <2>4. Accessed(Answering) \in Nat /\ Accessed(Tail(Answering)) \in Nat
    BY <1>1, <2>1, AccessedType
  <2>5. Counted(Head(Answering)) \in Nat
    BY DEF Counted
  <2>6. QED
    BY <1>1, <1>2, <2>1, <2>2, <2>3, <2>4, <2>5 DEF AnswersLeft, ServingLeft
<1>3. CASE ~ due
  BY <1>1, <1>3, AccessedType DEF AnswersLeft, ServingLeft
<1>4. QED
  BY <1>2, <1>3

\* The list of pending reads that is served alone changes.
LEMMA AnswersSet ==
  ASSUME TypeOK, FreshInv, NEW a \in Seq(Answers), AnswersOk(a), SetAnswers(a)
  PROVE  /\ pending' \in Seq(Answers) /\ mig_pending' \in Seq(Answers)
         /\ AnswersOk(pending') /\ AnswersOk(mig_pending')
         /\ AccessedAll' = AccessedAll - Accessed(Answering) + Accessed(a)
<1>1. /\ pending \in Seq(Answers) /\ mig_pending \in Seq(Answers)
      /\ AnswersOk(pending) /\ AnswersOk(mig_pending)
  BY DEF TypeOK, FreshInv
<1>2. /\ Accessed(pending) \in Nat /\ Accessed(mig_pending) \in Nat /\ Accessed(a) \in Nat
  BY <1>1, AccessedType
<1>3. AccessedAll' = Accessed(pending') + Accessed(mig_pending')
  BY DEF AccessedAll, Accessed
<1>4. CASE mig_status = 3
  <2>1. Answering = mig_pending /\ mig_pending' = a /\ pending' = pending
    BY <1>4 DEF SetAnswers, Answering
  <2>2. QED
    BY <1>1, <1>2, <1>3, <2>1 DEF AccessedAll
<1>5. CASE mig_status # 3
  <2>1. Answering = pending /\ pending' = a /\ mig_pending' = mig_pending
    BY <1>5 DEF SetAnswers, Answering
  <2>2. QED
    BY <1>1, <1>2, <1>3, <2>1 DEF AccessedAll
<1>6. QED
  BY <1>4, <1>5

(***************************************************************************)
(* A command is issued.                                                    *)
(***************************************************************************)
\* The three ways to issue a command: it opens or closes a row, reads or writes.
Prepares(due, h) ==
  LET r == Served[h]
  IN /\ get_first_cmd(r) \in {"ACT", "PRE"}
     /\ IF get_first_cmd(r) = "ACT" THEN Activated(r) ELSE Closed({Bank(r.ln)})
     /\ asserts' = (asserts /\ (get_first_cmd(r) = "PRE" => Bank(r.ln) \in DOMAIN rowtable))
     /\ SetQueue(QueueName, [Served EXCEPT ![h].first = FALSE])
     /\ SetAnswers(AnswersLeft(due))
     /\ cur_serving_requests' = ServingLeft(due) + (IF r.first THEN 1 ELSE 0)
     /\ UNCHANGED mem

Reads(due, h) ==
  LET r == Served[h]
  IN /\ RowHit(r) /\ r.type = "RD" /\ QueueName \in {"read", "mig"}
     /\ SetQueue(QueueName, RemoveAt(Served, h))
     /\ SetAnswers(Append(AnswersLeft(due),
                          [want |-> r.ver, got |-> mem[r.ln], accessed |-> TRUE]))
     /\ cur_serving_requests' = ServingLeft(due) + (IF r.first THEN 1 ELSE 0)
     /\ asserts' = (asserts /\ InRowTable(r))
     /\ UNCHANGED banks

Writes(due, h) ==
  LET r == Served[h]
  IN /\ RowHit(r) /\ r.type = "WR" /\ QueueName = "write"
     /\ SetQueue(QueueName, RemoveAt(Served, h))
     /\ SetAnswers(AnswersLeft(due))
     /\ mem' = [mem EXCEPT ![r.ln] = r.ver]
     /\ cur_serving_requests' = ServingLeft(due) + (IF r.first THEN 1 ELSE 0) - 1
     /\ asserts' = (asserts /\ InRowTable(r))
     /\ UNCHANGED <<row_state, rowtable>>

\* The command a request needs follows from the state of its bank.
LEMMA FirstCommand ==
  ASSUME NEW r \in Requests
  PROVE  /\ get_first_cmd(r) \in {"ACT", "PRE", "RD", "WR"}
         /\ get_first_cmd(r) = "ACT" <=> ~ RowOpen(r)
         /\ get_first_cmd(r) = "PRE" <=> RowOpen(r) /\ ~ RowHit(r)
         /\ get_first_cmd(r) \in {"RD", "WR"} => RowHit(r) /\ get_first_cmd(r) = r.type
         /\ RowHit(r) => RowOpen(r) /\ get_first_cmd(r) = r.type
<1>1. r.type \in {"RD", "WR"}
  BY RequestPlace
<1>2. RowHit(r) => RowOpen(r)
  BY DEF RowHit, RowOpen
<1>3. QED
  BY <1>1, <1>2 DEF get_first_cmd

\* What is issued prepares a row, or is a read or a write.
LEMMA IssueParts ==
  ASSUME TypeOK, FreshInv, NEW due \in BOOLEAN, due => Answering # <<>>,
         NEW h \in 1..Len(Served),
         Issue(QueueName, Served, h, AnswersLeft(due), ServingLeft(due))
  PROVE  Prepares(due, h) \/ Reads(due, h) \/ Writes(due, h)
<1> DEFINE r == Served[h]
<1>1. r \in Requests /\ QueueName \in {"mig", "write", "read"}
  BY ServedType
<1>2. IF QueueName = "write" THEN r.type = "WR" ELSE r.type = "RD"
  BY <1>1, ServedType DEF FreshInv, ReadsOk, WritesOk
<1>3. CASE get_first_cmd(r) \in {"ACT", "PRE"}
  BY <1>3 DEF Issue, Prepares
<1>4. CASE get_first_cmd(r) = "RD"
  <2>1. RowHit(r) /\ r.type = "RD" /\ QueueName \in {"read", "mig"}
    BY <1>1, <1>2, <1>4, FirstCommand
  <2>2. QED
    BY <1>4, <2>1 DEF Issue, Reads
<1>5. CASE get_first_cmd(r) = "WR"
  <2>1. RowHit(r) /\ r.type = "WR" /\ QueueName = "write"
    BY <1>1, <1>2, <1>5, FirstCommand
  <2>2. ~ (get_first_cmd(r) \in {"ACT", "PRE"}) /\ get_first_cmd(r) # "RD"
    BY <1>5
  <2>3. /\ SetQueue(QueueName, RemoveAt(Served, h)) /\ SetAnswers(AnswersLeft(due))
        /\ asserts' = (asserts /\ InRowTable(r))
        /\ UNCHANGED <<row_state, rowtable>>
    BY <2>2 DEF Issue
  <2>4. mem' = [mem EXCEPT ![r.ln] = r.ver]
    BY <2>2 DEF Issue
  <2>5. cur_serving_requests' = ServingLeft(due) + (IF r.first THEN 1 ELSE 0) - 1
    <3>1. ServingLeft(due) \in Int
      BY AnswersLeftFacts
    <3>2. QED
      BY <2>2, <3>1 DEF Issue
  <2>6. QED
    BY <2>1, <2>3, <2>4, <2>5 DEF Writes
<1>6. QED
  BY <1>1, <1>3, <1>4, <1>5, FirstCommand

(***************************************************************************)
(* The initial states.                                                     *)
(***************************************************************************)
LEMMA InitInv == Init => IInv
<1> SUFFICES ASSUME Init PROVE IInv
  OBVIOUS
<1> USE QueueAssumption, BoundAssumption DEF Init
<1>1. TypeOK
  <2>1. row_state \in [Banks -> SUBSET Rows]
    OBVIOUS
  <2>2. DOMAIN rowtable = {}
    OBVIOUS
  <2>3. /\ readq \in Seq(Requests) /\ writeq \in Seq(Requests) /\ migq \in Seq(Requests)
        /\ Len(readq) <= RdMax /\ Len(writeq) <= WrMax /\ Len(migq) <= MgMax
        /\ pending \in Seq(Answers) /\ mig_pending \in Seq(Answers)
        /\ to_send \in Seq(Lines)
    OBVIOUS
  <2>4. mem \in [Lines -> 0..MaxReqs] /\ latest \in [Lines -> 0..MaxReqs]
        /\ written \in [Addrs -> 0..MaxReqs]
    OBVIOUS
  <2>5. /\ otherq \in 0..MaxRefresh /\ write_mode \in BOOLEAN /\ asserts \in BOOLEAN
        /\ cur_serving_requests \in Int /\ mig_status \in {0, 1, 3}
    <3>1. otherq = 0 /\ cur_serving_requests = 0 /\ mig_status = 0
      OBVIOUS
    <3>2. write_mode \in BOOLEAN /\ asserts \in BOOLEAN
      OBVIOUS
    <3> HIDE DEF Init
    <3>3. QED
      BY <3>1, <3>2
  <2> HIDE DEF Init
  <2>6. QED
    BY <2>1, <2>2, <2>3, <2>4, <2>5 DEF TypeOK
<1>2. CountersInv
  BY DEF CountersInv
<1>3. FreshInv
  <2>1. ReadsOk(readq) /\ ReadsOk(migq) /\ WritesOk /\ AnswersOk(pending) /\ AnswersOk(mig_pending)
    BY DEF ReadsOk, WritesOk, AnswersOk
  <2>2. WrittenOk
    BY DEF WrittenOk, Addrs
  <2>3. QED
    BY <2>1, <2>2 DEF FreshInv
<1>4. ServingExact
  <2>1. Started(<<>>) = 0 /\ Accessed(<<>>) = 0
    <3>1. {i \in 1..Len(<<>>) : ~ <<>>[i].first} = {} /\ {i \in 1..Len(<<>>) : <<>>[i].accessed} = {}
      OBVIOUS
    <3>2. QED
      BY <3>1, FS_EmptySet DEF Started, Accessed
  <2>2. QED
    BY <2>1 DEF ServingExact
<1>5. RowTableSound
  BY DEF RowTableSound
<1>6. QED
  BY <1>1, <1>2, <1>3, <1>4, <1>5 DEF IInv

(***************************************************************************)
(* Types and bounds.                                                       *)
(***************************************************************************)
\* The last write that is queued of a line is the last that was accepted.
LEMMA LastOfLineIs ==
  ASSUME TypeOK, WritesOk, NEW l \in Lines, LineQueued(l)
  PROVE  LastOfLine(l) = latest[l]
<1> DEFINE I == {i \in 1..Len(writeq) : writeq[i].ln = l}
<1>1. PICK k \in 1..Len(writeq) : writeq[k].ln = l
  BY DEF LineQueued
<1>2. /\ \A i \in 1..Len(writeq) : writeq[i].ver \in Nat
      /\ mem[l] \in Nat /\ latest[l] \in Nat
  <2>1. \A i \in 1..Len(writeq) : writeq[i] \in Requests
    BY DEF TypeOK
  <2>2. QED
    BY <2>1, RequestPlace, BoundAssumption DEF TypeOK
<1>3. latest[l] # mem[l]
  BY <1>1, <1>2 DEF WritesOk
<1>4. PICK m \in 1..Len(writeq) : writeq[m].ln = l /\ writeq[m].ver = latest[l]
  BY <1>3 DEF WritesOk
<1>5. \A i \in I : i <= m
  <2> SUFFICES ASSUME NEW i \in 1..Len(writeq), writeq[i].ln = l, i > m PROVE FALSE
    OBVIOUS
  <2>1. writeq[m].ver < writeq[i].ver /\ writeq[i].ver <= latest[l]
    BY <1>4 DEF WritesOk
  <2>2. QED
    BY <1>2, <1>4, <2>1
<1>6. I \in SUBSET Nat /\ m \in I
  BY <1>4
<1>7. LastOfLine(l) = writeq[Max(I)].ver
  BY DEF LastOfLine
<1> HIDE DEF I
<1>8. Max(I) = m
  BY <1>5, <1>6, MaxIndex
<1>9. QED
  BY <1>4, <1>7, <1>8

\* What a read is given from the write queue is the last write of its address.
LEMMA LastWriteIs ==
  ASSUME TypeOK, WritesOk, WrittenOk, NEW l \in Lines, NEW off \in Offsets,
         WriteQueued(l, off)
  PROVE  LastWrite(l, off) = written[<<l, off>>]
<1> DEFINE I == WritesOf(l, off)
           w == written[<<l, off>>]
<1>1. /\ \A i \in I : i \in 1..Len(writeq) /\ writeq[i].ln = l /\ writeq[i].off = off
      /\ I \in SUBSET Nat
  BY DEF WritesOf
<1>2. PICK k \in I : TRUE
  BY DEF WriteQueued
<1>3. w \in Nat /\ mem[l] \in Nat /\ \A i \in 1..Len(writeq) : writeq[i].ver \in Nat
  <2>1. \A i \in 1..Len(writeq) : writeq[i] \in Requests
    BY DEF TypeOK
  <2>2. <<l, off>> \in Addrs
    BY DEF Addrs
  <2>3. QED
    BY <2>1, <2>2, RequestPlace, BoundAssumption DEF TypeOK
<1>4. \A i \in I : mem[l] < writeq[i].ver /\ writeq[i].ver <= w
  BY <1>1 DEF WritesOk, WrittenOk
<1>5. ~ (w <= mem[l])
  BY <1>1, <1>2, <1>3, <1>4
<1>6. PICK m \in I : writeq[m].ver = w
  BY <1>5 DEF WrittenOk
<1> HIDE DEF I, w
<1>7. \A i \in I : i <= m
  <2> SUFFICES ASSUME NEW i \in I, i > m PROVE FALSE
    BY <1>1
  <2>1. writeq[m].ver < writeq[i].ver
    BY <1>1 DEF WritesOk
  <2>2. QED
    BY <1>1, <1>3, <1>4, <1>6, <2>1
<1>8. Max(I) = m
  BY <1>1, <1>7, MaxIndex
<1>9. QED
  BY <1>6, <1>8 DEF LastWrite, I, w

\* What enters a queue of reads or the pending reads is of their types; what is
\* forwarded is at least what is wanted and has not accessed a bank.
LEMMA ReadTypes ==
  ASSUME TypeOK, WritesOk, WrittenOk, NEW l \in Lines, NEW off \in Offsets
  PROVE  /\ QueuedRead(l, off) \in Requests /\ QueuedRead(l, off).first
         /\ WriteQueued(l, off) => /\ ForwardedRead(l, off) \in Answers
                                   /\ Counted(ForwardedRead(l, off)) = 0
                                   /\ ForwardedRead(l, off).got >= ForwardedRead(l, off).want
<1>1. written[<<l, off>>] \in 0..MaxReqs /\ written[<<l, off>>] \in Nat
  <2>1. <<l, off>> \in Addrs
    BY DEF Addrs
  <2>2. QED
    BY <2>1, BoundAssumption DEF TypeOK
<1>2. QueuedRead(l, off) \in Requests /\ QueuedRead(l, off).first
  BY <1>1 DEF QueuedRead, Request, Requests
<1>3. ASSUME WriteQueued(l, off)
      PROVE  /\ ForwardedRead(l, off) \in Answers
             /\ Counted(ForwardedRead(l, off)) = 0
             /\ ForwardedRead(l, off).got >= ForwardedRead(l, off).want
  <2>1. LastWrite(l, off) = written[<<l, off>>]
    BY <1>3, LastWriteIs
  <2>2. QED
    BY <1>1, <2>1 DEF ForwardedRead, Answers, Counted
<1>4. QED
  BY <1>2, <1>3

\* A request that is accepted keeps the types.
LEMMA EnqueueTypes ==
  ASSUME TypeOK, CountersInv, FreshInv, NEW l \in Lines, NEW off \in Offsets,
         enqueue(l, off)
  PROVE  TypeOK' /\ CountersInv'
<1>1. /\ reqs < MaxReqs /\ reqs' = reqs + 1 /\ reqs \in 0..MaxReqs /\ MaxReqs \in Nat
      /\ latest[l] \in 0..MaxReqs /\ latest[l] <= reqs
      /\ UNCHANGED <<migq, otherq, mig_pending, write_mode, row_state, rowtable, mem,
                     cur_serving_requests, asserts, mig_status, to_send, refreshes>>
  BY BoundAssumption DEF enqueue, CountersInv, TypeOK, banks
<1>2. CASE enqueue_read(l, off)
  <2>1. UNCHANGED <<writeq, latest, written>>
    BY <1>2 DEF enqueue_read
  <2>2. readq' \in Seq(Requests) /\ Len(readq') <= RdMax /\ pending' \in Seq(Answers)
    <3>1. CASE Forward(l, off)
      <4>1. ForwardedRead(l, off) \in Answers
        BY <3>1, ReadTypes DEF Forward, FreshInv
      <4>2. readq' = readq /\ pending' = Append(pending, ForwardedRead(l, off))
        BY <1>2, <3>1 DEF enqueue_read
      <4>3. QED
        BY <4>1, <4>2 DEF TypeOK
    <3>2. CASE ~ Forward(l, off)
      <4>1. QueuedRead(l, off) \in Requests
        BY ReadTypes DEF FreshInv
      <4>2. readq \in Seq(Requests) /\ Len(readq) < RdMax /\ RdMax \in Nat
        BY <1>2, QueueAssumption DEF enqueue_read, Room, TypeOK
      <4>3. pending' = pending /\ readq' = Append(readq, QueuedRead(l, off))
        BY <1>2, <3>2 DEF enqueue_read
      <4>4. QED
        <5>1. /\ Append(readq, QueuedRead(l, off)) \in Seq(Requests)
              /\ Len(Append(readq, QueuedRead(l, off))) = Len(readq) + 1
          BY <4>1, <4>2
        <5>2. Len(readq) + 1 <= RdMax
          BY <4>2
        <5>3. QED
          BY <4>3, <5>1, <5>2 DEF TypeOK
    <3>3. QED
      BY <3>1, <3>2
  <2>3. CountersInv'
    <3>1. reqs' \in 0..MaxReqs /\ UNCHANGED <<otherq, refreshes, latest>>
      BY <1>1, <2>1
    <3>2. \A k \in Lines : latest[k] \in Nat /\ latest[k] <= reqs
      BY DEF TypeOK, CountersInv
    <3>3. \A k \in Lines : latest'[k] <= reqs'
      BY <1>1, <3>1, <3>2
    <3>4. QED
      BY <3>1, <3>3 DEF CountersInv
  <2>4. TypeOK'
    BY <1>1, <2>1, <2>2 DEF TypeOK
  <2>5. QED
    BY <2>3, <2>4
<1>3. CASE enqueue_write(l, off)
  <2>1. UNCHANGED <<readq, pending>>
    BY <1>3 DEF enqueue_write
  <2>2. Request("WR", l, off, latest[l] + 1) \in Requests
    BY <1>1 DEF Request, Requests
  <2>3. Len(writeq) < WrMax
    BY <1>3, QueueAssumption DEF enqueue_write, Room, TypeOK
  <2>4. writeq' \in Seq(Requests) /\ Len(writeq') <= WrMax
    BY <1>3, <2>2, <2>3, QueueAssumption DEF enqueue_write, TypeOK
  <2>5. latest' \in [Lines -> 0..MaxReqs] /\ \A k \in Lines : latest'[k] <= reqs'
    <3>1. /\ latest' = [latest EXCEPT ![l] = @ + 1] /\ latest \in [Lines -> 0..MaxReqs]
          /\ \A k \in Lines : latest[k] <= reqs
      BY <1>3 DEF enqueue_write, TypeOK, CountersInv
    <3>2. \A k \in Lines : latest'[k] = IF k = l THEN latest[l] + 1 ELSE latest[k]
      BY <3>1
    <3>3. QED
      BY <1>1, <3>1, <3>2
  <2>6. written' \in [Addrs -> 0..MaxReqs]
    <3> DEFINE a == <<l, off>>
    <3>1. a \in Addrs /\ written' = [written EXCEPT ![a] = latest[l] + 1]
      BY <1>3 DEF enqueue_write, Addrs
    <3> HIDE DEF a
    <3>2. QED
      BY <1>1, <3>1 DEF TypeOK
  <2>7. reqs' \in 0..MaxReqs
    BY <1>1
  <2>8. QED
    BY <1>1, <2>1, <2>4, <2>5, <2>6, <2>7 DEF TypeOK, CountersInv
<1>4. QED
  BY <1>2, <1>3 DEF enqueue

\* So does a read of a migration.
LEMMA EnqueueMigTypes ==
  ASSUME TypeOK, CountersInv, FreshInv, enqueue_mig
  PROVE  TypeOK' /\ CountersInv'
<1> DEFINE l == Head(to_send)
<1>1. /\ l \in Lines /\ 0 \in Offsets /\ to_send' \in Seq(Lines)
      /\ UNCHANGED <<readq, writeq, otherq, pending, write_mode, row_state, rowtable, mem,
                     cur_serving_requests, asserts, mig_status, latest, written, reqs,
                     refreshes>>
  BY OffsetAssumption DEF enqueue_mig, TypeOK, banks, counters
<1> HIDE DEF l
<1>2. migq' \in Seq(Requests) /\ Len(migq') <= MgMax /\ mig_pending' \in Seq(Answers)
  <2>1. CASE Forward(l, 0)
    <3>1. ForwardedRead(l, 0) \in Answers
      BY <1>1, <2>1, ReadTypes DEF Forward, FreshInv
    <3>2. migq' = migq /\ mig_pending' = Append(mig_pending, ForwardedRead(l, 0))
      BY <2>1 DEF enqueue_mig, l
    <3>3. QED
      BY <3>1, <3>2 DEF TypeOK
  <2>2. CASE ~ Forward(l, 0)
    <3>1. QueuedRead(l, 0) \in Requests
      BY <1>1, ReadTypes DEF FreshInv
    <3>2. Len(migq) < MgMax
      BY QueueAssumption DEF enqueue_mig, Room, TypeOK
    <3>3. mig_pending' = mig_pending /\ migq' = Append(migq, QueuedRead(l, 0))
      BY <2>2 DEF enqueue_mig, l
    <3>4. QED
      BY <3>1, <3>2, <3>3, QueueAssumption DEF TypeOK
  <2>3. QED
    BY <2>1, <2>2
<1>3. QED
  BY <1>1, <1>2 DEF TypeOK, CountersInv

\* So do the start and the end of a migration.
LEMMA MigStatusTypes ==
  ASSUME TypeOK, CountersInv, MigStatus
  PROVE  TypeOK' /\ CountersInv'
<1>1. mig_status' \in {0, 1, 3} /\ to_send' \in Seq(Lines)
  BY PageAssumption DEF MigStatus, TypeOK
<1>2. QED
  BY <1>1 DEF MigStatus, TypeOK, CountersInv, queues, banks

\* What a command does to the banks keeps their types.
LEMMA BankTypes ==
  ASSUME TypeOK, NEW r \in Requests
  PROVE  /\ Activated(r) => /\ row_state' \in [Banks -> SUBSET Rows]
                            /\ DOMAIN rowtable' = DOMAIN rowtable \cup {Bank(r.ln)}
                            /\ \A b \in DOMAIN rowtable' :
                                 rowtable'[b] = IF b \in DOMAIN rowtable THEN rowtable[b]
                                                ELSE Row(r.ln)
                            /\ \A b \in Banks :
                                 row_state'[b] = IF b = Bank(r.ln) THEN row_state[b] \cup {Row(r.ln)}
                                                 ELSE row_state[b]
         /\ \A B \in SUBSET Banks : Closed(B) =>
              /\ row_state' \in [Banks -> SUBSET Rows]
              /\ DOMAIN rowtable' = DOMAIN rowtable \ B
              /\ \A b \in DOMAIN rowtable' : rowtable'[b] = rowtable[b]
              /\ \A b \in Banks : row_state'[b] = IF b \in B THEN {} ELSE row_state[b]
<1>1. row_state \in [Banks -> SUBSET Rows] /\ Bank(r.ln) \in Banks /\ Row(r.ln) \in Rows
  BY RequestPlace DEF TypeOK
<1>2. ASSUME Activated(r)
      PROVE  /\ row_state' \in [Banks -> SUBSET Rows]
             /\ DOMAIN rowtable' = DOMAIN rowtable \cup {Bank(r.ln)}
             /\ \A b \in DOMAIN rowtable' :
                  rowtable'[b] = IF b \in DOMAIN rowtable THEN rowtable[b] ELSE Row(r.ln)
             /\ \A b \in Banks :
                  row_state'[b] = IF b = Bank(r.ln) THEN row_state[b] \cup {Row(r.ln)}
                                  ELSE row_state[b]
  <2>1. row_state' = [row_state EXCEPT ![Bank(r.ln)] = @ \cup {Row(r.ln)}]
    BY <1>2 DEF Activated
  <2>2. rowtable' = [b \in DOMAIN rowtable \cup {Bank(r.ln)} |->
                       IF b \in DOMAIN rowtable THEN rowtable[b] ELSE Row(r.ln)]
    BY <1>2 DEF Activated
  <2>3. QED
    BY <1>1, <2>1, <2>2
<1>3. ASSUME NEW B \in SUBSET Banks, Closed(B)
      PROVE  /\ row_state' \in [Banks -> SUBSET Rows]
             /\ DOMAIN rowtable' = DOMAIN rowtable \ B
             /\ \A b \in DOMAIN rowtable' : rowtable'[b] = rowtable[b]
             /\ \A b \in Banks : row_state'[b] = IF b \in B THEN {} ELSE row_state[b]
  BY <1>1, <1>3 DEF Closed, RowTableWithout
<1>4. QED
  BY <1>2, <1>3

\* The banks and the queues after a command of a request.
LEMMA IssueTypes ==
  ASSUME TypeOK, FreshInv, NEW due \in BOOLEAN, due => Answering # <<>>,
         NEW h \in 1..Len(Served),
         Prepares(due, h) \/ Reads(due, h) \/ Writes(due, h)
  PROVE  /\ readq' \in Seq(Requests) /\ writeq' \in Seq(Requests) /\ migq' \in Seq(Requests)
         /\ Len(readq') <= RdMax /\ Len(writeq') <= WrMax /\ Len(migq') <= MgMax
         /\ pending' \in Seq(Answers) /\ mig_pending' \in Seq(Answers)
         /\ AnswersOk(pending') /\ AnswersOk(mig_pending')
         /\ row_state' \in [Banks -> SUBSET Rows]
         /\ DOMAIN rowtable' \subseteq Banks /\ \A b \in DOMAIN rowtable' : rowtable'[b] \in Rows
         /\ cur_serving_requests' \in Int /\ asserts' \in BOOLEAN
         /\ mem' \in [Lines -> 0..MaxReqs]
         /\ cur_serving_requests' - cur_serving_requests
              = (StartedAll' - StartedAll) + (AccessedAll' - AccessedAll)
<1> DEFINE r == Served[h]
<1>q. Served \in Seq(Requests) /\ r \in Requests
  BY ServedType
<1>r. /\ r.ln \in Lines /\ Bank(r.ln) \in Banks /\ r.ver \in 0..MaxReqs
      /\ mem[r.ln] \in 0..MaxReqs /\ r.first \in BOOLEAN
  BY <1>q, RequestPlace DEF TypeOK
<1>a. /\ AnswersLeft(due) \in Seq(Answers) /\ AnswersOk(AnswersLeft(due))
      /\ Accessed(Answering) \in Nat /\ Accessed(AnswersLeft(due)) \in Nat
      /\ ServingLeft(due) = cur_serving_requests - Accessed(Answering)
                              + Accessed(AnswersLeft(due))
      /\ ServingLeft(due) \in Int
  BY AnswersLeftFacts
<1>t. /\ cur_serving_requests \in Int /\ mem \in [Lines -> 0..MaxReqs]
      /\ row_state \in [Banks -> SUBSET Rows] /\ DOMAIN rowtable \subseteq Banks
      /\ \A b \in DOMAIN rowtable : rowtable[b] \in Rows
      /\ Started(Served) \in Nat /\ StartedAll \in Int /\ AccessedAll \in Int
  <2>1. /\ Started(Served) \in Nat /\ Started(readq) \in Nat /\ Started(writeq) \in Nat
        /\ Started(migq) \in Nat /\ Accessed(pending) \in Nat /\ Accessed(mig_pending) \in Nat
    BY <1>q, StartedType, AccessedType DEF TypeOK
  <2>2. StartedAll \in Int /\ AccessedAll \in Int
    BY <2>1 DEF StartedAll, AccessedAll
  <2>3. QED
    BY <2>1, <2>2 DEF TypeOK
<1>m. RemoveAt(Served, h) \in Seq(Requests) /\ Len(RemoveAt(Served, h)) <= Len(Served)
  BY <1>q, RemoveAtElements
<1>n. Started(RemoveAt(Served, h)) = Started(Served) - (IF r.first THEN 0 ELSE 1)
  BY <1>q, StartedRemove
<1>i. PICK cur \in Int, st \in Int, acc \in Int, sv \in Int, an \in Int, al \in Int :
        /\ cur = cur_serving_requests /\ st = StartedAll /\ acc = AccessedAll
        /\ sv = Started(Served)
        /\ an = Accessed(Answering) /\ al = Accessed(AnswersLeft(due))
        /\ ServingLeft(due) = cur - an + al
  <2>1. /\ cur_serving_requests \in Int /\ StartedAll \in Int /\ AccessedAll \in Int
        /\ Started(Served) \in Int
        /\ Accessed(Answering) \in Int /\ Accessed(AnswersLeft(due)) \in Int
    BY <1>a, <1>t
  <2>2. QED
    BY <1>a, <2>1
<1>k. PICK k \in Int : k = IF r.first THEN 1 ELSE 0
  OBVIOUS
<1> HIDE DEF r
<1>1. CASE Prepares(due, h)
  <2> DEFINE q == [Served EXCEPT ![h].first = FALSE]
  <2>1. q \in Seq(Requests) /\ Len(q) = Len(Served)
        /\ Started(q) = Started(Served) + (IF r.first THEN 1 ELSE 0)
    BY <1>q, StartedMark DEF r
  <2>2. SetQueue(QueueName, q) /\ SetAnswers(AnswersLeft(due)) /\ mem' = mem
    BY <1>1 DEF Prepares
  <2>3. cur_serving_requests' = ServingLeft(due) + (IF r.first THEN 1 ELSE 0)
    BY <1>1 DEF Prepares, r
  <2>4. asserts' \in BOOLEAN
    BY <1>1 DEF Prepares
  <2>5. Activated(r) \/ Closed({Bank(r.ln)})
    BY <1>1 DEF Prepares, r
  <2>6. /\ row_state' \in [Banks -> SUBSET Rows]
        /\ DOMAIN rowtable' \subseteq Banks /\ \A b \in DOMAIN rowtable' : rowtable'[b] \in Rows
    <3>1. CASE Activated(r)
      <4>1. /\ row_state' \in [Banks -> SUBSET Rows]
            /\ DOMAIN rowtable' = DOMAIN rowtable \cup {Bank(r.ln)}
            /\ \A b \in DOMAIN rowtable' :
                 rowtable'[b] = IF b \in DOMAIN rowtable THEN rowtable[b] ELSE Row(r.ln)
        BY <1>q, <3>1, BankTypes
      <4>2. Row(r.ln) \in Rows
        BY <1>q, RequestPlace
      <4>3. QED
        BY <1>r, <1>t, <4>1, <4>2
    <3>2. CASE Closed({Bank(r.ln)})
      <4>1. /\ row_state' \in [Banks -> SUBSET Rows]
            /\ DOMAIN rowtable' = DOMAIN rowtable \ {Bank(r.ln)}
            /\ \A b \in DOMAIN rowtable' : rowtable'[b] = rowtable[b]
        <5>1. {Bank(r.ln)} \in SUBSET Banks
          BY <1>r
        <5>2. QED
          BY <1>q, <3>2, <5>1, BankTypes
      <4>2. QED
        BY <1>t, <4>1
    <3>3. QED
      BY <2>5, <3>1, <3>2
  <2> HIDE DEF q
  <2>7. /\ readq' \in Seq(Requests) /\ writeq' \in Seq(Requests) /\ migq' \in Seq(Requests)
        /\ Len(readq') <= RdMax /\ Len(writeq') <= WrMax /\ Len(migq') <= MgMax
        /\ StartedAll' = StartedAll - Started(Served) + Started(q)
    BY <1>q, <2>1, <2>2, QueueSet
  <2>8. /\ pending' \in Seq(Answers) /\ mig_pending' \in Seq(Answers)
        /\ AnswersOk(pending') /\ AnswersOk(mig_pending')
        /\ AccessedAll' = AccessedAll - Accessed(Answering) + Accessed(AnswersLeft(due))
    BY <1>a, <2>2, AnswersSet
  <2>9. cur_serving_requests' - cur_serving_requests
          = (StartedAll' - StartedAll) + (AccessedAll' - AccessedAll)
    <3>1. cur_serving_requests' = (cur - an + al) + k
      BY <1>i, <1>k, <2>3
    <3>2. StartedAll' = st - sv + (sv + k)
      BY <1>i, <1>k, <2>1, <2>7
    <3>3. AccessedAll' = acc - an + al
      BY <1>i, <2>8
    <3>4. ((cur - an + al) + k) - cur = ((st - sv + (sv + k)) - st) + ((acc - an + al) - acc)
      OBVIOUS
    <3>5. QED
      BY <1>i, <3>1, <3>2, <3>3, <3>4
  <2>10. cur_serving_requests' \in Int
    BY <1>a, <2>3
  <2>11. QED
    BY <1>t, <2>2, <2>4, <2>6, <2>7, <2>8, <2>9, <2>10
<1>2. CASE Reads(due, h)
  <2> DEFINE x == [want |-> r.ver, got |-> mem[r.ln], accessed |-> TRUE]
             a == Append(AnswersLeft(due), x)
  <2>1. SetQueue(QueueName, RemoveAt(Served, h)) /\ SetAnswers(a)
        /\ UNCHANGED <<row_state, rowtable, mem>>
    BY <1>2 DEF Reads, banks, r
  <2>2. cur_serving_requests' = ServingLeft(due) + (IF r.first THEN 1 ELSE 0)
    BY <1>2 DEF Reads, r
  <2>3. asserts' \in BOOLEAN
    BY <1>2 DEF Reads
  <2>4. r.ver <= mem[r.ln]
    <3>1. QueueName \in {"read", "mig"}
      BY <1>2 DEF Reads
    <3>2. QED
      BY <3>1, ServedType DEF FreshInv, ReadsOk, r
  <2>5. x \in Answers /\ Counted(x) = 1
    BY <1>r DEF Answers, Counted
  <2>6. a \in Seq(Answers) /\ AnswersOk(a)
    <3>1. /\ a \in Seq(Answers) /\ Len(a) = Len(AnswersLeft(due)) + 1
          /\ a[Len(AnswersLeft(due)) + 1] = x
          /\ \A i \in 1..Len(AnswersLeft(due)) : a[i] = AnswersLeft(due)[i]
          /\ \A i \in 1..Len(a) : i \in 1..Len(AnswersLeft(due)) \/ i = Len(AnswersLeft(due)) + 1
      BY <1>a, <2>5
    <3>2. x.got >= x.want
      BY <1>r, <2>4
    <3> HIDE DEF a, x
    <3>3. QED
      BY <1>a, <3>1, <3>2 DEF AnswersOk
  <2>7. Accessed(a) = Accessed(AnswersLeft(due)) + 1
    BY <1>a, <2>5, AccessedAppend
  <2> HIDE DEF a, x
  <2>8. /\ readq' \in Seq(Requests) /\ writeq' \in Seq(Requests) /\ migq' \in Seq(Requests)
        /\ Len(readq') <= RdMax /\ Len(writeq') <= WrMax /\ Len(migq') <= MgMax
        /\ StartedAll' = StartedAll - Started(Served) + Started(RemoveAt(Served, h))
    BY <1>m, <2>1, QueueSet
  <2>9. /\ pending' \in Seq(Answers) /\ mig_pending' \in Seq(Answers)
        /\ AnswersOk(pending') /\ AnswersOk(mig_pending')
        /\ AccessedAll' = AccessedAll - Accessed(Answering) + Accessed(a)
    BY <2>1, <2>6, AnswersSet
  <2>10. cur_serving_requests' - cur_serving_requests
          = (StartedAll' - StartedAll) + (AccessedAll' - AccessedAll)
    <3>1. cur_serving_requests' = (cur - an + al) + k
      BY <1>i, <1>k, <2>2
    <3>2. StartedAll' = st - sv + (sv - (1 - k))
      <4>1. Started(RemoveAt(Served, h)) = sv - (1 - k)
        BY <1>i, <1>k, <1>n
      <4>2. QED
        BY <1>i, <2>8, <4>1
    <3>3. AccessedAll' = acc - an + (al + 1)
      BY <1>i, <2>7, <2>9
    <3>4. ((cur - an + al) + k) - cur
            = ((st - sv + (sv - (1 - k))) - st) + ((acc - an + (al + 1)) - acc)
      OBVIOUS
    <3>5. QED
      BY <1>i, <3>1, <3>2, <3>3, <3>4
  <2>11. cur_serving_requests' \in Int
    BY <1>a, <2>2
  <2>12. QED
    BY <1>t, <2>1, <2>3, <2>8, <2>9, <2>10, <2>11
<1>3. CASE Writes(due, h)
  <2>1. SetQueue(QueueName, RemoveAt(Served, h)) /\ SetAnswers(AnswersLeft(due))
        /\ UNCHANGED <<row_state, rowtable>>
    BY <1>3 DEF Writes
  <2>2. mem' = [mem EXCEPT ![r.ln] = r.ver]
    BY <1>3 DEF Writes, r
  <2>3. cur_serving_requests' = ServingLeft(due) + (IF r.first THEN 1 ELSE 0) - 1
    BY <1>a, <1>3 DEF Writes, r
  <2>4. asserts' \in BOOLEAN
    BY <1>3 DEF Writes
  <2>5. mem' \in [Lines -> 0..MaxReqs]
    BY <1>r, <1>t, <2>2
  <2>6. /\ readq' \in Seq(Requests) /\ writeq' \in Seq(Requests) /\ migq' \in Seq(Requests)
        /\ Len(readq') <= RdMax /\ Len(writeq') <= WrMax /\ Len(migq') <= MgMax
        /\ StartedAll' = StartedAll - Started(Served) + Started(RemoveAt(Served, h))
    BY <1>m, <2>1, QueueSet
  <2>7. /\ pending' \in Seq(Answers) /\ mig_pending' \in Seq(Answers)
        /\ AnswersOk(pending') /\ AnswersOk(mig_pending')
        /\ AccessedAll' = AccessedAll - Accessed(Answering) + Accessed(AnswersLeft(due))
    BY <1>a, <2>1, AnswersSet
  <2>8. cur_serving_requests' - cur_serving_requests
          = (StartedAll' - StartedAll) + (AccessedAll' - AccessedAll)
    <3>1. cur_serving_requests' = (cur - an + al) + k - 1
      BY <1>i, <1>k, <2>3
    <3>2. StartedAll' = st - sv + (sv - (1 - k))
      <4>1. Started(RemoveAt(Served, h)) = sv - (1 - k)
        BY <1>i, <1>k, <1>n
      <4>2. QED
        BY <1>i, <2>6, <4>1
    <3>3. AccessedAll' = acc - an + al
      BY <1>i, <2>7
    <3>4. ((cur - an + al) + k - 1) - cur
            = ((st - sv + (sv - (1 - k))) - st) + ((acc - an + al) - acc)
      OBVIOUS
    <3>5. QED
      BY <1>i, <3>1, <3>2, <3>3, <3>4
  <2>9. cur_serving_requests' \in Int
    BY <1>a, <2>3
  <2>10. QED
    BY <1>t, <2>1, <2>4, <2>5, <2>6, <2>7, <2>8, <2>9
<1>4. QED
  BY <1>1, <1>2, <1>3

\* A refresh, or no command at all, leaves the queues as they are.
LEMMA IdleTypes ==
  ASSUME TypeOK, CountersInv, FreshInv, NEW due \in BOOLEAN, due => Answering # <<>>,
         NEW inject \in BOOLEAN, refreshes' \in 0..MaxRefresh,
         refreshes' = refreshes + (IF inject THEN 1 ELSE 0),
         RefreshTick(due, inject) \/ QuietTick(due, inject)
  PROVE  /\ UNCHANGED <<readq, writeq, migq, mem>>
         /\ pending' \in Seq(Answers) /\ mig_pending' \in Seq(Answers)
         /\ AnswersOk(pending') /\ AnswersOk(mig_pending')
         /\ row_state' \in [Banks -> SUBSET Rows]
         /\ DOMAIN rowtable' \subseteq Banks /\ \A b \in DOMAIN rowtable' : rowtable'[b] \in Rows
         /\ cur_serving_requests' \in Int /\ asserts' \in BOOLEAN
         /\ otherq' \in 0..MaxRefresh /\ otherq' <= refreshes'
         /\ cur_serving_requests' - cur_serving_requests = AccessedAll' - AccessedAll
<1>a. /\ AnswersLeft(due) \in Seq(Answers) /\ AnswersOk(AnswersLeft(due))
      /\ Accessed(Answering) \in Nat /\ Accessed(AnswersLeft(due)) \in Nat
      /\ ServingLeft(due) = cur_serving_requests - Accessed(Answering)
                              + Accessed(AnswersLeft(due))
      /\ ServingLeft(due) \in Int
  BY AnswersLeftFacts
<1>b. SetAnswers(AnswersLeft(due)) /\ cur_serving_requests' = ServingLeft(due)
      /\ UNCHANGED <<readq, writeq, migq>>
  BY DEF RefreshTick, QuietTick
<1>c. /\ pending' \in Seq(Answers) /\ mig_pending' \in Seq(Answers)
      /\ AnswersOk(pending') /\ AnswersOk(mig_pending')
      /\ AccessedAll' = AccessedAll - Accessed(Answering) + Accessed(AnswersLeft(due))
  BY <1>a, <1>b, AnswersSet
<1>d. cur_serving_requests' - cur_serving_requests = AccessedAll' - AccessedAll
  <2>1. cur_serving_requests \in Int /\ AccessedAll \in Int
    BY AccessedType DEF TypeOK, AccessedAll
  <2>2. QED
    BY <1>a, <1>b, <1>c, <2>1
<1>e. /\ otherq \in 0..MaxRefresh /\ refreshes \in 0..MaxRefresh /\ otherq <= refreshes
      /\ MaxRefresh \in Nat
      /\ OtherNow(inject) \in Nat /\ OtherNow(inject) <= refreshes'
  BY BoundAssumption DEF TypeOK, CountersInv, OtherNow
<1>f. /\ row_state \in [Banks -> SUBSET Rows] /\ DOMAIN rowtable \subseteq Banks
      /\ \A b \in DOMAIN rowtable : rowtable[b] \in Rows /\ asserts \in BOOLEAN
      /\ asserts \in BOOLEAN
  BY DEF TypeOK
<1>1. CASE UNCHANGED <<banks, asserts>> /\ otherq' \in {otherq, OtherNow(inject)}
  <2>1. UNCHANGED <<row_state, rowtable, mem, asserts>>
    BY <1>1 DEF banks
  <2>2. otherq' \in 0..MaxRefresh /\ otherq' <= refreshes'
    BY <1>1, <1>e
  <2>3. QED
    BY <1>a, <1>b, <1>c, <1>d, <1>f, <2>1, <2>2
<1>2. CASE OtherNow(inject) > 0 /\ IssueRefresh(OtherNow(inject))
  <2>1. CASE RefreshCmd[1] = "PREA"
    <3>1. /\ Closed(Banks) /\ otherq' = OtherNow(inject) /\ UNCHANGED mem
          /\ asserts' = (asserts /\ DOMAIN rowtable # {})
      BY <1>2, <2>1 DEF IssueRefresh
    <3>2. /\ row_state' \in [Banks -> SUBSET Rows]
          /\ DOMAIN rowtable' \subseteq Banks /\ \A b \in DOMAIN rowtable' : rowtable'[b] \in Rows
      BY <1>f, <3>1 DEF Closed, RowTableWithout
    <3>3. asserts' \in BOOLEAN
      BY <3>1
    <3>4. QED
      BY <1>a, <1>b, <1>c, <1>d, <1>e, <3>1, <3>2, <3>3
  <2>2. CASE RefreshCmd[1] # "PREA"
    <3>1. otherq' = OtherNow(inject) - 1 /\ UNCHANGED <<row_state, rowtable, mem, asserts>>
      BY <1>2, <2>2 DEF IssueRefresh, banks
    <3>2. otherq' \in 0..MaxRefresh /\ otherq' <= refreshes'
      BY <1>2, <1>e, <3>1
    <3>3. QED
      BY <1>a, <1>b, <1>c, <1>d, <1>f, <3>1, <3>2
  <2>3. QED
    BY <2>1, <2>2
<1>3. QED
  BY <1>1, <1>2 DEF RefreshTick, QuietTick

\* Every step keeps the types and the bounds of the counters.
LEMMA NextTypes ==
  ASSUME TypeOK, CountersInv, FreshInv, [Next]_vars
  PROVE  TypeOK' /\ CountersInv'
<1>1. CASE UNCHANGED vars
  BY <1>1 DEF vars, queues, banks, counters, TypeOK, CountersInv
<1>2. CASE tick
  <2>1. /\ UNCHANGED <<mig_status, to_send, latest, written, reqs, migs>>
        /\ write_mode' \in BOOLEAN
    BY <1>2, TickParts
  <2>2. PICK due \in BOOLEAN, inject \in BOOLEAN :
          /\ due => Answering # <<>>
          /\ refreshes' \in 0..MaxRefresh
          /\ refreshes' = refreshes + (IF inject THEN 1 ELSE 0)
          /\ \/ RefreshTick(due, inject)
             \/ QuietTick(due, inject)
             \/ \E h \in 1..Len(Served) : IssueTick(due, inject, h)
    BY <1>2, TickParts
  <2>3. CASE RefreshTick(due, inject) \/ QuietTick(due, inject)
    <3>1. /\ UNCHANGED <<readq, writeq, migq, mem>>
          /\ pending' \in Seq(Answers) /\ mig_pending' \in Seq(Answers)
          /\ row_state' \in [Banks -> SUBSET Rows]
          /\ DOMAIN rowtable' \subseteq Banks /\ \A b \in DOMAIN rowtable' : rowtable'[b] \in Rows
          /\ cur_serving_requests' \in Int /\ asserts' \in BOOLEAN
          /\ otherq' \in 0..MaxRefresh /\ otherq' <= refreshes'
      BY <2>2, <2>3, IdleTypes
    <3>2. QED
      BY <2>1, <2>2, <3>1 DEF TypeOK, CountersInv
  <2>4. ASSUME NEW h \in 1..Len(Served), IssueTick(due, inject, h)
        PROVE  TypeOK' /\ CountersInv'
    <3>1. Prepares(due, h) \/ Reads(due, h) \/ Writes(due, h)
      BY <2>2, <2>4, IssueParts DEF IssueTick
    <3>2. /\ readq' \in Seq(Requests) /\ writeq' \in Seq(Requests) /\ migq' \in Seq(Requests)
          /\ Len(readq') <= RdMax /\ Len(writeq') <= WrMax /\ Len(migq') <= MgMax
          /\ pending' \in Seq(Answers) /\ mig_pending' \in Seq(Answers)
          /\ row_state' \in [Banks -> SUBSET Rows]
          /\ DOMAIN rowtable' \subseteq Banks /\ \A b \in DOMAIN rowtable' : rowtable'[b] \in Rows
          /\ cur_serving_requests' \in Int /\ asserts' \in BOOLEAN
          /\ mem' \in [Lines -> 0..MaxReqs]
      BY <2>2, <3>1, IssueTypes
    <3>3. otherq' = otherq /\ otherq' \in 0..MaxRefresh /\ otherq' <= refreshes'
      BY <2>2, <2>4, BoundAssumption DEF IssueTick, TypeOK, CountersInv
    <3>4. QED
      BY <2>1, <2>2, <3>2, <3>3 DEF TypeOK, CountersInv
  <2>5. QED
    BY <2>2, <2>3, <2>4
<1>3. QED
  BY <1>1, <1>2, EnqueueTypes, EnqueueMigTypes, MigStatusTypes DEF Next

(***************************************************************************)
(* The row table and the banks.                                            *)
(***************************************************************************)
\* A command that opens or closes a bank does so in both.
LEMMA PreparesTable ==
  ASSUME TypeOK, FreshInv, RowTableSound, NEW due \in BOOLEAN, NEW h \in 1..Len(Served),
         Prepares(due, h)
  PROVE  RowTableSound'
<1> DEFINE r == Served[h]
           b0 == Bank(r.ln)
<1>1. /\ r \in Requests /\ b0 \in Banks /\ Row(r.ln) \in Rows
  BY ServedType, RequestPlace
<1>2. /\ asserts /\ DOMAIN rowtable = {b \in Banks : row_state[b] # {}}
      /\ \A b \in DOMAIN rowtable : row_state[b] = {rowtable[b]}
  BY DEF RowTableSound
<1>3. /\ get_first_cmd(r) \in {"ACT", "PRE"}
      /\ IF get_first_cmd(r) = "ACT" THEN Activated(r) ELSE Closed({b0})
      /\ asserts' = (asserts /\ (get_first_cmd(r) = "PRE" => b0 \in DOMAIN rowtable))
  BY DEF Prepares
<1> HIDE DEF r
<1>4. CASE get_first_cmd(r) = "ACT"
  <2>1. row_state[b0] = {} /\ b0 \notin DOMAIN rowtable
    BY <1>1, <1>2, <1>4, FirstCommand DEF RowOpen
  <2>2. /\ DOMAIN rowtable' = DOMAIN rowtable \cup {b0}
        /\ \A b \in DOMAIN rowtable' :
             rowtable'[b] = IF b \in DOMAIN rowtable THEN rowtable[b] ELSE Row(r.ln)
        /\ \A b \in Banks :
             row_state'[b] = IF b = b0 THEN row_state[b] \cup {Row(r.ln)} ELSE row_state[b]
    <3>1. Activated(r)
      BY <1>3, <1>4
    <3>2. QED
      BY <1>1, <3>1, BankTypes, Zenon
  <2>3. asserts'
    BY <1>2, <1>3, <1>4
  <2> HIDE DEF b0
  <2>4. ASSUME NEW b \in Banks PROVE b \in DOMAIN rowtable' <=> row_state'[b] # {}
    BY <1>1, <1>2, <2>2, <2>4
  <2>5. ASSUME NEW b \in DOMAIN rowtable' PROVE row_state'[b] = {rowtable'[b]}
    <3>1. CASE b = b0
      <4>1. row_state'[b] = {} \cup {Row(r.ln)} /\ rowtable'[b] = Row(r.ln)
        BY <1>1, <2>1, <2>2, <2>5, <3>1
      <4>2. QED
        BY <4>1
    <3>2. CASE b # b0
      BY <1>2, <2>2, <2>5, <3>2
    <3>3. QED
      BY <3>1, <3>2
  <2>6. DOMAIN rowtable' \subseteq Banks
    BY <1>1, <1>2, <2>2
  <2>7. QED
    BY <2>3, <2>4, <2>5, <2>6 DEF RowTableSound
<1>5. CASE get_first_cmd(r) # "ACT"
  <2>1. get_first_cmd(r) = "PRE" /\ Closed({b0})
    BY <1>3, <1>5
  <2>2. b0 \in DOMAIN rowtable
    BY <1>1, <1>2, <2>1, FirstCommand DEF RowOpen
  <2>3. /\ DOMAIN rowtable' = DOMAIN rowtable \ {b0}
        /\ \A b \in DOMAIN rowtable' : rowtable'[b] = rowtable[b]
        /\ \A b \in Banks : row_state'[b] = IF b \in {b0} THEN {} ELSE row_state[b]
    <3>1. {b0} \in SUBSET Banks
      BY <1>1
    <3> HIDE DEF b0
    <3>2. QED
      BY <1>1, <2>1, <3>1, BankTypes, Zenon
  <2>4. asserts'
    BY <1>2, <1>3, <2>2
  <2> HIDE DEF b0
  <2>5. QED
    BY <1>1, <1>2, <2>3, <2>4 DEF RowTableSound
<1>6. QED
  BY <1>4, <1>5

\* A refresh that closes the banks finds one open, and empties the table.
LEMMA RefreshTable ==
  ASSUME TypeOK, RowTableSound, NEW other, IssueRefresh(other)
  PROVE  RowTableSound'
<1>1. /\ asserts /\ DOMAIN rowtable = {b \in Banks : row_state[b] # {}}
      /\ \A b \in DOMAIN rowtable : row_state[b] = {rowtable[b]}
  BY DEF RowTableSound
<1>2. CASE RefreshCmd[1] = "PREA"
  <2>1. \E b \in Banks : row_state[b] # {}
    BY <1>2 DEF RefreshCmd
  <2>2. Closed(Banks) /\ asserts' = (asserts /\ DOMAIN rowtable # {})
    BY <1>2 DEF IssueRefresh, RefreshCmd
  <2>3. asserts'
    BY <1>1, <2>1, <2>2
  <2>4. /\ DOMAIN rowtable' = {}
        /\ \A b \in Banks : row_state'[b] = {}
    BY <1>1, <2>2 DEF Closed, RowTableWithout
  <2>5. QED
    BY <2>3, <2>4 DEF RowTableSound
<1>3. CASE RefreshCmd[1] # "PREA"
  BY <1>1, <1>3 DEF IssueRefresh, banks, RowTableSound
<1>4. QED
  BY <1>2, <1>3

\* Every step keeps the table in agreement with the banks.
LEMMA NextRowTable ==
  ASSUME TypeOK, CountersInv, FreshInv, RowTableSound, [Next]_vars
  PROVE  RowTableSound'
<1>1. CASE UNCHANGED <<row_state, rowtable, asserts>>
  BY <1>1 DEF RowTableSound
<1>2. CASE tick
  <2>1. PICK due \in BOOLEAN, inject \in BOOLEAN :
          /\ due => Answering # <<>>
          /\ \/ RefreshTick(due, inject)
             \/ QuietTick(due, inject)
             \/ \E h \in 1..Len(Served) : IssueTick(due, inject, h)
    BY <1>2, TickParts
  <2>2. CASE RefreshTick(due, inject)
    BY <2>2, <1>1, RefreshTable DEF RefreshTick, banks
  <2>3. CASE QuietTick(due, inject)
    BY <2>3, <1>1 DEF QuietTick, banks
  <2>4. ASSUME NEW h \in 1..Len(Served), IssueTick(due, inject, h) PROVE RowTableSound'
    <3>1. Prepares(due, h) \/ Reads(due, h) \/ Writes(due, h)
      BY <2>1, <2>4, IssueParts DEF IssueTick
    <3>2. CASE Prepares(due, h)
      BY <3>2, PreparesTable
    <3>3. CASE Reads(due, h) \/ Writes(due, h)
      <4>1. /\ RowHit(Served[h]) /\ UNCHANGED <<row_state, rowtable>>
            /\ asserts' = (asserts /\ InRowTable(Served[h]))
        BY <3>3 DEF Reads, Writes, banks
      <4>2. Bank(Served[h].ln) \in Banks
        BY ServedType, RequestPlace
      <4>3. InRowTable(Served[h])
        BY <4>1, <4>2 DEF RowHit, InRowTable, RowTableSound
      <4>4. asserts'
        BY <4>1, <4>3 DEF RowTableSound
      <4>5. QED
        BY <1>1, <4>1, <4>4 DEF RowTableSound
    <3>4. QED
      BY <3>1, <3>2, <3>3
  <2>5. QED
    BY <2>1, <2>2, <2>3, <2>4
<1>3. CASE \E l \in Lines, off \in Offsets : enqueue(l, off)
  BY <1>1, <1>3 DEF enqueue, banks
<1>4. CASE enqueue_mig
  BY <1>1, <1>4 DEF enqueue_mig, banks
<1>5. CASE MigStatus
  BY <1>1, <1>5 DEF MigStatus, banks
<1>6. CASE UNCHANGED vars
  BY <1>1, <1>6 DEF vars, banks
<1>7. QED
  BY <1>2, <1>3, <1>4, <1>5, <1>6 DEF Next

\* A request closes a row only when no request of its queue hits it.
LEMMA NextSpares ==
  ASSUME TypeOK, CountersInv, FreshInv, [Next]_vars,
         NEW b \in Banks, row_state[b] # {}, row_state'[b] = {},
         otherq + (refreshes' - refreshes) = 0,
         NEW i \in 1..Len(Served), Bank(Served[i].ln) = b
  PROVE  ~ RowHit(Served[i])
<1>1. row_state' # row_state
  OBVIOUS
<1>2. tick
  BY <1>1 DEF Next, enqueue, enqueue_mig, MigStatus, vars, banks
<1>3. PICK due \in BOOLEAN, inject \in BOOLEAN :
        /\ due => Answering # <<>>
        /\ refreshes' = refreshes + (IF inject THEN 1 ELSE 0)
        /\ \/ RefreshTick(due, inject)
           \/ QuietTick(due, inject)
           \/ \E h \in 1..Len(Served) : IssueTick(due, inject, h)
  BY <1>2, TickParts
<1>4. OtherNow(inject) = 0
  BY <1>3 DEF OtherNow, TypeOK, CountersInv
<1>5. PICK h \in 1..Len(Served) : IssueTick(due, inject, h)
  BY <1>1, <1>3, <1>4 DEF RefreshTick, QuietTick, banks
<1>6. Prepares(due, h)
  BY <1>1, <1>3, <1>5, IssueParts DEF IssueTick, Reads, Writes, banks
<1> DEFINE r == Served[h]
<1>7. r \in Requests /\ Bank(r.ln) \in Banks
  BY ServedType, RequestPlace
<1>8. /\ get_first_cmd(r) \in {"ACT", "PRE"}
      /\ IF get_first_cmd(r) = "ACT" THEN Activated(r) ELSE Closed({Bank(r.ln)})
  BY <1>6 DEF Prepares
<1> HIDE DEF r
<1>9. get_first_cmd(r) # "ACT"
  <2> SUFFICES ASSUME Activated(r) PROVE FALSE
    BY <1>8
  <2>1. \A k \in Banks :
          row_state'[k] = IF k = Bank(r.ln) THEN row_state[k] \cup {Row(r.ln)} ELSE row_state[k]
    BY <1>7, BankTypes, Zenon
  <2>2. row_state'[b] = row_state[b] \cup {Row(r.ln)} \/ row_state'[b] = row_state[b]
    BY <2>1
  <2>3. QED
    BY <2>2
<1>10. get_first_cmd(r) = "PRE" /\ Closed({Bank(r.ln)})
  BY <1>8, <1>9
<1>11. RowOpen(r) /\ ~ RowHit(r)
  BY <1>7, <1>10, FirstCommand
<1>12. Bank(r.ln) = b
  <2>1. row_state'[b] = IF b \in {Bank(r.ln)} THEN {} ELSE row_state[b]
    BY <1>10 DEF Closed
  <2>2. QED
    BY <2>1
<1>13. SparesHits(Served, h)
  BY <1>5, <1>11 DEF IssueTick, r
<1>14. QED
  BY <1>11, <1>12, <1>13 DEF SparesHits, r

(***************************************************************************)
(* The number of requests being served.                                    *)
(***************************************************************************)
\* A step changes the counter and the requests it counts by the same number.
LEMMA NextServing ==
  ASSUME TypeOK, CountersInv, FreshInv, ServingExact, [Next]_vars
  PROVE  ServingExact'
<1>1. /\ Started(readq) \in Nat /\ Started(writeq) \in Nat /\ Started(migq) \in Nat
      /\ Accessed(pending) \in Nat /\ Accessed(mig_pending) \in Nat
      /\ cur_serving_requests \in Int
      /\ cur_serving_requests = StartedAll + AccessedAll
  <2>1. /\ Started(readq) \in Nat /\ Started(writeq) \in Nat /\ Started(migq) \in Nat
        /\ Accessed(pending) \in Nat /\ Accessed(mig_pending) \in Nat
    BY StartedType, AccessedType DEF TypeOK
  <2>2. QED
    BY <2>1 DEF ServingExact, StartedAll, AccessedAll, TypeOK
<1>2. /\ StartedAll' = Started(readq') + Started(writeq') + Started(migq')
      /\ AccessedAll' = Accessed(pending') + Accessed(mig_pending')
  BY DEF StartedAll, AccessedAll, Started, Accessed
<1>3. ServingExact' <=>
        cur_serving_requests' = Started(readq') + Started(writeq') + Started(migq')
                                + Accessed(pending') + Accessed(mig_pending')
  BY DEF ServingExact, Started, Accessed
<1>4. CASE /\ cur_serving_requests' = cur_serving_requests
           /\ Started(readq') = Started(readq) /\ Started(writeq') = Started(writeq)
           /\ Started(migq') = Started(migq) /\ Accessed(pending') = Accessed(pending)
           /\ Accessed(mig_pending') = Accessed(mig_pending)
  BY <1>3, <1>4 DEF ServingExact
<1>5. CASE UNCHANGED vars
  BY <1>4, <1>5 DEF vars, queues
<1>6. CASE MigStatus
  BY <1>4, <1>6 DEF MigStatus, queues
<1>7. /\ WritesOk /\ WrittenOk
      /\ \A l \in Lines, off \in Offsets : Request("WR", l, off, latest[l] + 1).first
  BY DEF FreshInv, Request
<1>8. /\ readq \in Seq(Requests) /\ writeq \in Seq(Requests) /\ migq \in Seq(Requests)
      /\ pending \in Seq(Answers) /\ mig_pending \in Seq(Answers)
  BY DEF TypeOK
<1>9. ASSUME NEW l \in Lines, NEW off \in Offsets, enqueue(l, off) PROVE ServingExact'
  <2>1. /\ UNCHANGED <<migq, mig_pending, cur_serving_requests>>
        /\ Request("WR", l, off, latest[l] + 1) \in Requests
    <3>1. latest[l] + 1 \in 0..MaxReqs
      BY <1>9, BoundAssumption DEF enqueue, TypeOK, CountersInv
    <3>2. QED
      BY <1>9, <3>1 DEF enqueue, Request, Requests
  <2>2. CASE enqueue_read(l, off) /\ Forward(l, off)
    <3>1. UNCHANGED <<readq, writeq>> /\ pending' = Append(pending, ForwardedRead(l, off))
      BY <2>2 DEF enqueue_read
    <3>2. ForwardedRead(l, off) \in Answers /\ Counted(ForwardedRead(l, off)) = 0
      BY <1>7, <2>2, ReadTypes DEF Forward
    <3>3. Accessed(pending') = Accessed(pending) + 0
      BY <1>8, <3>1, <3>2, AccessedAppend
    <3>4. QED
      BY <1>1, <1>4, <2>1, <3>1, <3>3
  <2>3. CASE enqueue_read(l, off) /\ ~ Forward(l, off)
    <3>1. UNCHANGED <<pending, writeq>> /\ readq' = Append(readq, QueuedRead(l, off))
      BY <2>3 DEF enqueue_read
    <3>2. Started(readq') = Started(readq)
      BY <1>7, <1>8, <3>1, ReadTypes, StartedAppend
    <3>3. QED
      BY <1>4, <2>1, <3>1, <3>2
  <2>4. CASE enqueue_write(l, off)
    <3>1. /\ UNCHANGED <<pending, readq>>
          /\ writeq' = Append(writeq, Request("WR", l, off, latest[l] + 1))
      BY <2>4 DEF enqueue_write
    <3>2. Started(writeq') = Started(writeq)
      BY <1>7, <1>8, <2>1, <3>1, StartedAppend
    <3>3. QED
      BY <1>4, <2>1, <3>1, <3>2
  <2>5. QED
    BY <1>9, <2>2, <2>3, <2>4 DEF enqueue
<1>10. CASE enqueue_mig
  <2> DEFINE l == Head(to_send)
  <2>1. UNCHANGED <<readq, writeq, pending, cur_serving_requests>> /\ l \in Lines
    BY <1>10 DEF enqueue_mig, TypeOK
  <2>2. CASE Forward(l, 0)
    <3>1. UNCHANGED migq /\ mig_pending' = Append(mig_pending, ForwardedRead(l, 0))
      BY <1>10, <2>2 DEF enqueue_mig
    <3> HIDE DEF l
    <3>2. ForwardedRead(l, 0) \in Answers /\ Counted(ForwardedRead(l, 0)) = 0
      BY <1>7, <2>1, <2>2, ReadTypes, OffsetAssumption DEF Forward
    <3>3. Accessed(mig_pending') = Accessed(mig_pending) + 0
      BY <1>8, <3>1, <3>2, AccessedAppend
    <3>4. QED
      BY <1>1, <1>4, <2>1, <3>1, <3>3
  <2>3. CASE ~ Forward(l, 0)
    <3>1. UNCHANGED mig_pending /\ migq' = Append(migq, QueuedRead(l, 0))
      BY <1>10, <2>3 DEF enqueue_mig
    <3> HIDE DEF l
    <3>2. Started(migq') = Started(migq)
      BY <1>7, <1>8, <2>1, <3>1, ReadTypes, StartedAppend, OffsetAssumption
    <3>3. QED
      BY <1>4, <2>1, <3>1, <3>2
  <2>4. QED
    BY <2>2, <2>3
<1>11. CASE tick
  <2>1. PICK due \in BOOLEAN, inject \in BOOLEAN :
          /\ due => Answering # <<>>
          /\ refreshes' \in 0..MaxRefresh
          /\ refreshes' = refreshes + (IF inject THEN 1 ELSE 0)
          /\ \/ RefreshTick(due, inject)
             \/ QuietTick(due, inject)
             \/ \E h \in 1..Len(Served) : IssueTick(due, inject, h)
    BY <1>11, TickParts
  <2>2. /\ cur_serving_requests' \in Int
        /\ StartedAll' \in Int /\ AccessedAll' \in Int
        /\ cur_serving_requests' - cur_serving_requests
             = (StartedAll' - StartedAll) + (AccessedAll' - AccessedAll)
    <3>1. CASE RefreshTick(due, inject) \/ QuietTick(due, inject)
      <4>1. /\ UNCHANGED <<readq, writeq, migq>> /\ cur_serving_requests' \in Int
            /\ pending' \in Seq(Answers) /\ mig_pending' \in Seq(Answers)
            /\ cur_serving_requests' - cur_serving_requests = AccessedAll' - AccessedAll
        BY <2>1, <3>1, IdleTypes
      <4>2. Accessed(pending') \in Nat /\ Accessed(mig_pending') \in Nat
        BY <4>1, AccessedType
      <4>3. StartedAll' = StartedAll
        BY <1>2, <4>1 DEF StartedAll
      <4>4. StartedAll \in Int /\ AccessedAll \in Int /\ AccessedAll' \in Int
        BY <1>1, <1>2, <4>2 DEF StartedAll, AccessedAll
      <4>5. PICK s \in Int, a \in Int, a2 \in Int :
              s = StartedAll /\ a = AccessedAll /\ a2 = AccessedAll'
        BY <4>4
      <4>6. cur_serving_requests' - cur_serving_requests = (s - s) + (a2 - a)
        BY <4>1, <4>5
      <4>7. QED
        BY <4>1, <4>3, <4>5, <4>6
    <3>2. ASSUME NEW h \in 1..Len(Served), IssueTick(due, inject, h)
          PROVE  /\ cur_serving_requests' \in Int
                 /\ StartedAll' \in Int /\ AccessedAll' \in Int
                 /\ cur_serving_requests' - cur_serving_requests
                      = (StartedAll' - StartedAll) + (AccessedAll' - AccessedAll)
      <4>1. Prepares(due, h) \/ Reads(due, h) \/ Writes(due, h)
        BY <2>1, <3>2, IssueParts DEF IssueTick
      <4>2. /\ readq' \in Seq(Requests) /\ writeq' \in Seq(Requests) /\ migq' \in Seq(Requests)
            /\ pending' \in Seq(Answers) /\ mig_pending' \in Seq(Answers)
            /\ cur_serving_requests' \in Int
            /\ cur_serving_requests' - cur_serving_requests
                 = (StartedAll' - StartedAll) + (AccessedAll' - AccessedAll)
        BY <2>1, <4>1, IssueTypes
      <4>3. /\ Started(readq') \in Nat /\ Started(writeq') \in Nat /\ Started(migq') \in Nat
            /\ Accessed(pending') \in Nat /\ Accessed(mig_pending') \in Nat
        BY <4>2, StartedType, AccessedType
      <4>4. StartedAll' \in Int /\ AccessedAll' \in Int
        BY <4>3 DEF StartedAll, AccessedAll
      <4>5. QED
        BY <4>2, <4>4
    <3>3. QED
      BY <2>1, <3>1, <3>2
  <2>3. /\ StartedAll \in Int /\ AccessedAll \in Int /\ cur_serving_requests \in Int
        /\ cur_serving_requests = StartedAll + AccessedAll
    BY <1>1 DEF StartedAll, AccessedAll
  <2>4. cur_serving_requests' = StartedAll' + AccessedAll'
    <3>1. PICK c \in Int : c = cur_serving_requests'
      BY <2>2
    <3>2. PICK s \in Int : s = StartedAll'
      BY <2>2
    <3>3. PICK a \in Int : a = AccessedAll'
      BY <2>2
    <3>4. c - cur_serving_requests = (s - StartedAll) + (a - AccessedAll)
      BY <2>2, <3>1, <3>2, <3>3
    <3>5. c = s + a
      BY <2>3, <3>4
    <3>6. QED
      BY <3>1, <3>2, <3>3, <3>5
  <2>5. /\ readq' \in Seq(Requests) /\ writeq' \in Seq(Requests) /\ migq' \in Seq(Requests)
        /\ pending' \in Seq(Answers) /\ mig_pending' \in Seq(Answers)
    BY NextTypes DEF TypeOK
  <2>6. /\ Started(readq') \in Nat /\ Started(writeq') \in Nat /\ Started(migq') \in Nat
        /\ Accessed(pending') \in Nat /\ Accessed(mig_pending') \in Nat
    BY <2>5, StartedType, AccessedType
  <2>7. QED
    BY <1>2, <1>3, <2>4, <2>6
<1>12. QED
  BY <1>5, <1>6, <1>9, <1>10, <1>11 DEF Next

(***************************************************************************)
(* Reads never return less than they have to, and writes stay in order.    *)
(***************************************************************************)
\* Every element of one queue is, but for its mark, an element of the other.
DrawnFrom(q2, q) ==
  \A i \in 1..Len(q2) : \E j \in 1..Len(q) :
    q2[i].type = q[j].type /\ q2[i].ln = q[j].ln /\ q2[i].ver = q[j].ver

\* What is left of a queue of reads is right while the values in the banks grow.
LEMMA ReadsKept ==
  ASSUME NEW q \in Seq(Requests), NEW q2 \in Seq(Requests), ReadsOk(q), DrawnFrom(q2, q),
         NEW m \in [Lines -> 0..MaxReqs], mem \in [Lines -> 0..MaxReqs],
         \A l \in Lines : mem[l] <= m[l]
  PROVE  \A i \in 1..Len(q2) : q2[i].type = "RD" /\ q2[i].ver <= m[q2[i].ln]
<1> SUFFICES ASSUME NEW i \in 1..Len(q2)
             PROVE  q2[i].type = "RD" /\ q2[i].ver <= m[q2[i].ln]
  OBVIOUS
<1>1. PICK j \in 1..Len(q) :
        q2[i].type = q[j].type /\ q2[i].ln = q[j].ln /\ q2[i].ver = q[j].ver
  BY DEF DrawnFrom
<1>2. q[j] \in Requests
  OBVIOUS
<1>3. q[j].ln \in Lines /\ q[j].ver \in 0..MaxReqs /\ q[j].type = "RD"
      /\ q[j].ver <= mem[q[j].ln]
  BY <1>2, RequestPlace DEF ReadsOk
<1>4. mem[q[j].ln] \in Nat /\ m[q[j].ln] \in Nat /\ mem[q[j].ln] <= m[q[j].ln]
  BY <1>3, BoundAssumption
<1>5. q[j].ver \in Nat /\ q[j].ver <= m[q[j].ln]
  BY <1>3, <1>4, BoundAssumption
<1>6. QED
  BY <1>1, <1>3, <1>5

\* A read that is queued finds the last write of its address in the bank.
LEMMA ReadsAppend ==
  ASSUME NEW q \in Seq(Requests), ReadsOk(q), NEW l \in Lines, NEW off \in Offsets,
         written[<<l, off>>] <= mem[l], QueuedRead(l, off) \in Requests
  PROVE  ReadsOk(Append(q, QueuedRead(l, off)))
<1> DEFINE x == QueuedRead(l, off)
<1>1. x.type = "RD" /\ x.ver <= mem[x.ln]
  BY DEF QueuedRead, Request
<1>2. /\ Len(Append(q, x)) = Len(q) + 1 /\ Append(q, x)[Len(q) + 1] = x
      /\ \A i \in 1..Len(q) : Append(q, x)[i] = q[i]
      /\ \A i \in 1..(Len(q) + 1) : i \in 1..Len(q) \/ i = Len(q) + 1
  OBVIOUS
<1> HIDE DEF x
<1>3. \A i \in 1..(Len(q) + 1) :
        Append(q, x)[i].type = "RD" /\ Append(q, x)[i].ver <= mem[Append(q, x)[i].ln]
  <2> SUFFICES ASSUME NEW i \in 1..(Len(q) + 1)
               PROVE  Append(q, x)[i].type = "RD" /\ Append(q, x)[i].ver <= mem[Append(q, x)[i].ln]
    OBVIOUS
  <2>1. CASE i \in 1..Len(q)
    BY <1>2, <2>1 DEF ReadsOk
  <2>2. CASE i = Len(q) + 1
    BY <1>1, <1>2, <2>2
  <2>3. QED
    BY <1>2, <2>1, <2>2
<1>4. QED
  BY <1>2, <1>3 DEF ReadsOk, x

\* An address without a queued write has its last value in the bank, or a later
\* one of its line; a line without one has its last value there.
LEMMA InBank ==
  ASSUME NEW l \in Lines
  PROVE  /\ \A off \in Offsets :
              WrittenOk /\ ~ WriteQueued(l, off) => written[<<l, off>>] <= mem[l]
         /\ WritesOk /\ ~ LineQueued(l) => latest[l] = mem[l]
<1>1. ASSUME NEW off \in Offsets, WrittenOk, ~ WriteQueued(l, off)
      PROVE  written[<<l, off>>] <= mem[l]
  BY <1>1 DEF WrittenOk, WriteQueued
<1>2. ASSUME WritesOk, ~ LineQueued(l) PROVE latest[l] = mem[l]
  BY <1>2 DEF WritesOk, LineQueued
<1>3. QED
  BY <1>1, <1>2

\* Of the versions, what is needed of their type.
LEMMA Versions ==
  ASSUME TypeOK
  PROVE  /\ \A l \in Lines : mem[l] \in Nat /\ latest[l] \in Nat
         /\ \A i \in 1..Len(writeq) : writeq[i].ln \in Lines /\ writeq[i].ver \in Nat
<1>1. \A i \in 1..Len(writeq) : writeq[i] \in Requests
  BY DEF TypeOK
<1>2. \A i \in 1..Len(writeq) : writeq[i].ln \in Lines /\ writeq[i].ver \in 0..MaxReqs
  BY <1>1, RequestPlace
<1>3. QED
  BY <1>2, BoundAssumption DEF TypeOK

\* A write that is accepted is newer than all others of its line.
LEMMA WritesAppend ==
  ASSUME TypeOK, CountersInv, WritesOk, NEW l \in Lines, NEW off \in Offsets,
         UNCHANGED mem,
         writeq' = Append(writeq, Request("WR", l, off, latest[l] + 1)),
         latest' = [latest EXCEPT ![l] = @ + 1]
  PROVE  WritesOk'
<1> DEFINE x == Request("WR", l, off, latest[l] + 1)
           n == Len(writeq)
<1>1. /\ x.type = "WR" /\ x.ln = l /\ x.ver = latest[l] + 1
  BY DEF Request
<1>2. /\ Len(writeq') = n + 1 /\ writeq'[n + 1] = x /\ n \in Nat
      /\ \A i \in 1..n : writeq'[i] = writeq[i]
      /\ \A i \in 1..(n + 1) : i \in 1..n \/ i = n + 1
  <2>1. writeq \in Seq(Requests) /\ writeq' = Append(writeq, x)
    BY DEF TypeOK
  <2> HIDE DEF x
  <2>2. QED
    BY <2>1
<1>3. /\ \A k \in Lines : mem[k] \in Nat /\ latest[k] \in Nat
      /\ \A i \in 1..n : writeq[i].ln \in Lines /\ writeq[i].ver \in Nat
  BY Versions
<1>4. /\ latest'[l] = latest[l] + 1 /\ \A k \in Lines : k # l => latest'[k] = latest[k]
      /\ \A k \in Lines : latest'[k] >= latest[k]
  BY <1>3 DEF TypeOK
<1>5. mem[l] <= latest[l]
  <2>1. CASE latest[l] = mem[l]
    BY <1>3, <2>1
  <2>2. CASE latest[l] # mem[l]
    <3>1. PICK i \in 1..n : writeq[i].ln = l
      BY <2>2 DEF WritesOk
    <3>2. mem[l] < writeq[i].ver /\ writeq[i].ver <= latest[l]
      BY <3>1 DEF WritesOk
    <3>3. QED
      BY <1>3, <3>1, <3>2
  <2>3. QED
    BY <2>1, <2>2
<1> HIDE DEF x, n
<1>6. ASSUME NEW i \in 1..(n + 1)
      PROVE  /\ writeq'[i].type = "WR"
             /\ mem[writeq'[i].ln] < writeq'[i].ver
             /\ writeq'[i].ver <= latest'[writeq'[i].ln]
  <2>1. CASE i \in 1..n
    <3>1. /\ writeq[i].type = "WR" /\ mem[writeq[i].ln] < writeq[i].ver
          /\ writeq[i].ver <= latest[writeq[i].ln]
      BY <2>1 DEF WritesOk, n
    <3>2. latest'[writeq[i].ln] >= latest[writeq[i].ln] /\ latest'[writeq[i].ln] \in Nat
      BY <1>3, <1>4, <2>1
    <3>3. QED
      BY <1>2, <1>3, <2>1, <3>1, <3>2
  <2>2. CASE i = n + 1
    BY <1>1, <1>2, <1>3, <1>4, <1>5, <2>2
  <2>3. QED
    BY <1>2, <2>1, <2>2
<1>7. ASSUME NEW i \in 1..(n + 1), NEW j \in 1..(n + 1), i < j, writeq'[i].ln = writeq'[j].ln
      PROVE  writeq'[i].ver < writeq'[j].ver
  <2>1. i \in 1..n
    BY <1>2, <1>7
  <2>2. CASE j \in 1..n
    BY <1>2, <1>7, <2>1, <2>2 DEF WritesOk, n
  <2>3. CASE j = n + 1
    <3>1. writeq[i].ln = l /\ writeq[i].ver <= latest[l]
      BY <1>1, <1>2, <1>7, <2>1, <2>3 DEF WritesOk, n
    <3>2. QED
      BY <1>1, <1>2, <1>3, <2>1, <2>3, <3>1
  <2>4. QED
    BY <1>2, <2>2, <2>3
<1>8. ASSUME NEW k \in Lines, latest'[k] # mem[k]
      PROVE  \E i \in 1..(n + 1) : writeq'[i].ln = k /\ writeq'[i].ver = latest'[k]
  <2>1. CASE k = l
    <3>1. n + 1 \in 1..(n + 1)
      BY <1>2
    <3>2. QED
      BY <1>1, <1>2, <1>4, <2>1, <3>1
  <2>2. CASE k # l
    <3>1. PICK i \in 1..n : writeq[i].ln = k /\ writeq[i].ver = latest[k]
      BY <1>4, <1>8, <2>2 DEF WritesOk, n
    <3>2. i \in 1..(n + 1)
      BY <1>2
    <3>3. QED
      BY <1>2, <1>4, <2>2, <3>1, <3>2
  <2>3. QED
    BY <2>1, <2>2
<1>9. QED
  BY <1>2, <1>6, <1>7, <1>8 DEF WritesOk

\* A write whose request only begins stays where it is.
LEMMA WritesMarked ==
  ASSUME TypeOK, WritesOk, UNCHANGED <<mem, latest>>, Len(writeq') = Len(writeq),
         \A i \in 1..Len(writeq) :
           /\ writeq'[i].type = writeq[i].type /\ writeq'[i].ln = writeq[i].ln
           /\ writeq'[i].ver = writeq[i].ver
  PROVE  WritesOk'
<1>1. \A i \in 1..Len(writeq) :
        /\ writeq'[i].type = "WR"
        /\ mem[writeq'[i].ln] < writeq'[i].ver
        /\ writeq'[i].ver <= latest[writeq'[i].ln]
  BY DEF WritesOk
<1>2. \A i, j \in 1..Len(writeq) :
        i < j /\ writeq'[i].ln = writeq'[j].ln => writeq'[i].ver < writeq'[j].ver
  BY DEF WritesOk
<1>3. \A l \in Lines :
        \/ latest[l] = mem[l]
        \/ \E i \in 1..Len(writeq) : writeq'[i].ln = l /\ writeq'[i].ver = latest[l]
  BY DEF WritesOk
<1>4. QED
  BY <1>1, <1>2, <1>3 DEF WritesOk

\* The oldest write of a line is written to the bank and leaves the queue.
LEMMA WritesRemove ==
  ASSUME TypeOK, WritesOk, UNCHANGED latest, NEW h \in 1..Len(writeq),
         \A i \in 1..Len(writeq) : writeq[i].ln = writeq[h].ln => h <= i,
         writeq' = RemoveAt(writeq, h),
         mem' = [mem EXCEPT ![writeq[h].ln] = writeq[h].ver]
  PROVE  WritesOk' /\ \A l \in Lines : mem[l] <= mem'[l]
<1> DEFINE n == Len(writeq)
           l0 == writeq[h].ln
           v0 == writeq[h].ver
<1>1. /\ Len(writeq') = n - 1 /\ n \in Nat
      /\ \A i \in 1..(n - 1) : From(h, i) \in 1..n /\ writeq'[i] = writeq[From(h, i)]
  <2>1. writeq \in Seq(Requests)
    BY DEF TypeOK
  <2>2. /\ Len(RemoveAt(writeq, h)) = Len(writeq) - 1
        /\ \A i \in 1..(Len(writeq) - 1) :
             From(h, i) \in 1..Len(writeq) /\ RemoveAt(writeq, h)[i] = writeq[From(h, i)]
    BY <2>1, RemoveAtElements
  <2>3. QED
    BY <2>1, <2>2
<1>2. /\ \A k \in Lines : mem[k] \in Nat /\ latest[k] \in Nat
      /\ \A i \in 1..n : writeq[i].ln \in Lines /\ writeq[i].ver \in Nat
  BY Versions
<1>3. l0 \in Lines /\ v0 \in Nat /\ mem[l0] < v0 /\ v0 <= latest[l0]
  BY <1>2 DEF WritesOk
<1>4. mem'[l0] = v0 /\ \A k \in Lines : k # l0 => mem'[k] = mem[k]
  BY <1>3 DEF TypeOK
<1>5. /\ \A i \in 1..(n - 1) : From(h, i) # h
      /\ \A i, j \in 1..(n - 1) : i < j => From(h, i) < From(h, j)
      /\ \A k \in 1..n : k # h => \E i \in 1..(n - 1) : From(h, i) = k
  <2>1. /\ \A i \in 1..(n - 1) : From(h, i) # h
        /\ \A i, j \in 1..(n - 1) : i < j => From(h, i) < From(h, j)
    BY <1>1 DEF From
  <2>2. ASSUME NEW k \in 1..n, k # h PROVE \E i \in 1..(n - 1) : From(h, i) = k
    <3>1. CASE k < h
      <4>1. k \in 1..(n - 1) /\ From(h, k) = k
        BY <1>1, <3>1 DEF From
      <4>2. QED
        BY <4>1
    <3>2. CASE k > h
      <4>1. k - 1 \in 1..(n - 1) /\ From(h, k - 1) = k
        BY <1>1, <3>2 DEF From
      <4>2. QED
        BY <4>1
    <3>3. QED
      BY <2>2, <3>1, <3>2
  <2>3. QED
    BY <2>1, <2>2
<1>6. \A i \in 1..n :
        /\ writeq[i].type = "WR"
        /\ mem[writeq[i].ln] < writeq[i].ver /\ writeq[i].ver <= latest[writeq[i].ln]
        /\ i # h /\ writeq[i].ln = l0 => v0 < writeq[i].ver
  <2> SUFFICES ASSUME NEW i \in 1..n
               PROVE  /\ writeq[i].type = "WR"
                      /\ mem[writeq[i].ln] < writeq[i].ver
                      /\ writeq[i].ver <= latest[writeq[i].ln]
                      /\ i # h /\ writeq[i].ln = l0 => v0 < writeq[i].ver
    OBVIOUS
  <2>1. i # h /\ writeq[i].ln = l0 => h < i
    OBVIOUS
  <2>2. QED
    BY <2>1 DEF WritesOk
<1>7. \A i, j \in 1..n : i < j /\ writeq[i].ln = writeq[j].ln => writeq[i].ver < writeq[j].ver
  BY DEF WritesOk
<1>8. \A l \in Lines :
        \/ latest[l] = mem[l]
        \/ \E i \in 1..n : writeq[i].ln = l /\ writeq[i].ver = latest[l]
  BY DEF WritesOk
<1> HIDE DEF n, l0, v0
<1>9. ASSUME NEW i \in 1..(n - 1)
      PROVE  /\ writeq'[i].type = "WR"
             /\ mem'[writeq'[i].ln] < writeq'[i].ver
             /\ writeq'[i].ver <= latest[writeq'[i].ln]
  <2>1. PICK k \in 1..n : k # h /\ writeq'[i] = writeq[k]
    BY <1>1, <1>5
  <2>2. CASE writeq[k].ln = l0
    BY <1>4, <1>6, <2>1, <2>2
  <2>3. CASE writeq[k].ln # l0
    BY <1>2, <1>4, <1>6, <2>1, <2>3
  <2>4. QED
    BY <2>2, <2>3
<1>10. ASSUME NEW i \in 1..(n - 1), NEW j \in 1..(n - 1), i < j, writeq'[i].ln = writeq'[j].ln
       PROVE  writeq'[i].ver < writeq'[j].ver
  <2>1. From(h, i) < From(h, j) /\ From(h, i) \in 1..n /\ From(h, j) \in 1..n
    BY <1>1, <1>5, <1>10
  <2>2. QED
    BY <1>1, <1>7, <1>10, <2>1
<1>11. ASSUME NEW l \in Lines, latest[l] # mem'[l]
       PROVE  \E i \in 1..(n - 1) : writeq'[i].ln = l /\ writeq'[i].ver = latest[l]
  <2>1. latest[l] # mem[l]
    BY <1>2, <1>3, <1>4, <1>11
  <2>2. PICK k \in 1..n : writeq[k].ln = l /\ writeq[k].ver = latest[l]
    BY <1>8, <2>1
  <2>3. k # h
    BY <1>4, <1>11, <2>2 DEF l0, v0
  <2>4. PICK i \in 1..(n - 1) : From(h, i) = k
    BY <1>5, <2>3
  <2>5. QED
    BY <1>1, <2>2, <2>4
<1>12. \A l \in Lines : mem[l] <= mem'[l]
  <2> SUFFICES ASSUME NEW l \in Lines PROVE mem[l] <= mem'[l]
    OBVIOUS
  <2>1. CASE l = l0
    BY <1>2, <1>3, <1>4, <2>1
  <2>2. CASE l # l0
    BY <1>2, <1>4, <2>2
  <2>3. QED
    BY <2>1, <2>2
<1>13. QED
  BY <1>1, <1>9, <1>10, <1>11, <1>12 DEF WritesOk

\* A write that is accepted is the last of its address.
LEMMA WrittenAppend ==
  ASSUME TypeOK, WritesOk, WrittenOk, NEW l \in Lines, NEW off \in Offsets,
         UNCHANGED mem, latest[l] + 1 \in 0..MaxReqs,
         writeq' = Append(writeq, Request("WR", l, off, latest[l] + 1)),
         written' = [written EXCEPT ![<<l, off>>] = latest[l] + 1]
  PROVE  WrittenOk'
<1> DEFINE x == Request("WR", l, off, latest[l] + 1)
           n == Len(writeq)
<1>1. x.ln = l /\ x.off = off /\ x.ver = latest[l] + 1
  BY DEF Request
<1>2. /\ Len(writeq') = n + 1 /\ writeq'[n + 1] = x /\ n \in Nat
      /\ \A i \in 1..n : writeq'[i] = writeq[i] /\ i \in 1..(n + 1)
      /\ \A i \in 1..(n + 1) : i \in 1..n \/ i = n + 1
      /\ n + 1 \in 1..(n + 1)
  <2>1. writeq \in Seq(Requests)
    BY DEF TypeOK
  <2>2. QED
    BY <2>1
<1>3. /\ \A k \in Lines : mem[k] \in Nat /\ latest[k] \in Nat
      /\ \A i \in 1..n : writeq[i].ln \in Lines /\ writeq[i].ver \in Nat
  BY Versions
<1>4. \A i \in 1..n : writeq[i].off \in Offsets
  BY RequestPlace DEF TypeOK
<1>5. /\ written'[<<l, off>>] = latest[l] + 1
      /\ \A k \in Lines, o \in Offsets :
           ~ (k = l /\ o = off) => written'[<<k, o>>] = written[<<k, o>>]
  <2> DEFINE a == <<l, off>>
  <2>1. /\ a \in Addrs /\ written' = [written EXCEPT ![a] = latest[l] + 1]
        /\ written \in [Addrs -> 0..MaxReqs]
    BY DEF Addrs, TypeOK
  <2>2. \A k \in Lines, o \in Offsets :
          <<k, o>> \in Addrs /\ (~ (k = l /\ o = off) => <<k, o>> # a)
    BY DEF Addrs
  <2> HIDE DEF a
  <2>3. written'[a] = latest[l] + 1 /\ \A b \in Addrs : b # a => written'[b] = written[b]
    BY <2>1
  <2>4. \A k \in Lines, o \in Offsets :
          ~ (k = l /\ o = off) => written'[<<k, o>>] = written[<<k, o>>]
    BY <2>2, <2>3
  <2>5. QED
    BY <2>3, <2>4 DEF a
<1> HIDE DEF x, n
<1>6. ASSUME NEW i \in 1..(n + 1)
      PROVE  writeq'[i].ver <= written'[<<writeq'[i].ln, writeq'[i].off>>]
  <2>1. CASE i \in 1..n
    <3>1. /\ writeq[i].ver <= written[<<writeq[i].ln, writeq[i].off>>]
          /\ writeq[i].ver <= latest[writeq[i].ln]
      BY <2>1 DEF WrittenOk, WritesOk, n
    <3>2. PICK k \in Lines, o \in Offsets, v \in Nat :
            k = writeq[i].ln /\ o = writeq[i].off /\ v = writeq[i].ver
      BY <1>3, <1>4, <2>1
    <3>3. v <= written[<<k, o>>] /\ v <= latest[k]
      BY <3>1, <3>2
    <3>4. v <= written'[<<k, o>>]
      <4>1. CASE k = l /\ o = off
        BY <1>3, <1>5, <3>3, <4>1
      <4>2. CASE ~ (k = l /\ o = off)
        BY <1>5, <3>3, <4>2
      <4>3. QED
        BY <4>1, <4>2
    <3>5. QED
      BY <1>2, <2>1, <3>2, <3>4
  <2>2. CASE i = n + 1
    <3>1. writeq'[i] = x
      BY <1>2, <2>2
    <3>2. <<x.ln, x.off>> = <<l, off>> /\ x.ver = latest[l] + 1
      BY <1>1
    <3>3. latest[l] + 1 <= latest[l] + 1
      BY <1>3
    <3>4. QED
      BY <1>5, <3>1, <3>2, <3>3
  <2>3. QED
    BY <1>2, <2>1, <2>2
<1>7. ASSUME NEW k \in Lines, NEW o \in Offsets, ~ (written'[<<k, o>>] <= mem[k])
      PROVE  \E i \in 1..(n + 1) : /\ writeq'[i].ln = k /\ writeq'[i].off = o
                                   /\ writeq'[i].ver = written'[<<k, o>>]
  <2>1. CASE k = l /\ o = off
    BY <1>1, <1>2, <1>5, <2>1
  <2>2. CASE ~ (k = l /\ o = off)
    <3>1. PICK i \in WritesOf(k, o) : writeq[i].ver = written[<<k, o>>]
      BY <1>5, <1>7, <2>2 DEF WrittenOk
    <3>2. i \in 1..n /\ writeq[i].ln = k /\ writeq[i].off = o
      BY <3>1 DEF WritesOf, n
    <3>3. QED
      BY <1>2, <1>5, <2>2, <3>1, <3>2
  <2>3. QED
    BY <2>1, <2>2
<1>8. QED
  BY <1>2, <1>6, <1>7 DEF WrittenOk, WritesOf

\* A write whose request only begins stays the last of its address.
LEMMA WrittenMarked ==
  ASSUME WrittenOk, UNCHANGED <<mem, written>>, Len(writeq') = Len(writeq),
         \A i \in 1..Len(writeq) :
           /\ writeq'[i].ln = writeq[i].ln /\ writeq'[i].off = writeq[i].off
           /\ writeq'[i].ver = writeq[i].ver
  PROVE  WrittenOk'
<1>1. \A i \in 1..Len(writeq) :
        writeq'[i].ver <= written[<<writeq'[i].ln, writeq'[i].off>>]
  BY DEF WrittenOk
<1>2. ASSUME NEW l \in Lines, NEW off \in Offsets, ~ (written[<<l, off>>] <= mem[l])
      PROVE  \E i \in WritesOf(l, off)' : writeq'[i].ver = written[<<l, off>>]
  <2>1. PICK i \in WritesOf(l, off) : writeq[i].ver = written[<<l, off>>]
    BY <1>2 DEF WrittenOk
  <2>2. i \in WritesOf(l, off)' /\ writeq'[i].ver = written[<<l, off>>]
    BY <2>1 DEF WritesOf
  <2>3. QED
    BY <2>2
<1>3. \A l \in Lines, off \in Offsets :
        \/ written[<<l, off>>] <= mem[l]
        \/ \E i \in WritesOf(l, off)' : writeq'[i].ver = written[<<l, off>>]
  BY <1>2
<1>4. QED
  BY <1>1, <1>3 DEF WrittenOk

\* A write that leaves the queue has its value, and no older one, in the bank.
LEMMA WrittenRemove ==
  ASSUME TypeOK, WrittenOk, UNCHANGED written, NEW h \in 1..Len(writeq),
         writeq' = RemoveAt(writeq, h),
         mem' = [mem EXCEPT ![writeq[h].ln] = writeq[h].ver],
         \A l \in Lines : mem[l] <= mem'[l]
  PROVE  WrittenOk'
<1> DEFINE n == Len(writeq)
<1>1. /\ Len(writeq') = n - 1 /\ n \in Nat
      /\ \A i \in 1..(n - 1) : From(h, i) \in 1..n /\ writeq'[i] = writeq[From(h, i)]
  <2>1. writeq \in Seq(Requests)
    BY DEF TypeOK
  <2>2. /\ Len(RemoveAt(writeq, h)) = Len(writeq) - 1
        /\ \A i \in 1..(Len(writeq) - 1) :
             From(h, i) \in 1..Len(writeq) /\ RemoveAt(writeq, h)[i] = writeq[From(h, i)]
    BY <2>1, RemoveAtElements
  <2>3. QED
    BY <2>1, <2>2
<1>2. /\ \A k \in Lines : mem[k] \in Nat
      /\ \A i \in 1..n : writeq[i].ln \in Lines /\ writeq[i].ver \in Nat
  BY Versions
<1>3. mem'[writeq[h].ln] = writeq[h].ver
  BY <1>2 DEF TypeOK
<1>4. \A k \in Lines : mem'[k] \in Nat
  BY <1>2 DEF TypeOK
<1>5. \A k \in 1..n : k # h => \E i \in 1..(n - 1) : From(h, i) = k
  <2> SUFFICES ASSUME NEW k \in 1..n, k # h PROVE \E i \in 1..(n - 1) : From(h, i) = k
    OBVIOUS
  <2>1. CASE k < h
    <3>1. k \in 1..(n - 1) /\ From(h, k) = k
      BY <1>1, <2>1 DEF From
    <3>2. QED
      BY <3>1
  <2>2. CASE k > h
    <3>1. k - 1 \in 1..(n - 1) /\ From(h, k - 1) = k
      BY <1>1, <2>2 DEF From
    <3>2. QED
      BY <3>1
  <2>3. QED
    BY <2>1, <2>2
<1>6. /\ \A i \in 1..n : writeq[i].ver <= written[<<writeq[i].ln, writeq[i].off>>]
      /\ \A l \in Lines, off \in Offsets :
           \/ written[<<l, off>>] <= mem[l]
           \/ \E i \in 1..n : /\ writeq[i].ln = l /\ writeq[i].off = off
                              /\ writeq[i].ver = written[<<l, off>>]
  BY DEF WrittenOk, WritesOf
<1>7. \A k \in Lines, o \in Offsets : written[<<k, o>>] \in Nat
  BY BoundAssumption DEF TypeOK, Addrs
<1> HIDE DEF n
<1>8. \A i \in 1..(n - 1) : writeq'[i].ver <= written[<<writeq'[i].ln, writeq'[i].off>>]
  BY <1>1, <1>6
<1>9. ASSUME NEW l \in Lines, NEW off \in Offsets, ~ (written[<<l, off>>] <= mem'[l])
      PROVE  \E i \in 1..(n - 1) : /\ writeq'[i].ln = l /\ writeq'[i].off = off
                                   /\ writeq'[i].ver = written[<<l, off>>]
  <2>1. ~ (written[<<l, off>>] <= mem[l])
    BY <1>2, <1>4, <1>7, <1>9
  <2>2. PICK k \in 1..n : /\ writeq[k].ln = l /\ writeq[k].off = off
                          /\ writeq[k].ver = written[<<l, off>>]
    BY <1>6, <2>1
  <2>3. k # h
    BY <1>3, <1>7, <1>9, <2>2
  <2>4. PICK i \in 1..(n - 1) : From(h, i) = k
    BY <1>5, <2>3
  <2>5. QED
    BY <1>1, <2>2, <2>4
<1>10. ASSUME NEW l \in Lines, NEW off \in Offsets, ~ (written[<<l, off>>] <= mem'[l])
       PROVE  \E i \in WritesOf(l, off)' : writeq'[i].ver = written[<<l, off>>]
  <2>1. PICK i \in 1..(n - 1) : /\ writeq'[i].ln = l /\ writeq'[i].off = off
                                /\ writeq'[i].ver = written[<<l, off>>]
    BY <1>9, <1>10
  <2>2. i \in WritesOf(l, off)'
    BY <1>1, <2>1 DEF WritesOf
  <2>3. QED
    BY <2>1, <2>2
<1>11. QED
  BY <1>1, <1>8, <1>10 DEF WrittenOk

\* A step that leaves the writes alone leaves all that is said of them.
LEMMA WritesSame ==
  ASSUME WritesOk, WrittenOk, UNCHANGED <<writeq, mem, latest, written>>
  PROVE  WritesOk' /\ WrittenOk'
BY DEF WritesOk, WrittenOk, WritesOf

\* Whatever command is issued, the queues and the banks stay in order.
LEMMA IssueFresh ==
  ASSUME TypeOK, FreshInv, NEW h \in 1..Len(Served), UNCHANGED <<latest, written>>,
         NEW due \in BOOLEAN, NEW inject \in BOOLEAN, IssueTick(due, inject, h),
         Prepares(due, h) \/ Reads(due, h) \/ Writes(due, h),
         mem' \in [Lines -> 0..MaxReqs],
         readq' \in Seq(Requests), writeq' \in Seq(Requests), migq' \in Seq(Requests)
  PROVE  ReadsOk(readq)' /\ ReadsOk(migq)' /\ WritesOk' /\ WrittenOk'
<1>t. /\ readq \in Seq(Requests) /\ writeq \in Seq(Requests) /\ migq \in Seq(Requests)
      /\ mem \in [Lines -> 0..MaxReqs] /\ ReadsOk(readq) /\ ReadsOk(migq) /\ WritesOk
      /\ WrittenOk /\ Served \in Seq(Requests) /\ QueueName \in {"mig", "write", "read"}
  BY ServedType DEF TypeOK, FreshInv
<1>s. \A q \in Seq(Requests) : DrawnFrom(q, q)
  BY DEF DrawnFrom
<1>q. ASSUME NEW q \in Seq(Requests), SetQueue(QueueName, q), DrawnFrom(q, Served)
      PROVE  DrawnFrom(readq', readq) /\ DrawnFrom(migq', migq)
  BY <1>t, <1>s, <1>q, ServedType DEF SetQueue
<1>m. ASSUME \A l \in Lines : mem[l] <= mem'[l],
             DrawnFrom(readq', readq), DrawnFrom(migq', migq)
      PROVE  ReadsOk(readq)' /\ ReadsOk(migq)'
  <2>1. \A i \in 1..Len(readq') : readq'[i].type = "RD" /\ readq'[i].ver <= mem'[readq'[i].ln]
    BY <1>t, <1>m, ReadsKept
  <2>2. \A i \in 1..Len(migq') : migq'[i].type = "RD" /\ migq'[i].ver <= mem'[migq'[i].ln]
    BY <1>t, <1>m, ReadsKept
  <2>3. QED
    BY <2>1, <2>2 DEF ReadsOk
<1>e. mem' = mem => \A l \in Lines : mem[l] <= mem'[l]
  BY Versions
<1>r. /\ RemoveAt(Served, h) \in Seq(Requests) /\ DrawnFrom(RemoveAt(Served, h), Served)
  <2>1. /\ RemoveAt(Served, h) \in Seq(Requests)
        /\ Len(RemoveAt(Served, h)) = Len(Served) - 1
        /\ \A i \in 1..(Len(Served) - 1) :
             From(h, i) \in 1..Len(Served) /\ RemoveAt(Served, h)[i] = Served[From(h, i)]
    BY <1>t, RemoveAtElements
  <2>2. QED
    BY <2>1 DEF DrawnFrom
<1>1. CASE Prepares(due, h)
  <2> DEFINE q == [Served EXCEPT ![h].first = FALSE]
  <2>1. /\ q \in Seq(Requests) /\ Len(q) = Len(Served)
        /\ \A i \in 1..Len(Served) :
             /\ q[i].type = Served[i].type /\ q[i].ln = Served[i].ln
             /\ q[i].off = Served[i].off /\ q[i].ver = Served[i].ver
    BY <1>t, StartedMark
  <2>2. SetQueue(QueueName, q) /\ mem' = mem
    BY <1>1 DEF Prepares
  <2> HIDE DEF q
  <2>3. DrawnFrom(q, Served)
    BY <2>1 DEF DrawnFrom
  <2>4. ReadsOk(readq)' /\ ReadsOk(migq)'
    BY <1>q, <1>m, <1>e, <2>1, <2>2, <2>3
  <2>5. CASE QueueName = "write"
    <3>1. Served = writeq /\ writeq' = q
      BY <2>2, <2>5, ServedType DEF SetQueue
    <3>2. WritesOk' /\ WrittenOk'
      BY <1>t, <2>1, <2>2, <3>1, WritesMarked, WrittenMarked
    <3>3. QED
      BY <2>4, <3>2
  <2>6. CASE QueueName # "write"
    <3>1. UNCHANGED <<writeq, mem, latest, written>>
      BY <2>2, <2>6 DEF SetQueue
    <3>2. QED
      BY <1>t, <2>4, <3>1, WritesSame
  <2>7. QED
    BY <2>5, <2>6
<1>2. CASE Reads(due, h)
  <2>1. SetQueue(QueueName, RemoveAt(Served, h)) /\ mem' = mem /\ QueueName # "write"
    BY <1>2 DEF Reads, banks
  <2>2. ReadsOk(readq)' /\ ReadsOk(migq)'
    BY <1>q, <1>m, <1>e, <1>r, <2>1
  <2>3. UNCHANGED <<writeq, mem, latest, written>>
    BY <2>1 DEF SetQueue
  <2>4. QED
    BY <1>t, <2>2, <2>3, WritesSame
<1>3. CASE Writes(due, h)
  <2>1. /\ SetQueue(QueueName, RemoveAt(Served, h)) /\ QueueName = "write"
        /\ RowHit(Served[h]) /\ mem' = [mem EXCEPT ![Served[h].ln] = Served[h].ver]
    BY <1>3 DEF Writes
  <2>2. Served = writeq
    BY <2>1, ServedType
  <2>3. \A i \in 1..Len(writeq) : writeq[i].ln = writeq[h].ln => h <= i
    <3> SUFFICES ASSUME NEW i \in 1..Len(writeq), writeq[i].ln = writeq[h].ln
                 PROVE  h <= i
      OBVIOUS
    <3>1. RowHit(writeq[i])
      BY <2>1, <2>2 DEF RowHit
    <3>2. /\ writeq[i] \in Requests /\ writeq[h] \in Requests
          /\ writeq[i].type = "WR" /\ writeq[h].type = "WR"
      BY <1>t, <2>2 DEF WritesOk
    <3>3. Command(writeq[i]) = Command(writeq[h])
      <4>1. get_first_cmd(writeq[i]) = "WR" /\ get_first_cmd(writeq[h]) = "WR"
        BY <2>1, <2>2, <3>1, <3>2, FirstCommand
      <4>2. QED
        BY <4>1 DEF Command
    <3>4. QED
      BY <2>1, <2>2, <3>1, <3>3 DEF IssueTick
  <2>4. writeq' = RemoveAt(writeq, h)
    BY <2>1, <2>2 DEF SetQueue
  <2>5. WritesOk' /\ \A l \in Lines : mem[l] <= mem'[l]
    BY <1>t, <2>1, <2>2, <2>3, <2>4, WritesRemove
  <2>6. ReadsOk(readq)' /\ ReadsOk(migq)'
    BY <1>q, <1>m, <1>r, <2>1, <2>5
  <2>7. WrittenOk'
    BY <1>t, <2>1, <2>2, <2>4, <2>5, WrittenRemove
  <2>8. QED
    BY <2>5, <2>6, <2>7
<1>4. QED
  BY <1>1, <1>2, <1>3

\* Reads find the last write, in the queue or in the bank, after every step.
LEMMA NextFresh ==
  ASSUME TypeOK, CountersInv, FreshInv, [Next]_vars
  PROVE  FreshInv'
<1>t. /\ readq \in Seq(Requests) /\ writeq \in Seq(Requests) /\ migq \in Seq(Requests)
      /\ pending \in Seq(Answers) /\ mig_pending \in Seq(Answers)
      /\ ReadsOk(readq) /\ ReadsOk(migq) /\ WritesOk /\ WrittenOk
      /\ AnswersOk(pending) /\ AnswersOk(mig_pending)
  BY DEF TypeOK, FreshInv
<1>1. CASE UNCHANGED <<readq, writeq, migq, pending, mig_pending, mem, latest, written>>
  BY <1>t, <1>1, WritesSame DEF FreshInv, ReadsOk, AnswersOk
<1>2. ASSUME NEW l \in Lines, NEW off \in Offsets, WriteQueued(l, off),
             NEW a \in Seq(Answers), AnswersOk(a)
      PROVE  AnswersOk(Append(a, ForwardedRead(l, off)))
  <2> DEFINE x == ForwardedRead(l, off)
  <2>1. x.got >= x.want
    BY <1>t, <1>2, ReadTypes
  <2> HIDE DEF x
  <2>2. /\ Len(Append(a, x)) = Len(a) + 1 /\ Append(a, x)[Len(a) + 1] = x
        /\ \A i \in 1..Len(a) : Append(a, x)[i] = a[i]
        /\ \A i \in 1..(Len(a) + 1) : i \in 1..Len(a) \/ i = Len(a) + 1
    OBVIOUS
  <2>3. AnswersOk(Append(a, x))
    BY <1>2, <2>1, <2>2 DEF AnswersOk
  <2>4. QED
    BY <2>3 DEF x
<1>3. ASSUME NEW l \in Lines, NEW off \in Offsets, enqueue(l, off) PROVE FreshInv'
  <2>1. UNCHANGED <<migq, mig_pending, mem>>
    BY <1>3 DEF enqueue, banks
  <2>2. CASE enqueue_read(l, off)
    <3>1. UNCHANGED <<writeq, latest, written>>
      BY <2>2 DEF enqueue_read
    <3>2. WritesOk' /\ WrittenOk'
      BY <1>t, <2>1, <3>1, WritesSame
    <3>3. ReadsOk(migq)' /\ AnswersOk(mig_pending)'
      BY <1>t, <2>1 DEF ReadsOk, AnswersOk
    <3>4. ReadsOk(readq)' /\ AnswersOk(pending)'
      <4>1. CASE Forward(l, off)
        <5>1. UNCHANGED readq /\ pending' = Append(pending, ForwardedRead(l, off))
          BY <2>2, <4>1 DEF enqueue_read
        <5>2. AnswersOk(pending')
          BY <1>t, <1>2, <4>1, <5>1 DEF Forward
        <5>3. QED
          BY <1>t, <2>1, <5>1, <5>2 DEF ReadsOk, AnswersOk
      <4>2. CASE ~ Forward(l, off)
        <5>1. UNCHANGED pending /\ readq' = Append(readq, QueuedRead(l, off))
          BY <2>2, <4>2 DEF enqueue_read
        <5>2. ReadsOk(readq')
          BY <1>t, <4>2, <5>1, InBank, ReadTypes, ReadsAppend DEF Forward
        <5>3. QED
          BY <1>t, <2>1, <5>1, <5>2 DEF ReadsOk, AnswersOk
      <4>3. QED
        BY <4>1, <4>2
    <3>5. QED
      BY <3>2, <3>3, <3>4 DEF FreshInv
  <2>3. CASE enqueue_write(l, off)
    <3>1. /\ UNCHANGED <<pending, readq>> /\ latest' = [latest EXCEPT ![l] = @ + 1]
          /\ writeq' = Append(writeq, Request("WR", l, off, latest[l] + 1))
          /\ written' = [written EXCEPT ![<<l, off>>] = latest[l] + 1]
      BY <2>3 DEF enqueue_write
    <3>2. latest[l] + 1 \in 0..MaxReqs
      BY <1>3, BoundAssumption DEF enqueue, TypeOK, CountersInv
    <3>3. WritesOk' /\ WrittenOk'
      BY <1>t, <2>1, <3>1, <3>2, WritesAppend, WrittenAppend
    <3>4. QED
      BY <1>t, <2>1, <3>1, <3>3 DEF FreshInv, ReadsOk, AnswersOk
  <2>4. QED
    BY <1>3, <2>2, <2>3 DEF enqueue
<1>4. CASE enqueue_mig
  <2> DEFINE l == Head(to_send)
  <2>1. /\ UNCHANGED <<readq, writeq, pending, mem, latest, written>>
        /\ l \in Lines /\ 0 \in Offsets
    BY <1>4, OffsetAssumption DEF enqueue_mig, TypeOK, banks
  <2>2. WritesOk' /\ WrittenOk'
    BY <1>t, <2>1, WritesSame
  <2>3. ReadsOk(readq)' /\ AnswersOk(pending)'
    BY <1>t, <2>1 DEF ReadsOk, AnswersOk
  <2>4. ReadsOk(migq)' /\ AnswersOk(mig_pending)'
    <3>1. CASE Forward(l, 0)
      <4>1. UNCHANGED migq /\ mig_pending' = Append(mig_pending, ForwardedRead(l, 0))
        BY <1>4, <3>1 DEF enqueue_mig
      <4> HIDE DEF l
      <4>2. AnswersOk(mig_pending')
        BY <1>t, <1>2, <2>1, <3>1, <4>1 DEF Forward
      <4>3. QED
        BY <1>t, <2>1, <4>1, <4>2 DEF ReadsOk, AnswersOk
    <3>2. CASE ~ Forward(l, 0)
      <4>1. UNCHANGED mig_pending /\ migq' = Append(migq, QueuedRead(l, 0))
        BY <1>4, <3>2 DEF enqueue_mig
      <4> HIDE DEF l
      <4>2. ReadsOk(migq')
        BY <1>t, <2>1, <3>2, <4>1, InBank, ReadTypes, ReadsAppend DEF Forward
      <4>3. QED
        BY <1>t, <2>1, <4>1, <4>2 DEF ReadsOk, AnswersOk
    <3>3. QED
      BY <3>1, <3>2
  <2>5. QED
    BY <2>2, <2>3, <2>4 DEF FreshInv
<1>5. CASE tick
  <2>1. PICK due \in BOOLEAN, inject \in BOOLEAN :
          /\ due => Answering # <<>>
          /\ refreshes' \in 0..MaxRefresh
          /\ refreshes' = refreshes + (IF inject THEN 1 ELSE 0)
          /\ \/ RefreshTick(due, inject)
             \/ QuietTick(due, inject)
             \/ \E h \in 1..Len(Served) : IssueTick(due, inject, h)
    BY <1>5, TickParts
  <2>2. UNCHANGED <<latest, written>>
    BY <1>5, TickParts
  <2>3. CASE RefreshTick(due, inject) \/ QuietTick(due, inject)
    <3>1. /\ UNCHANGED <<readq, writeq, migq, mem>>
          /\ AnswersOk(pending') /\ AnswersOk(mig_pending')
      BY <2>1, <2>3, IdleTypes
    <3>2. WritesOk' /\ WrittenOk'
      BY <1>t, <2>2, <3>1, WritesSame
    <3>3. QED
      BY <1>t, <3>1, <3>2 DEF FreshInv, ReadsOk, AnswersOk
  <2>4. ASSUME NEW h \in 1..Len(Served), IssueTick(due, inject, h) PROVE FreshInv'
    <3>1. Prepares(due, h) \/ Reads(due, h) \/ Writes(due, h)
      BY <2>1, <2>4, IssueParts DEF IssueTick
    <3>2. /\ readq' \in Seq(Requests) /\ writeq' \in Seq(Requests) /\ migq' \in Seq(Requests)
          /\ AnswersOk(pending') /\ AnswersOk(mig_pending')
          /\ mem' \in [Lines -> 0..MaxReqs]
      BY <2>1, <3>1, IssueTypes
    <3>3. ReadsOk(readq)' /\ ReadsOk(migq)' /\ WritesOk' /\ WrittenOk'
      BY <2>2, <2>4, <3>1, <3>2, IssueFresh
    <3>4. QED
      BY <3>2, <3>3 DEF FreshInv, AnswersOk
  <2>5. QED
    BY <2>1, <2>3, <2>4
<1>6. CASE MigStatus
  BY <1>1, <1>6 DEF MigStatus, queues, banks
<1>7. CASE UNCHANGED vars
  BY <1>1, <1>7 DEF vars, queues, banks
<1>8. QED
  BY <1>3, <1>4, <1>5, <1>6, <1>7 DEF Next

(***************************************************************************)
(* The theorems.                                                           *)
(***************************************************************************)
\* The invariant holds in every state the controller reaches.
THEOREM Invariance == Spec => []IInv
<1>1. Init => IInv
  BY InitInv
<1>2. IInv /\ [Next]_vars => IInv'
  <2> SUFFICES ASSUME IInv, [Next]_vars PROVE IInv'
    OBVIOUS
  <2>1. TypeOK /\ CountersInv /\ FreshInv /\ ServingExact /\ RowTableSound
    BY DEF IInv
  <2>2. TypeOK' /\ CountersInv'
    BY <2>1, NextTypes
  <2>3. FreshInv'
    BY <2>1, NextFresh
  <2>4. ServingExact' /\ RowTableSound'
    BY <2>1, NextServing, NextRowTable
  <2>5. QED
    BY <2>2, <2>3, <2>4 DEF IInv
<1>3. QED
  BY <1>1, <1>2, PTL DEF Spec

\* The variables of Controller and of the banks have the types of their
\* declarations, and no queue exceeds rd_q_max, wr_q_max or mg_q_max.
THEOREM TypeCorrect == Spec => []TypeOK
<1>1. IInv => TypeOK
  BY DEF IInv
<1>2. QED
  BY <1>1, Invariance, PTL

\* No read, forwarded from the write queue by enqueue or served by a bank, is
\* older than the last write of its address that was accepted before it, and the
\* last write of every line is in the queue or in its bank.
THEOREM ReadsAlwaysFresh == Spec => []ReadsFresh
<1>1. IInv => ReadsFresh
  <2> SUFFICES ASSUME IInv PROVE ReadsFresh
    OBVIOUS
  <2>1. /\ TypeOK /\ WritesOk /\ AnswersOk(pending) /\ AnswersOk(mig_pending)
        /\ pending \in Seq(Answers) /\ mig_pending \in Seq(Answers)
    BY DEF IInv, FreshInv, TypeOK
  <2>2. ASSUME NEW a \in ToSet(pending) \cup ToSet(mig_pending) PROVE a.got >= a.want
    BY <2>1, <2>2 DEF ToSet, AnswersOk
  <2>3. ASSUME NEW l \in Lines
        PROVE  latest[l] = IF LineQueued(l) THEN LastOfLine(l) ELSE mem[l]
    BY <2>1, LastOfLineIs, InBank
  <2>4. QED
    BY <2>2, <2>3 DEF ReadsFresh
<1>2. QED
  BY <1>1, Invariance, PTL

\* cur_serving_requests of Controller counts the requests that are begun.
THEOREM ServingCounted == Spec => []ServingExact
<1>1. IInv => ServingExact
  BY DEF IInv
<1>2. QED
  BY <1>1, Invariance, PTL

\* The assertions of the row table never fail: it agrees with the banks.
THEOREM RowTableAgrees == Spec => []RowTableSound
<1>1. IInv => RowTableSound
  BY DEF IInv
<1>2. QED
  BY <1>1, Invariance, PTL

\* The scheduler closes no row that a request of its queue hits.
THEOREM HitsAlwaysSpared == Spec => HitsSpared
<1>1. IInv /\ [Next]_vars =>
        [\A b \in Banks :
           /\ row_state[b] # {} /\ row_state'[b] = {}
           /\ otherq + (refreshes' - refreshes) = 0
           => \A i \in 1..Len(QueueOf(QueueName)) :
                LET r == QueueOf(QueueName)[i] IN Bank(r.ln) = b => ~ RowHit(r)]_vars
  <2> SUFFICES ASSUME TypeOK, CountersInv, FreshInv, [Next]_vars,
                      NEW b \in Banks, row_state[b] # {}, row_state'[b] = {},
                      otherq + (refreshes' - refreshes) = 0,
                      NEW i \in 1..Len(Served), Bank(Served[i].ln) = b
               PROVE  ~ RowHit(Served[i])
    BY DEF IInv, Served
  <2>1. QED
    BY NextSpares
<1>2. QED
  BY <1>1, Invariance, PTL DEF Spec, HitsSpared
=============================================================================
