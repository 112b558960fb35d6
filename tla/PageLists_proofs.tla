--------------------------- MODULE PageLists_proofs ---------------------------
(* What the list operators of the page manager preserve. *)
EXTENDS PageLists, SequenceTheorems, TLAPS

\* Removing element k shifts the ones behind it.
LEMMA RemoveAtProps ==
  ASSUME NEW S, NEW s \in Seq(S), NEW k \in 1..Len(s)
  PROVE  /\ RemoveAt(s, k) \in Seq(S)
         /\ Len(RemoveAt(s, k)) = Len(s) - 1
         /\ \A i \in 1..(Len(s) - 1) :
              RemoveAt(s, k)[i] = IF i < k THEN s[i] ELSE s[i + 1]
<1> DEFINE a == SubSeq(s, 1, k - 1)
           b == SubSeq(s, k + 1, Len(s))
<1>0. Len(s) \in Nat /\ k \in Nat
  OBVIOUS
<1>1. /\ a \in Seq(S) /\ Len(a) = k - 1
      /\ \A i \in 1..(k - 1) : a[i] = s[i]
  OBVIOUS
<1>2. /\ b \in Seq(S) /\ Len(b) = Len(s) - k
      /\ \A i \in 1..(Len(s) - k) : b[i] = s[k + i]
  OBVIOUS
<1>3. RemoveAt(s, k) = a \o b
  BY DEF RemoveAt
<1> HIDE DEF a, b
<1> DEFINE c == a \o b
<1>4. /\ c \in Seq(S) /\ Len(c) = Len(a) + Len(b)
      /\ \A i \in 1..(Len(a) + Len(b)) :
           c[i] = IF i <= Len(a) THEN a[i] ELSE b[i - Len(a)]
  BY <1>1, <1>2, ConcatProperties, Zenon
<1> HIDE DEF c
<1>5. Len(c) = Len(s) - 1
  BY <1>0, <1>1, <1>2, <1>4
<1>6. ASSUME NEW i \in 1..(Len(s) - 1)
      PROVE  c[i] = IF i < k THEN s[i] ELSE s[i + 1]
  <2>1. c[i] = IF i <= k - 1 THEN a[i] ELSE b[i - (k - 1)]
    BY <1>0, <1>1, <1>2, <1>4
  <2>2. CASE i < k
    BY <1>0, <1>1, <2>1, <2>2
  <2>3. CASE ~ (i < k)
    <3>1. i - (k - 1) \in 1..(Len(s) - k)
      BY <1>0, <2>3
    <3>2. b[i - (k - 1)] = s[k + (i - (k - 1))]
      BY <1>2, <3>1
    <3> QED BY <1>0, <2>1, <2>3, <3>2
  <2> QED BY <2>2, <2>3
<1> QED
  BY <1>3, <1>4, <1>5, <1>6 DEF c

\* The elements of a list, by their places.
LEMMA ElementsSet ==
  ASSUME NEW S, NEW s \in Seq(S)
  PROVE  \A x : x \in ToSet(s) <=> \E i \in 1..Len(s) : s[i] = x
BY DEF ToSet

\* An element is erased from a list without repeats for good, and no other is.
LEMMA DroppedProps ==
  ASSUME NEW S, NEW s \in Seq(S), NEW p, NoRepeats(s)
  PROVE  /\ Dropped(s, p) \in Seq(S)
         /\ NoRepeats(Dropped(s, p))
         /\ ToSet(Dropped(s, p)) = ToSet(s) \ {p}
<1>1. CASE \E i \in 1..Len(s) : s[i] = p
  <2> DEFINE k == PosIn(s, p)
             r == RemoveAt(s, k)
  <2>1. k \in 1..Len(s) /\ s[k] = p
    BY <1>1 DEF PosIn
  <2>2. Dropped(s, p) = r
    BY <1>1 DEF Dropped
  <2> HIDE DEF k
  <2>3. /\ r \in Seq(S) /\ Len(r) = Len(s) - 1
        /\ \A i \in 1..(Len(s) - 1) : r[i] = IF i < k THEN s[i] ELSE s[i + 1]
    BY <2>1, RemoveAtProps
  <2> HIDE DEF r
  <2>4. \A i \in 1..Len(r) : r[i] # p
    BY <2>1, <2>3 DEF NoRepeats
  <2>5. \A i, j \in 1..Len(r) : r[i] = r[j] => i = j
    <3> SUFFICES ASSUME NEW i \in 1..Len(r), NEW j \in 1..Len(r), r[i] = r[j]
                 PROVE  i = j
      OBVIOUS
    <3> DEFINE from(x) == IF x < k THEN x ELSE x + 1
    <3>1. /\ from(i) \in 1..Len(s) /\ r[i] = s[from(i)]
          /\ from(j) \in 1..Len(s) /\ r[j] = s[from(j)]
      BY <2>1, <2>3
    <3>2. from(i) = from(j)
      BY <3>1 DEF NoRepeats
    <3> QED BY <2>1, <2>3, <3>2
  <2>6. \A i \in 1..Len(r) : \E j \in 1..Len(s) : r[i] = s[j]
    <3> TAKE i \in 1..Len(r)
    <3>1. CASE i < k
      BY <2>1, <2>3, <3>1
    <3>2. CASE ~ (i < k)
      <4>1. i + 1 \in 1..Len(s) /\ r[i] = s[i + 1]
        BY <2>1, <2>3, <3>2
      <4> QED BY <4>1
    <3> QED BY <3>1, <3>2
  <2>7. \A j \in 1..Len(s) : s[j] # p => \E i \in 1..Len(r) : r[i] = s[j]
    <3> SUFFICES ASSUME NEW j \in 1..Len(s), s[j] # p
                 PROVE  \E i \in 1..Len(r) : r[i] = s[j]
      OBVIOUS
    <3>1. CASE j < k
      <4>1. j \in 1..Len(r) /\ r[j] = s[j]
        BY <2>1, <2>3, <3>1
      <4> QED BY <4>1
    <3>2. CASE j > k
      <4>1. j - 1 \in 1..Len(r) /\ r[j - 1] = s[j]
        BY <2>1, <2>3, <3>2
      <4> QED BY <4>1
    <3> QED BY <2>1, <3>1, <3>2
  <2>8. ToSet(r) = ToSet(s) \ {p}
    <3>1. /\ \A x : x \in ToSet(r) <=> \E i \in 1..Len(r) : r[i] = x
          /\ \A x : x \in ToSet(s) <=> \E i \in 1..Len(s) : s[i] = x
      BY <2>3, ElementsSet
    <3>2. ASSUME NEW x \in ToSet(r)
          PROVE  x \in ToSet(s) /\ x # p
      <4>1. PICK i \in 1..Len(r) : r[i] = x
        BY <3>1
      <4> QED BY <2>4, <2>6, <3>1, <4>1
    <3>3. ASSUME NEW x \in ToSet(s), x # p
          PROVE  x \in ToSet(r)
      <4>1. PICK j \in 1..Len(s) : s[j] = x
        BY <3>1
      <4> QED BY <2>7, <3>1, <3>3, <4>1
    <3> QED BY <3>2, <3>3
  <2>9. NoRepeats(r)
    BY <2>5 DEF NoRepeats
  <2> QED
    BY <2>2, <2>3, <2>8, <2>9
<1>2. CASE ~ \E i \in 1..Len(s) : s[i] = p
  BY <1>2, ElementsSet DEF Dropped
<1> QED
  BY <1>1, <1>2

\* hma_add_page_lru keeps a list without repeats that way, and changes its
\* elements only by adding p; so does a hit with the lines of a cache.
LEMMA TouchedProps ==
  ASSUME NEW S, NEW s \in Seq(S), NEW p \in S, NoRepeats(s)
  PROVE  /\ Touched(s, p) \in Seq(S)
         /\ NoRepeats(Touched(s, p))
         /\ \A i \in 1..Len(Touched(s, p)) :
              Touched(s, p)[i] = p \/ \E j \in 1..Len(s) : Touched(s, p)[i] = s[j]
         /\ ToSet(Touched(s, p)) = ToSet(s) \cup {p}
<1> DEFINE r == Dropped(s, p)
           t == Append(r, p)
<1>0. r \in Seq(S) /\ NoRepeats(r) /\ ToSet(r) = ToSet(s) \ {p}
  BY DroppedProps
<1>2. Touched(s, p) = t
  BY DEF Touched
<1> HIDE DEF r
<1>1. /\ r \in Seq(S) /\ NoRepeats(r)
      /\ \A i \in 1..Len(r) : r[i] # p /\ \E j \in 1..Len(s) : r[i] = s[j]
      /\ \A j \in 1..Len(s) : s[j] # p => \E i \in 1..Len(r) : r[i] = s[j]
  BY <1>0, ElementsSet
<1>3. /\ t \in Seq(S) /\ Len(t) = Len(r) + 1 /\ t[Len(t)] = p /\ Len(r) \in Nat
      /\ \A i \in 1..Len(r) : i \in 1..Len(t) /\ t[i] = r[i]
  BY <1>1
<1> HIDE DEF t
<1>4. \A i \in 1..Len(t) : i = Len(t) \/ i \in 1..Len(r)
  BY <1>3
<1>5. NoRepeats(t)
  <2> SUFFICES ASSUME NEW i \in 1..Len(t), NEW j \in 1..Len(t), t[i] = t[j]
               PROVE  i = j
    BY DEF NoRepeats
  <2>1. CASE i \in 1..Len(r) /\ j \in 1..Len(r)
    BY <1>1, <1>3, <2>1 DEF NoRepeats
  <2>2. CASE i = Len(t) \/ j = Len(t)
    BY <1>1, <1>3, <1>4, <2>2
  <2> QED BY <1>4, <2>1, <2>2
<1>6. ASSUME NEW i \in 1..Len(t)
      PROVE  t[i] = p \/ \E j \in 1..Len(s) : t[i] = s[j]
  <2>1. CASE i = Len(t)
    BY <1>3, <2>1
  <2>2. CASE i \in 1..Len(r)
    BY <1>1, <1>3, <2>2
  <2> QED BY <1>4, <2>1, <2>2
<1>7. Len(t) \in 1..Len(t)
  BY <1>3
<1>8. \A j \in 1..Len(s) : \E i \in 1..Len(t) : t[i] = s[j]
  <2> TAKE j \in 1..Len(s)
  <2>1. CASE s[j] = p
    BY <1>3, <1>7, <2>1
  <2>2. CASE s[j] # p
    <3>1. PICK i \in 1..Len(r) : r[i] = s[j]
      BY <1>1, <2>2
    <3> QED BY <1>3, <3>1
  <2> QED BY <2>1, <2>2
<1>9. ToSet(t) = ToSet(s) \cup {p}
  <2>1. /\ \A x : x \in ToSet(t) <=> \E i \in 1..Len(t) : t[i] = x
        /\ \A x : x \in ToSet(s) <=> \E i \in 1..Len(s) : s[i] = x
    BY <1>3, ElementsSet
  <2> QED BY <1>3, <1>6, <1>7, <1>8, <2>1
<1>10. t \in Seq(S)
  BY <1>3
<1> QED
  BY <1>2, <1>5, <1>6, <1>9, <1>10, Zenon

\* Taking the first page off a list without repeats takes it off for good.
LEMMA TailProps ==
  ASSUME NEW S, NEW s \in Seq(S), NoRepeats(s), Len(s) >= 1
  PROVE  /\ Tail(s) \in Seq(S) /\ Head(s) \in S /\ Head(s) = s[1]
         /\ Len(Tail(s)) = Len(s) - 1
         /\ NoRepeats(Tail(s))
         /\ \A i \in 1..Len(Tail(s)) : Tail(s)[i] # Head(s) /\ i + 1 \in 1..Len(s)
                                      /\ Tail(s)[i] = s[i + 1]
<1> DEFINE r == Tail(s)
<1>1. /\ r \in Seq(S) /\ Len(r) = Len(s) - 1 /\ Len(s) \in Nat
      /\ \A i \in 1..Len(r) : r[i] = s[i + 1]
      /\ Head(s) = s[1] /\ s[1] \in S
  OBVIOUS
<1> HIDE DEF r
<1>2. \A i \in 1..Len(r) : i + 1 \in 1..Len(s)
  BY <1>1
<1>3. NoRepeats(r)
  <2> SUFFICES ASSUME NEW i \in 1..Len(r), NEW j \in 1..Len(r), r[i] = r[j]
               PROVE  i = j
    BY DEF NoRepeats
  <2>1. s[i + 1] = s[j + 1]
    BY <1>1
  <2>2. i + 1 = j + 1
    BY <1>2, <2>1 DEF NoRepeats
  <2> QED BY <2>2
<1>4. \A i \in 1..Len(r) : r[i] # s[1]
  <2> SUFFICES ASSUME NEW i \in 1..Len(r), r[i] = s[1] PROVE FALSE
    OBVIOUS
  <2>1. s[i + 1] = s[1] /\ 1 \in 1..Len(s)
    BY <1>1
  <2>2. i + 1 = 1
    BY <1>2, <2>1 DEF NoRepeats
  <2> QED BY <2>2
<1> QED
  BY <1>1, <1>2, <1>3, <1>4 DEF r

\* Putting a victim that will not do back at the other end of the list.
LEMMA RotatedProps ==
  ASSUME NEW S, NEW s \in Seq(S), NoRepeats(s), Len(s) >= 1
  PROVE  /\ Rotated(s) \in Seq(S)
         /\ Len(Rotated(s)) = Len(s)
         /\ NoRepeats(Rotated(s))
         /\ \A i \in 1..Len(Rotated(s)) :
              \E j \in 1..Len(s) : Rotated(s)[i] = s[j]
<1> DEFINE t == Tail(s)
           r == Append(t, Head(s))
<1>1. /\ t \in Seq(S) /\ Head(s) \in S /\ Head(s) = s[1]
      /\ Len(t) = Len(s) - 1 /\ NoRepeats(t)
      /\ \A i \in 1..Len(t) : t[i] # Head(s) /\ i + 1 \in 1..Len(s)
                              /\ t[i] = s[i + 1]
  BY TailProps
<1> HIDE DEF t
<1>2. /\ r \in Seq(S) /\ Len(r) = Len(t) + 1 /\ Len(t) \in Nat
      /\ \A i \in 1..Len(r) : r[i] = IF i <= Len(t) THEN t[i] ELSE Head(s)
  BY <1>1
<1> HIDE DEF r
<1>3. NoRepeats(r)
  BY <1>1, <1>2 DEF NoRepeats
<1>4. \A i \in 1..Len(r) : \E j \in 1..Len(s) : r[i] = s[j]
  <2> TAKE i \in 1..Len(r)
  <2>1. CASE i <= Len(t)
    BY <1>1, <1>2, <2>1
  <2>2. CASE ~ (i <= Len(t))
    <3>1. r[i] = s[1] /\ 1 \in 1..Len(s)
      BY <1>1, <1>2, <2>2
    <3> QED BY <3>1
  <2> QED BY <2>1, <2>2
<1>5. Rotated(s) = r
  BY DEF Rotated, r, t
<1> QED
  BY <1>1, <1>2, <1>3, <1>4, <1>5

\* Erasing p from a table with one entry per page removes p and nothing else.
LEMMA ErasedProps ==
  ASSUME NEW S, NEW t \in Seq(S), NEW p, OneEntryEach(t)
  PROVE  /\ Erased(t, p) \in Seq(S)
         /\ OneEntryEach(Erased(t, p))
         /\ \A q : Listed(Erased(t, p), q) <=> Listed(t, q) /\ q # p
         /\ \A i \in 1..Len(Erased(t, p)) :
              \E j \in 1..Len(t) : Erased(t, p)[i] = t[j]
         /\ Len(Erased(t, p)) <= Len(t) /\ Len(Erased(t, p)) >= Len(t) - 1
<1>1. CASE Listed(t, p)
  <2> DEFINE k == FirstOf(t, p)
             r == RemoveAt(t, k)
  <2>1. k \in 1..Len(t) /\ t[k].pg = p
    <3>1. PICK i \in 1..Len(t) : t[i].pg = p
      BY <1>1 DEF Listed
    <3>2. \A j \in 1..(i - 1) : t[j].pg # p
      BY <3>1 DEF OneEntryEach
    <3> QED
      BY <3>1, <3>2 DEF FirstOf
  <2>2. Erased(t, p) = r
    BY <1>1 DEF Erased
  <2> HIDE DEF k
  <2>3. /\ r \in Seq(S) /\ Len(r) = Len(t) - 1
        /\ \A i \in 1..(Len(t) - 1) : r[i] = IF i < k THEN t[i] ELSE t[i + 1]
    BY <2>1, RemoveAtProps
  <2> HIDE DEF r
  <2>4. OneEntryEach(r)
    <3> SUFFICES ASSUME NEW i \in 1..Len(r), NEW j \in 1..Len(r), r[i].pg = r[j].pg
                 PROVE  i = j
      BY DEF OneEntryEach
    <3> DEFINE from(x) == IF x < k THEN x ELSE x + 1
    <3>1. /\ from(i) \in 1..Len(t) /\ r[i] = t[from(i)]
          /\ from(j) \in 1..Len(t) /\ r[j] = t[from(j)]
      BY <2>1, <2>3
    <3>2. from(i) = from(j)
      BY <3>1 DEF OneEntryEach
    <3> QED BY <2>1, <2>3, <3>2
  <2>5. \A i \in 1..Len(r) : \E j \in 1..Len(t) : r[i] = t[j]
    <3> TAKE i \in 1..Len(r)
    <3>1. CASE i < k
      BY <2>1, <2>3, <3>1
    <3>2. CASE ~ (i < k)
      <4>1. i + 1 \in 1..Len(t) /\ r[i] = t[i + 1]
        BY <2>1, <2>3, <3>2
      <4> QED BY <4>1
    <3> QED BY <3>1, <3>2
  <2>6. ASSUME NEW q
        PROVE  Listed(r, q) <=> Listed(t, q) /\ q # p
    <3>1. ASSUME Listed(r, q) PROVE Listed(t, q) /\ q # p
      <4>1. PICK i \in 1..Len(r) : r[i].pg = q
        BY <3>1 DEF Listed
      <4>2. Listed(t, q)
        BY <4>1, <2>5 DEF Listed
      <4>3. r[i].pg # t[k].pg
        BY <4>1, <2>1, <2>3 DEF OneEntryEach
      <4> QED BY <4>1, <4>2, <4>3, <2>1
    <3>2. ASSUME Listed(t, q), q # p PROVE Listed(r, q)
      <4>1. PICK j \in 1..Len(t) : t[j].pg = q
        BY <3>2 DEF Listed
      <4>2. j # k
        BY <4>1, <3>2, <2>1
      <4>3. CASE j < k
        <5>1. j \in 1..Len(r) /\ r[j] = t[j]
          BY <4>1, <4>3, <2>1, <2>3
        <5> QED BY <5>1, <4>1 DEF Listed
      <4>4. CASE j > k
        <5>1. j - 1 \in 1..Len(r) /\ r[j - 1] = t[j]
          BY <4>1, <4>4, <2>1, <2>3
        <5> QED BY <5>1, <4>1 DEF Listed
      <4> QED BY <4>2, <4>3, <4>4, <2>1
    <3> QED BY <3>1, <3>2
  <2> QED
    BY <2>2, <2>3, <2>4, <2>5, <2>6
<1>2. CASE ~ Listed(t, p)
  <2>1. Erased(t, p) = t
    BY <1>2 DEF Erased
  <2>2. Len(t) \in Nat
    OBVIOUS
  <2> QED
    BY <1>2, <2>1, <2>2
<1> QED
  BY <1>1, <1>2

\* Appending an entry for a page that has none.
LEMMA AppendedProps ==
  ASSUME NEW S, NEW t \in Seq(S), NEW e \in S, OneEntryEach(t), ~ Listed(t, e.pg)
  PROVE  /\ Append(t, e) \in Seq(S)
         /\ OneEntryEach(Append(t, e))
         /\ \A q : Listed(Append(t, e), q) <=> Listed(t, q) \/ q = e.pg
         /\ \A i \in 1..Len(Append(t, e)) :
              Append(t, e)[i] = IF i <= Len(t) THEN t[i] ELSE e
         /\ Len(Append(t, e)) = Len(t) + 1
<1> DEFINE r == Append(t, e)
<1>1. /\ r \in Seq(S) /\ Len(r) = Len(t) + 1
      /\ \A i \in 1..Len(r) : r[i] = IF i <= Len(t) THEN t[i] ELSE e
      /\ Len(t) \in Nat
  OBVIOUS
<1> HIDE DEF r
<1>2. OneEntryEach(r)
  BY <1>1 DEF OneEntryEach, Listed
<1>3. ASSUME NEW q
      PROVE  Listed(r, q) <=> Listed(t, q) \/ q = e.pg
  <2>1. r[Len(t) + 1] = e /\ Len(t) + 1 \in 1..Len(r)
    BY <1>1
  <2> QED
    BY <1>1, <2>1 DEF Listed
<1> QED
  BY <1>1, <1>2, <1>3 DEF r
=============================================================================
