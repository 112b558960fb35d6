------------------------- MODULE CacheHierarchy_proofs -------------------------
(***************************************************************************)
(* The safety of the two levels of caches, for every number of cores and   *)
(* lines and every size of the caches and MSHRs such that the LLC has at   *)
(* least as many ways as all L1s together (EnoughWays).                    *)
(***************************************************************************)
EXTENDS CacheHierarchy, PageLists_proofs, FiniteSetTheorems, TLAPS

(***************************************************************************)
(* The inductive invariant.                                                *)
(***************************************************************************)
\* No line twice, and the bits are those of lines that are there.
Good(q) ==
  /\ q \in Caches /\ NoRepeats(q.order)
  /\ q.lock \subseteq Held(q) /\ q.dirty \subseteq Held(q)

\* No set of the cache q has more lines than it has ways.
Fits(q, index, assoc) == \A k \in Lines : Cardinality(SameSet(q, k, index)) <= assoc

\* What is so of the L1s up and the LLC q at every stage of a miss, um and qm
\* being the lines that their MSHRs await: a cache is good, a locked line is an
\* awaited one, an L1 has the lines of its own core, and what the LLC awaits an
\* L1 awaits too.
Sound(up, um, q, qm) ==
  /\ up \in [Cores -> Caches] /\ um \in [Cores -> SUBSET Lines] /\ qm \in SUBSET Lines
  /\ Good(q) /\ q.lock = qm /\ Fits(q, LlcIndex, LlcAssoc)
  /\ \A d \in Cores : /\ Good(up[d]) /\ up[d].lock = um[d] /\ Fits(up[d], L1Index, L1Assoc)
                      /\ Cardinality(um[d]) <= L1Mshrs
                      /\ \A x \in Held(up[d]) : Owner[x] = d
  /\ \A x \in qm : x \in um[Owner[x]]

SoundInv == Sound(l1, l1_mshr, llc, llc_mshr)

Nested == \A d \in Cores : Held(l1[d]) \subseteq Held(llc)

\* Whatever is awaited will be answered: by a memory if the LLC awaits it, else
\* from the hit list.
AnswersInv ==
  /\ \A x \in llc_mshr : AtMemory(x)
  /\ \A d \in Cores : \A x \in l1_mshr[d] : InHitList(x) \/ x \in llc_mshr
  /\ \A x \in loads : InHitList(x) \/ x \in l1_mshr[Owner[x]]

\* The other variables' types.
RestType ==
  /\ hit_list \in SUBSET [ln : Lines, left : Nat \ {0}]
  /\ wait_list \in [Requests -> Nat] /\ in_memory \in [Lines -> Nat]
  /\ loads \in SUBSET Lines /\ unsaved \in SUBSET Lines
  /\ turn \in 0..NCores /\ reqs \in 0..MaxReqs /\ invs \in 0..MaxInvs

IInv == SoundInv /\ Nested /\ WritesKept /\ AnswersInv /\ RestType /\ asserts = TRUE

(***************************************************************************)
(* The operations on the lines of one cache.                               *)
(***************************************************************************)
\* What a cache holds is a set of lines, and a finite one.
LEMMA HeldFinite ==
  ASSUME NEW q \in Caches
  PROVE  Held(q) \in SUBSET Lines /\ IsFiniteSet(Held(q))
<1> DEFINE s == q.order
           f == [i \in 1..Len(s) |-> s[i]]
<1>1. s \in Seq(Lines) /\ Len(s) \in Nat
  BY DEF Caches
<1>2. Held(q) = ToSet(s)
  BY DEF Held
<1> HIDE DEF s
<1>3. f \in Surjection(1..Len(s), Held(q))
  BY <1>1, <1>2, ElementsSet DEF Surjection
<1>4. IsFiniteSet(1..Len(s))
  BY <1>1, FS_Interval
<1>5. Held(q) \in SUBSET Lines
  BY <1>1, <1>2, ElementsSet
<1> QED
  BY <1>3, <1>4, <1>5, FS_Surjection

\* A line that is taken out is gone with its bits.
LEMMA WithoutProps ==
  ASSUME NEW q, Good(q), NEW v
  PROVE  /\ Good(Without(q, v)) /\ Held(Without(q, v)) = Held(q) \ {v}
         /\ Without(q, v).lock = q.lock \ {v} /\ Without(q, v).dirty = q.dirty \ {v}
<1> DEFINE s == q.order
           r == Dropped(s, v)
           w == Without(q, v)
<1>1. /\ s \in Seq(Lines) /\ NoRepeats(s) /\ q.lock \in SUBSET Lines /\ q.dirty \in SUBSET Lines
  BY DEF Good, Caches
<1>2. Held(q) = ToSet(s)
  BY DEF Held
<1>3. w = [order |-> r, lock |-> q.lock \ {v}, dirty |-> q.dirty \ {v}]
  BY DEF Without
<1> HIDE DEF s, w
<1>4. /\ r \in Seq(Lines) /\ NoRepeats(r)
      /\ ToSet(r) = ToSet(s) \ {v}
  BY <1>1, DroppedProps
<1> HIDE DEF r
<1>5. w.order = r /\ w.lock = q.lock \ {v} /\ w.dirty = q.dirty \ {v}
  BY <1>3
<1>6. Held(w) = ToSet(r)
  BY <1>5 DEF Held
<1>7. Held(w) = Held(q) \ {v}
  BY <1>2, <1>4, <1>6
<1>8. w \in Caches
  BY <1>1, <1>4, <1>3 DEF Caches
<1>9. Good(w)
  BY <1>4, <1>2, <1>5, <1>6, <1>7, <1>8 DEF Good
<1> QED
  BY <1>2, <1>5, <1>6, <1>7, <1>9 DEF w

\* The dirty bits a cache can get.
LEMMA WithDirtyProps ==
  ASSUME NEW q, NEW v, NEW d \in BOOLEAN
  PROVE  /\ WithDirty(q, v, d) \subseteq q.dirty \cup {v} /\ q.dirty \subseteq WithDirty(q, v, d)
         /\ d => v \in WithDirty(q, v, d)
BY DEF WithDirty

\* A line that is hit, or that an L1 has evicted into the LLC, stays or comes in
\* and is unlocked.
LEMMA RenewedProps ==
  ASSUME NEW q, Good(q), NEW v \in Lines, NEW d \in BOOLEAN
  PROVE  /\ Good(Renewed(q, v, d)) /\ Held(Renewed(q, v, d)) = Held(q) \cup {v}
         /\ Renewed(q, v, d).lock = q.lock \ {v}
         /\ Renewed(q, v, d).dirty = WithDirty(q, v, d)
<1> DEFINE s == q.order
           r == Touched(s, v)
           w == Renewed(q, v, d)
<1>1. /\ s \in Seq(Lines) /\ NoRepeats(s) /\ q.lock \in SUBSET Lines /\ q.dirty \in SUBSET Lines
  BY DEF Good, Caches
<1>2. Held(q) = ToSet(s)
  BY DEF Held
<1>3. w = [order |-> r, lock |-> q.lock \ {v}, dirty |-> WithDirty(q, v, d)]
  BY DEF Renewed
<1> HIDE DEF s, w
<1>4. /\ r \in Seq(Lines) /\ NoRepeats(r)
      /\ ToSet(r) = ToSet(s) \cup {v}
  BY <1>1, TouchedProps
<1> HIDE DEF r
<1>5. w.order = r /\ w.lock = q.lock \ {v} /\ w.dirty = WithDirty(q, v, d)
  BY <1>3
<1>6. Held(w) = ToSet(r)
  BY <1>5 DEF Held
<1>7. Held(w) = Held(q) \cup {v}
  BY <1>2, <1>4, <1>6
<1>8. WithDirty(q, v, d) \in SUBSET Lines /\ WithDirty(q, v, d) \subseteq Held(w)
  <2>1. WithDirty(q, v, d) \subseteq q.dirty \cup {v}
    BY WithDirtyProps
  <2>2. Held(w) = Held(q) \cup {v} /\ q.dirty \subseteq Held(q)
    BY <1>2, <1>6, <1>7 DEF Good
  <2> QED BY <1>1, <2>1, <2>2
<1>9. w \in Caches
  BY <1>1, <1>4, <1>3, <1>8 DEF Caches
<1>10. Good(w)
  BY <1>4, <1>2, <1>5, <1>6, <1>7, <1>8, <1>9 DEF Good
<1> QED
  BY <1>2, <1>5, <1>6, <1>7, <1>10 DEF w

\* A new line comes in locked.
LEMMA AllocatedProps ==
  ASSUME NEW q, Good(q), NEW v \in Lines, v \notin Held(q), NEW d \in BOOLEAN
  PROVE  /\ Good(Allocated(q, v, d)) /\ Held(Allocated(q, v, d)) = Held(q) \cup {v}
         /\ Allocated(q, v, d).lock = q.lock \cup {v}
         /\ Allocated(q, v, d).dirty = WithDirty(q, v, d)
<1> DEFINE s == q.order
           r == Append(s, v)
           w == Allocated(q, v, d)
<1>1. /\ s \in Seq(Lines) /\ NoRepeats(s) /\ q.lock \in SUBSET Lines /\ q.dirty \in SUBSET Lines
  BY DEF Good, Caches
<1>2. Held(q) = ToSet(s)
  BY DEF Held
<1>3. w = [order |-> r, lock |-> q.lock \cup {v}, dirty |-> WithDirty(q, v, d)]
  BY DEF Allocated
<1> HIDE DEF s, w
<1>4. /\ r \in Seq(Lines) /\ Len(r) = Len(s) + 1 /\ r[Len(r)] = v /\ Len(s) \in Nat
      /\ \A i \in 1..Len(s) : i \in 1..Len(r) /\ r[i] = s[i]
  BY <1>1
<1> HIDE DEF r
<1>5. \A i \in 1..Len(r) : i = Len(r) \/ i \in 1..Len(s)
  BY <1>4
<1>6. \A i \in 1..Len(s) : s[i] # v
  BY <1>1, <1>2, ElementsSet
<1>7. NoRepeats(r)
  <2> SUFFICES ASSUME NEW i \in 1..Len(r), NEW j \in 1..Len(r), r[i] = r[j]
               PROVE  i = j
    BY DEF NoRepeats
  <2>1. CASE i \in 1..Len(s) /\ j \in 1..Len(s)
    BY <1>1, <1>4, <2>1 DEF NoRepeats
  <2>2. CASE i = Len(r) \/ j = Len(r)
    BY <1>4, <1>5, <1>6, <2>2
  <2> QED BY <1>5, <2>1, <2>2
<1>8. w.order = r /\ w.lock = q.lock \cup {v} /\ w.dirty = WithDirty(q, v, d)
  BY <1>3
<1>9. Held(w) = ToSet(r)
  BY <1>8 DEF Held
<1>10. Len(r) \in 1..Len(r)
  BY <1>4
<1>11. ToSet(r) = ToSet(s) \cup {v}
  BY <1>1, <1>4, <1>5, <1>10, ElementsSet
<1>12. WithDirty(q, v, d) \in SUBSET Lines /\ WithDirty(q, v, d) \subseteq Held(w)
  <2>1. WithDirty(q, v, d) \subseteq q.dirty \cup {v}
    BY WithDirtyProps
  <2>2. Held(w) = Held(q) \cup {v} /\ q.dirty \subseteq Held(q)
    BY <1>2, <1>9, <1>11 DEF Good
  <2> QED BY <1>1, <2>1, <2>2
<1>13. w \in Caches
  BY <1>1, <1>3, <1>4, <1>12 DEF Caches
<1>14. Good(w)
  BY <1>2, <1>7, <1>8, <1>9, <1>11, <1>12, <1>13 DEF Good
<1> QED
  BY <1>2, <1>8, <1>9, <1>11, <1>14 DEF w

\* An answer takes locks away and nothing else.
LEMMA UnlockProps ==
  ASSUME NEW q, Good(q), NEW S
  PROVE  /\ Good(Unlock(q, S)) /\ Held(Unlock(q, S)) = Held(q)
         /\ Unlock(q, S).lock = q.lock \ S /\ Unlock(q, S).dirty = q.dirty
<1> DEFINE w == Unlock(q, S)
<1>1. q \in Caches /\ q.lock \in SUBSET Lines
  BY DEF Good, Caches
<1>2. /\ w \in Caches /\ w.order = q.order /\ w.lock = q.lock \ S /\ w.dirty = q.dirty
  BY <1>1 DEF Unlock, Caches
<1>3. Held(w) = Held(q)
  BY <1>2 DEF Held
<1> QED
  BY <1>2, <1>3 DEF Good
(***************************************************************************)
(* The sizes of the sets.                                                  *)
(***************************************************************************)
\* A set that loses lines still fits.
LEMMA FitsFewer ==
  ASSUME NEW index, NEW assoc \in Nat, NEW p, NEW q \in Caches, Fits(q, index, assoc),
         Held(p) \subseteq Held(q)
  PROVE  Fits(p, index, assoc)
<1> SUFFICES ASSUME NEW k \in Lines
             PROVE  Cardinality(SameSet(p, k, index)) <= assoc
  BY DEF Fits
<1>1. SameSet(p, k, index) \subseteq SameSet(q, k, index)
  BY DEF SameSet
<1>2. IsFiniteSet(SameSet(q, k, index))
  <2>1. IsFiniteSet(Held(q)) /\ SameSet(q, k, index) \subseteq Held(q)
    BY HeldFinite DEF SameSet
  <2> QED BY <2>1, FS_Subset
<1>3. /\ IsFiniteSet(SameSet(p, k, index))
      /\ Cardinality(SameSet(p, k, index)) <= Cardinality(SameSet(q, k, index))
  BY <1>1, <1>2, FS_Subset
<1>4. Cardinality(SameSet(q, k, index)) <= assoc
  BY DEF Fits
<1> QED
  BY <1>2, <1>3, <1>4, FS_CardinalityType

\* One line v, if it is of the set, makes room for the new line w.
LEMMA FitsReplaced ==
  ASSUME NEW index, NEW assoc \in Nat, NEW q \in Caches, Fits(q, index, assoc),
         NEW w \in Lines, w \notin Held(q), NEW p,
         \/ ~ Full(q, w, index, assoc) /\ Held(p) = Held(q) \cup {w}
         \/ \E v \in SameSet(q, w, index) : Held(p) = (Held(q) \ {v}) \cup {w}
  PROVE  Fits(p, index, assoc)
<1> SUFFICES ASSUME NEW k \in Lines
             PROVE  Cardinality(SameSet(p, k, index)) <= assoc
  BY DEF Fits
<1> DEFINE Q == SameSet(q, k, index)
           P == SameSet(p, k, index)
<1>1. IsFiniteSet(Q) /\ Cardinality(Q) \in Nat /\ Cardinality(Q) <= assoc
  <2>1. IsFiniteSet(Held(q)) /\ Q \subseteq Held(q)
    BY HeldFinite DEF SameSet
  <2> QED BY <2>1, FS_Subset, FS_CardinalityType DEF Fits
<1>2. CASE index[w] # index[k]
  <2>1. P \subseteq Q
    BY <1>2 DEF SameSet
  <2>2. IsFiniteSet(P) /\ Cardinality(P) <= Cardinality(Q)
    BY <1>1, <2>1, FS_Subset
  <2>3. Cardinality(P) \in Nat
    BY <2>2, FS_CardinalityType
  <2> QED BY <1>1, <2>2, <2>3
<1>3. CASE index[w] = index[k] /\ ~ Full(q, w, index, assoc) /\ Held(p) = Held(q) \cup {w}
  <2>1. SameSet(q, w, index) = Q /\ P = Q \cup {w}
    BY <1>3 DEF SameSet
  <2>2. Cardinality(Q) < assoc
    BY <1>1, <1>3, <2>1 DEF Full
  <2>3. Cardinality(Q \cup {w}) <= Cardinality(Q) + 1 /\ Cardinality(Q \cup {w}) \in Nat
    <3>1. /\ IsFiniteSet(Q \cup {w})
          /\ Cardinality(Q \cup {w}) = IF w \in Q THEN Cardinality(Q) ELSE Cardinality(Q) + 1
      BY <1>1, FS_AddElement
    <3> QED BY <1>1, <3>1
  <2> QED BY <1>1, <2>1, <2>2, <2>3
<1>4. ASSUME index[w] = index[k],
             NEW v \in SameSet(q, w, index), Held(p) = (Held(q) \ {v}) \cup {w}
      PROVE  Cardinality(P) <= assoc
  <2>1. v \in Q /\ P = (Q \ {v}) \cup {w} /\ w \notin Q \ {v}
    BY <1>4 DEF SameSet
  <2>2. IsFiniteSet(Q \ {v}) /\ Cardinality(Q \ {v}) = Cardinality(Q) - 1
    BY <1>1, <2>1, FS_RemoveElement
  <2>3. Cardinality((Q \ {v}) \cup {w}) = Cardinality(Q \ {v}) + 1
    BY <2>1, <2>2, FS_AddElement
  <2> QED BY <1>1, <2>1, <2>2, <2>3
<1> QED
  BY <1>2, <1>3, <1>4

\* N sets of at most K elements have at most N * K together.
LEMMA Together ==
  ASSUME NEW N \in Nat, NEW K \in Nat, NEW F,
         \A i \in 1..N : IsFiniteSet(F[i]) /\ Cardinality(F[i]) <= K,
         NEW U, \A x \in U : \E i \in 1..N : x \in F[i]
  PROVE  IsFiniteSet(U) /\ Cardinality(U) <= N * K
<1> DEFINE place == [i \in 1..N |-> CHOOSE f : f \in Injection(F[i], 1..K)]
           whose == [x \in U |-> CHOOSE i \in 1..N : x \in F[i]]
           at == [x \in U |-> <<whose[x], place[whose[x]][x]>>]
<1>1. \A i \in 1..N : place[i] \in Injection(F[i], 1..K)
  <2> SUFFICES ASSUME NEW i \in 1..N
               PROVE  \E f : f \in Injection(F[i], 1..K)
    BY Zenon
  <2> DEFINE n == Cardinality(F[i])
  <2>1. n \in Nat /\ n <= K /\ ExistsBijection(1..n, F[i])
    BY FS_CardinalityType
  <2> HIDE DEF n
  <2>2. PICK g : g \in Bijection(1..n, F[i])
    BY <2>1 DEF ExistsBijection
  <2> DEFINE h == [y \in F[i] |-> CHOOSE m \in 1..n : g[m] = y]
  <2>3. \A y \in F[i] : h[y] \in 1..n /\ g[h[y]] = y
    BY <2>2 DEF Bijection, Surjection
  <2>4. h \in Injection(F[i], 1..K)
    <3>1. h \in [F[i] -> 1..K]
      <4>1. \A m \in 1..n : m \in 1..K
        BY <2>1
      <4>2. \A y \in F[i] : h[y] \in 1..K
        BY <2>3, <4>1
      <4> QED BY <4>2
    <3>2. \A y, z \in F[i] : h[y] = h[z] => y = z
      BY <2>3
    <3>3. DOMAIN h = F[i]
      OBVIOUS
    <3> HIDE DEF h
    <3> QED BY <3>1, <3>2, <3>3 DEF Injection, IsInjective
  <2> QED BY <2>4
<1>2. \A x \in U : whose[x] \in 1..N /\ x \in F[whose[x]]
  OBVIOUS
<1> HIDE DEF place, whose
<1>3. \A x \in U : place[whose[x]][x] \in 1..K
  BY <1>1, <1>2 DEF Injection
<1>4. at \in Injection(U, (1..N) \X (1..K))
  <2>1. at \in [U -> (1..N) \X (1..K)]
    BY <1>2, <1>3
  <2>2. ASSUME NEW x \in U, NEW y \in U, at[x] = at[y]
        PROVE  x = y
    <3>1. whose[x] = whose[y] /\ place[whose[x]][x] = place[whose[x]][y]
      BY <2>2
    <3>2. x \in F[whose[x]] /\ y \in F[whose[x]]
      BY <1>2, <3>1
    <3> QED BY <1>1, <1>2, <3>1, <3>2 DEF Injection, IsInjective
  <2>3. DOMAIN at = U
    OBVIOUS
  <2> HIDE DEF at
  <2> QED BY <2>1, <2>2, <2>3 DEF Injection, IsInjective
<1>5. /\ IsFiniteSet((1..N) \X (1..K))
      /\ Cardinality((1..N) \X (1..K)) = N * K
  <2>1. /\ IsFiniteSet(1..N) /\ Cardinality(1..N) = N
        /\ IsFiniteSet(1..K) /\ Cardinality(1..K) = K
    <3>1. \A n \in Nat : IsFiniteSet(1..n) /\ Cardinality(1..n) = n
      <4> TAKE n \in Nat
      <4>1. /\ IsFiniteSet(1..n)
            /\ Cardinality(1..n) = IF 1 > n THEN 0 ELSE n - 1 + 1
        BY ONLY n \in Nat, FS_Interval
      <4> QED BY <4>1
    <3> QED BY <3>1
  <2> DEFINE I == 1..N
             J == 1..K
  <2>2. IsFiniteSet(I) /\ IsFiniteSet(J)
    BY <2>1
  <2>3. IsFiniteSet(I \X J) /\ Cardinality(I \X J) = Cardinality(I) * Cardinality(J)
    <3> HIDE DEF I, J
    <3> QED BY ONLY <2>2, FS_Product
  <2> QED BY <2>1, <2>3
<1> HIDE DEF at
<1>6. IsFiniteSet(U) /\ Cardinality(U) <= Cardinality((1..N) \X (1..K))
  BY <1>4, <1>5, FS_Injection
<1> QED
  BY <1>5, <1>6
(***************************************************************************)
(* A miss: the L1s have become up, the LLC q, and the lines not yet        *)
(* written back uns, when the LLC is asked for line l by core c.           *)
(***************************************************************************)
Asked(c, l) == [l1_mshr EXCEPT ![c] = @ \cup {l}]

Midway(c, l, up, q, uns) ==
  /\ Sound(up, Asked(c, l), q, llc_mshr)
  /\ l1_mshr \in [Cores -> SUBSET Lines] /\ Owner[l] = c /\ l \notin llc_mshr
  /\ \A d \in Cores : Held(up[d]) \subseteq Held(q) \cup {l}
  /\ uns \in SUBSET Lines /\ \A x \in uns : DirtyAnywhere(q, up, x)

\* The LLC's MSHR entries are no more than those of the L1s, so that an L1 that
\* has one has one of the LLC's.
LEMMA MshrFree ==
  ASSUME NEW c \in Cores, NEW l \in Lines, NEW up, NEW q, NEW uns, Midway(c, l, up, q, uns)
  PROVE  Cardinality(llc_mshr) # LlcMshrs
<1> DEFINE um == Asked(c, l)
           U == llc_mshr \cup {l}
<1>1. NCores \in Nat /\ Cores = 1..NCores /\ Owner \in [Lines -> Cores]
  BY CoreAssumption DEF Cores
<1>2. L1Mshrs \in Nat /\ LlcMshrs \in Nat /\ NCores * L1Mshrs <= LlcMshrs
  BY <1>1, SizeAssumption, MshrAssumption
<1>3. /\ up \in [Cores -> Caches] /\ um \in [Cores -> SUBSET Lines] /\ l \in um[c]
      /\ llc_mshr \in SUBSET Lines /\ Owner[l] = c /\ l \notin llc_mshr
      /\ \A d \in Cores : /\ Good(up[d]) /\ up[d].lock = um[d] /\ Cardinality(um[d]) <= L1Mshrs
      /\ \A x \in llc_mshr : x \in um[Owner[x]]
      /\ Good(q) /\ q.lock = llc_mshr
  BY DEF Midway, Sound, Asked
<1> HIDE DEF um
<1>4. ASSUME NEW d \in Cores
      PROVE  IsFiniteSet(um[d]) /\ Cardinality(um[d]) <= L1Mshrs
  <2>1. up[d] \in Caches /\ um[d] \subseteq Held(up[d])
    BY <1>3 DEF Good
  <2>2. IsFiniteSet(Held(up[d]))
    BY <2>1, HeldFinite
  <2>3. IsFiniteSet(um[d])
    BY <2>1, <2>2, FS_Subset
  <2> QED BY <1>3, <2>3
<1>5. \A x \in U : \E d \in 1..NCores : x \in um[d]
  BY <1>1, <1>3
<1>6. IsFiniteSet(U) /\ Cardinality(U) <= NCores * L1Mshrs
  BY <1>1, <1>2, <1>4, <1>5, Together
<1>7. IsFiniteSet(llc_mshr)
  BY <1>6, FS_Subset
<1>8. Cardinality(U) = Cardinality(llc_mshr) + 1 /\ Cardinality(llc_mshr) \in Nat
  BY <1>3, <1>7, FS_AddElement, FS_CardinalityType
<1>9. NCores * L1Mshrs \in Nat
  BY <1>1, <1>2
<1> QED
  BY <1>2, <1>6, <1>8, <1>9

\* If every line of a full set of the LLC were locked somewhere, the L1s would
\* hold them all and the new line besides, in one set each.
LEMMA VictimThere ==
  ASSUME NEW c \in Cores, NEW l \in Lines, NEW up, NEW q, NEW uns, Midway(c, l, up, q, uns),
         EnoughWays, l \notin Held(q), Full(q, l, LlcIndex, LlcAssoc)
  PROVE  LlcVictims(q, up, l) # {}
<1> SUFFICES ASSUME LlcVictims(q, up, l) = {}
             PROVE  FALSE
  OBVIOUS
<1> DEFINE um == Asked(c, l)
           F == [d \in Cores |-> SameSet(up[d], l, L1Index)]
           T == SameSet(q, l, LlcIndex)
           U == T \cup {l}
<1>1. NCores \in Nat /\ Cores = 1..NCores /\ Owner \in [Lines -> Cores]
  BY CoreAssumption DEF Cores
<1>2. L1Assoc \in Nat /\ LlcAssoc \in Nat /\ NCores * L1Assoc <= LlcAssoc
  BY <1>1, SizeAssumption DEF EnoughWays
<1>3. /\ up \in [Cores -> Caches] /\ um \in [Cores -> SUBSET Lines] /\ l \in um[c]
      /\ \A d \in Cores : /\ Good(up[d]) /\ up[d].lock = um[d] /\ Fits(up[d], L1Index, L1Assoc)
      /\ \A x \in llc_mshr : x \in um[Owner[x]]
      /\ Good(q) /\ q.lock = llc_mshr
  BY DEF Midway, Sound, Asked
<1> HIDE DEF um
<1>4. Held(q) \in SUBSET Lines /\ IsFiniteSet(Held(q))
  BY <1>3, HeldFinite DEF Good
<1>5. \A d \in Cores : IsFiniteSet(F[d]) /\ Cardinality(F[d]) <= L1Assoc
  <2> TAKE d \in Cores
  <2>1. up[d] \in Caches /\ F[d] \subseteq Held(up[d]) /\ Cardinality(F[d]) <= L1Assoc
    BY <1>3 DEF Good, Fits, SameSet
  <2>2. IsFiniteSet(Held(up[d]))
    BY <2>1, HeldFinite
  <2> QED BY <2>1, <2>2, FS_Subset
<1>6. \A x \in T : \E d \in Cores : x \in up[d].lock
  <2> TAKE x \in T
  <2>1. x \in Lines /\ (x \in q.lock \/ \E d \in Cores : x \in up[d].lock)
    BY <1>4 DEF LlcVictims, Unlocked, SameSet
  <2> QED BY <1>1, <1>3, <2>1
<1>7. \A x \in U : \E d \in 1..NCores : x \in F[d]
  <2> TAKE x \in U
  <2>1. PICK d \in Cores : x \in up[d].lock
    BY <1>3, <1>6
  <2>2. x \in Lines /\ LlcIndex[x] = LlcIndex[l]
    BY <1>4 DEF SameSet
  <2>3. x \in Held(up[d]) /\ L1Index[x] = L1Index[l]
    BY <1>3, <2>1, <2>2 DEF Good, EnoughWays
  <2> QED BY <1>1, <2>3 DEF SameSet
<1>8. IsFiniteSet(T) /\ l \notin T
  <2>1. T \subseteq Held(q)
    BY DEF SameSet
  <2> QED BY <1>4, <2>1, FS_Subset
<1>9. LlcAssoc <= Cardinality(T)
  BY DEF Full
<1> HIDE DEF F, T
<1>10. Cardinality(U) <= NCores * L1Assoc
  BY <1>1, <1>2, <1>5, <1>7, Together
<1>11. Cardinality(U) = Cardinality(T) + 1 /\ Cardinality(T) \in Nat
  BY <1>8, FS_AddElement, FS_CardinalityType
<1>12. NCores * L1Assoc \in Nat
  BY <1>1, <1>2
<1> QED
  BY <1>2, <1>9, <1>10, <1>11, <1>12

\* The LLC, which an L1 does not ask whether it accepts, always does.
LEMMA NeverRefused ==
  ASSUME NEW c \in Cores, NEW l \in Lines, NEW up, NEW q, NEW uns, Midway(c, l, up, q, uns),
         EnoughWays, ~ Hit(q, l)
  PROVE  l \notin Held(q) /\ ~ LlcRefuses(l, up, q)
<1>1. l \notin Held(q)
  BY DEF Hit, Midway, Sound
<1> QED
  BY <1>1, MshrFree, VictimThere DEF LlcRefuses
(***************************************************************************)
(* The LLC's part of a miss, from such a state.                            *)
(***************************************************************************)
\* What one new request does to the wait list.
LEMMA QueuedProps ==
  ASSUME NEW w \in [Requests -> Nat], NEW r \in Requests
  PROVE  /\ [w EXCEPT ![r] = @ + 1] \in [Requests -> Nat]
         /\ [w EXCEPT ![r] = @ + 1][r] > 0
         /\ \A s \in Requests : [w EXCEPT ![r] = @ + 1][s] >= w[s]
OBVIOUS

\* A line that stays in no cache but v's loses no dirty copy.
LEMMA DirtyKept ==
  ASSUME NEW up, NEW q, NEW v, NEW p, p.dirty = q.dirty \ {v},
         NEW x, x # v, DirtyAnywhere(q, up, x), \A d \in Cores : Good(up[d])
  PROVE  DirtyAnywhere(p, Invalidated(up, v), x)
<1>1. CASE x \in q.dirty
  BY <1>1 DEF DirtyAnywhere
<1>2. ASSUME NEW d \in Cores, x \in up[d].dirty
      PROVE  DirtyAnywhere(p, Invalidated(up, v), x)
  <2>1. Invalidated(up, v)[d] = Without(up[d], v)
    BY DEF Invalidated
  <2>2. x \in Without(up[d], v).dirty
    BY <1>2, WithoutProps
  <2> QED BY <2>1, <2>2 DEF DirtyAnywhere
<1> QED
  BY <1>1, <1>2 DEF DirtyAnywhere

\* The sets the lines are in, while the L1s lose a line that none has locked.
LEMMA InvalidatedProps ==
  ASSUME NEW up \in [Cores -> Caches], NEW v, \A d \in Cores : Good(up[d]) /\ v \notin up[d].lock
  PROVE  /\ Invalidated(up, v) \in [Cores -> Caches]
         /\ \A d \in Cores : /\ Good(Invalidated(up, v)[d])
                             /\ Invalidated(up, v)[d].lock = up[d].lock
                             /\ Held(Invalidated(up, v)[d]) = Held(up[d]) \ {v}
<1>1. \A d \in Cores : Invalidated(up, v)[d] = Without(up[d], v)
  BY DEF Invalidated
<1>2. \A d \in Cores : Without(up[d], v) \in Caches
  BY WithoutProps DEF Good
<1>3. Invalidated(up, v) \in [Cores -> Caches]
  BY <1>2 DEF Invalidated
<1>4. ASSUME NEW d \in Cores
      PROVE  /\ Good(Invalidated(up, v)[d])
             /\ Invalidated(up, v)[d].lock = up[d].lock
             /\ Held(Invalidated(up, v)[d]) = Held(up[d]) \ {v}
  <2>1. Good(up[d]) /\ up[d] \in Caches /\ v \notin up[d].lock
    BY <1>4
  <2>2. /\ Good(Without(up[d], v)) /\ Held(Without(up[d], v)) = Held(up[d]) \ {v}
        /\ Without(up[d], v).lock = up[d].lock \ {v}
    BY <2>1, WithoutProps
  <2>3. up[d].lock \ {v} = up[d].lock
    BY <2>1 DEF Caches
  <2> QED BY <1>1, <2>2, <2>3
<1> QED
  BY <1>3, <1>4

\* The L1s may lose lines, one of the LLC's sets may change as long as it fits.
LEMMA SoundKept ==
  ASSUME NEW up, NEW um, NEW q, NEW qm, Sound(up, um, q, qm),
         NEW vp \in [Cores -> Caches], NEW p, NEW pm \in SUBSET Lines,
         \A d \in Cores : /\ Good(vp[d]) /\ vp[d].lock = up[d].lock
                          /\ Held(vp[d]) \subseteq Held(up[d]),
         Good(p), p.lock = pm, Fits(p, LlcIndex, LlcAssoc),
         \A x \in pm : x \in um[Owner[x]]
  PROVE  Sound(vp, um, p, pm)
<1>1. \A d \in Cores : Fits(vp[d], L1Index, L1Assoc)
  <2> TAKE d \in Cores
  <2>1. up[d] \in Caches /\ Fits(up[d], L1Index, L1Assoc) /\ Held(vp[d]) \subseteq Held(up[d])
    BY DEF Sound
  <2>2. L1Assoc \in Nat
    BY SizeAssumption
  <2> QED BY <2>1, <2>2, FitsFewer
<1>2. /\ um \in [Cores -> SUBSET Lines]
      /\ \A d \in Cores : /\ up[d].lock = um[d] /\ Cardinality(um[d]) <= L1Mshrs
                          /\ \A x \in Held(up[d]) : Owner[x] = d
  BY DEF Sound
<1>3. \A d \in Cores : /\ Good(vp[d]) /\ vp[d].lock = um[d] /\ Fits(vp[d], L1Index, L1Assoc)
                      /\ Cardinality(um[d]) <= L1Mshrs
                      /\ \A x \in Held(vp[d]) : Owner[x] = d
  <2> TAKE d \in Cores
  <2>1. \A x \in Held(vp[d]) : Owner[x] = d
    BY <1>2
  <2> QED BY <1>1, <1>2, <2>1
<1> QED
  BY <1>2, <1>3 DEF Sound
\* The four ways the LLC can answer keep the hierarchy, and the line asked for is
\* in the hit list or asked for at a memory.
LEMMA LlcSendKeeps ==
  ASSUME EnoughWays, RestType,
         NEW c \in Cores, NEW l \in Lines, NEW up, NEW q, NEW uns, Midway(c, l, up, q, uns),
         LlcSend(l, up, q, uns, TRUE), l1_mshr' = Asked(c, l)
  PROVE  /\ Sound(l1', l1_mshr', llc', llc_mshr') /\ asserts' = TRUE
         /\ \A d \in Cores : Held(l1'[d]) \subseteq Held(llc')
         /\ unsaved' \in SUBSET Lines /\ \A x \in unsaved' : DirtyAnywhere(llc', l1', x)
         /\ hit_list' \in SUBSET [ln : Lines, left : Nat \ {0}] /\ hit_list \subseteq hit_list'
         /\ wait_list' \in [Requests -> Nat]
         /\ \A r \in Requests : wait_list'[r] >= wait_list[r]
         /\ llc_mshr \subseteq llc_mshr'
         /\ \A x \in llc_mshr' : x \in llc_mshr \/ wait_list'[Request("READ", x)] > 0
         /\ l \in llc_mshr' \/ \E h \in hit_list' : h.ln = l
<1> DEFINE um == Asked(c, l)
<1>1. /\ up \in [Cores -> Caches] /\ l \in um[c]
      /\ llc_mshr \in SUBSET Lines /\ Owner[l] = c /\ l \notin llc_mshr
      /\ \A d \in Cores : /\ Good(up[d]) /\ up[d].lock = um[d]
                          /\ Held(up[d]) \subseteq Held(q) \cup {l}
      /\ \A x \in llc_mshr : x \in um[Owner[x]]
      /\ Good(q) /\ q \in Caches /\ q.lock = llc_mshr /\ Fits(q, LlcIndex, LlcAssoc)
      /\ uns \in SUBSET Lines /\ \A x \in uns : DirtyAnywhere(q, up, x)
      /\ Sound(up, um, q, llc_mshr)
  BY DEF Midway, Sound, Asked, Good
<1> HIDE DEF um
<1>2. LlcAssoc \in Nat /\ LlcLat \in Nat \ {0}
  BY SizeAssumption
<1>3. /\ wait_list \in [Requests -> Nat]
      /\ hit_list \in SUBSET [ln : Lines, left : Nat \ {0}]
  BY DEF RestType
<1>4. \A x \in Lines, t \in {"READ", "WRITE"} : Request(t, x) \in Requests
  BY DEF Request, Requests
<1>5. l1_mshr' = um
  BY DEF um
<1>6. CASE Hit(q, l)
  <2>1. /\ llc' = Renewed(q, l, FALSE) /\ l1' = up /\ unsaved' = uns /\ asserts' = TRUE
        /\ hit_list' = hit_list \cup {[ln |-> l, left |-> LlcLat]}
        /\ llc_mshr' = llc_mshr /\ wait_list' = wait_list
    BY <1>6 DEF LlcSend
  <2>2. l \in Held(q)
    BY <1>6 DEF Hit
  <2>3. /\ Good(llc') /\ Held(llc') = Held(q) /\ llc'.lock = llc_mshr /\ llc'.dirty = q.dirty
    <3>1. /\ Good(llc') /\ Held(llc') = Held(q) \cup {l} /\ llc'.lock = q.lock \ {l}
          /\ llc'.dirty = WithDirty(q, l, FALSE)
      BY <1>1, <2>1, RenewedProps
    <3>2. q.lock \ {l} = llc_mshr
      BY <1>1
    <3> QED BY <2>2, <3>1, <3>2 DEF WithDirty
  <2>4. Fits(llc', LlcIndex, LlcAssoc)
    BY <1>1, <1>2, <2>3, FitsFewer
  <2>5. Sound(l1', l1_mshr', llc', llc_mshr')
    <3>1. /\ Sound(up, um, q, llc_mshr) /\ up \in [Cores -> Caches] /\ llc_mshr \in SUBSET Lines
          /\ \A d \in Cores : /\ Good(up[d]) /\ up[d].lock = up[d].lock
                              /\ Held(up[d]) \subseteq Held(up[d])
          /\ \A x \in llc_mshr : x \in um[Owner[x]]
      BY <1>1
    <3>2. Sound(up, um, llc', llc_mshr)
      BY <2>3, <2>4, <3>1, SoundKept
    <3> QED BY <1>5, <2>1, <3>2
  <2>6. \A d \in Cores : Held(l1'[d]) \subseteq Held(llc')
    BY <1>1, <2>1, <2>2, <2>3
  <2>7. \A x \in unsaved' : DirtyAnywhere(llc', l1', x)
    BY <1>1, <2>1, <2>3 DEF DirtyAnywhere
  <2>8. /\ hit_list' \in SUBSET [ln : Lines, left : Nat \ {0}] /\ hit_list \subseteq hit_list'
        /\ \E h \in hit_list' : h.ln = l
    <3>1. [ln |-> l, left |-> LlcLat] \in [ln : Lines, left : Nat \ {0}]
      BY <1>2
    <3>2. [ln |-> l, left |-> LlcLat].ln = l
      OBVIOUS
    <3> QED BY <1>3, <2>1, <3>1, <3>2
  <2>9. \A r \in Requests : wait_list'[r] >= wait_list[r]
    BY <1>3, <2>1
  <2> QED BY <1>1, <1>3, <2>1, <2>5, <2>6, <2>7, <2>8, <2>9
<1>7. CASE ~ Hit(q, l)
  <2>1. l \notin Held(q) /\ ~ LlcRefuses(l, up, q)
    BY <1>7, NeverRefused
  <2>2. /\ llc_mshr' = llc_mshr \cup {l} /\ LlcAllocate(l, up, q, uns)
        /\ asserts' = TRUE /\ hit_list' = hit_list
    BY <1>1, <1>7, <2>1 DEF LlcSend
  <2> DEFINE p(w) == Allocated(w, l, FALSE)
  <2>3. \A x \in llc_mshr' : x \in um[Owner[x]]
    BY <1>1, <2>2
  <2>4. llc_mshr' \in SUBSET Lines
    BY <1>1, <2>2
  <2>5. CASE /\ ~ Full(q, l, LlcIndex, LlcAssoc)
             /\ llc' = p(q) /\ l1' = up
             /\ wait_list' = Queued(Request("READ", l)) /\ unsaved' = uns
    <3>1. /\ Good(llc') /\ Held(llc') = Held(q) \cup {l} /\ llc'.lock = llc_mshr'
          /\ llc'.dirty = q.dirty
      <4>1. Good(q) /\ l \in Lines /\ l \notin Held(q) /\ FALSE \in BOOLEAN
        BY <1>1, <2>1
      <4>2. /\ Good(p(q)) /\ Held(p(q)) = Held(q) \cup {l} /\ p(q).lock = q.lock \cup {l}
            /\ p(q).dirty = WithDirty(q, l, FALSE)
        BY ONLY <4>1, AllocatedProps
      <4>3. WithDirty(q, l, FALSE) = q.dirty
        BY DEF WithDirty
      <4> HIDE DEF p
      <4> QED BY <1>1, <2>2, <2>5, <4>2, <4>3
    <3>2. Fits(llc', LlcIndex, LlcAssoc)
      BY <1>1, <1>2, <2>1, <2>5, <3>1, FitsReplaced
    <3>3. Sound(l1', l1_mshr', llc', llc_mshr')
      <4>1. /\ Sound(up, um, q, llc_mshr) /\ up \in [Cores -> Caches]
            /\ \A d \in Cores : /\ Good(up[d]) /\ up[d].lock = up[d].lock
                                /\ Held(up[d]) \subseteq Held(up[d])
        BY <1>1
      <4>2. Sound(up, um, llc', llc_mshr')
        BY <2>3, <2>4, <3>1, <3>2, <4>1, SoundKept
      <4> QED BY <1>5, <2>5, <4>2
    <3>4. \A d \in Cores : Held(l1'[d]) \subseteq Held(llc')
      BY <1>1, <2>5, <3>1
    <3>5. \A x \in unsaved' : DirtyAnywhere(llc', l1', x)
      BY <1>1, <2>5, <3>1 DEF DirtyAnywhere
    <3>6. /\ wait_list' \in [Requests -> Nat] /\ wait_list'[Request("READ", l)] > 0
          /\ \A r \in Requests : wait_list'[r] >= wait_list[r]
      BY <1>3, <1>4, <2>5, QueuedProps DEF Queued
    <3>7. \A x \in llc_mshr' : x \in llc_mshr \/ wait_list'[Request("READ", x)] > 0
      BY <2>2, <3>6
    <3> QED BY <1>1, <1>3, <2>2, <2>5, <3>3, <3>4, <3>5, <3>6, <3>7
  <2>6. ASSUME Full(q, l, LlcIndex, LlcAssoc),
               NEW v \in LeastRecent(q, LlcVictims(q, up, l)),
               llc' = p(Without(q, v)), l1' = Invalidated(up, v),
               wait_list' = [WriteBacks(q, up, v) EXCEPT ![Request("READ", l)] = @ + 1],
               unsaved' = StillUnsaved(q, up, v, uns)
        PROVE  /\ Sound(l1', l1_mshr', llc', llc_mshr') /\ asserts' = TRUE
               /\ \A d \in Cores : Held(l1'[d]) \subseteq Held(llc')
               /\ unsaved' \in SUBSET Lines /\ \A x \in unsaved' : DirtyAnywhere(llc', l1', x)
               /\ wait_list' \in [Requests -> Nat]
               /\ \A r \in Requests : wait_list'[r] >= wait_list[r]
               /\ \A x \in llc_mshr' : x \in llc_mshr \/ wait_list'[Request("READ", x)] > 0
    <3>1. /\ v \in SameSet(q, l, LlcIndex) /\ v \in Held(q) /\ v \notin q.lock /\ v # l
          /\ \A d \in Cores : v \notin up[d].lock
      BY <2>1, <2>6 DEF LeastRecent, LlcVictims, SameSet, Unlocked
    <3>2. v \in Lines
      BY <1>1, <3>1, HeldFinite
    <3>3. /\ Good(Without(q, v)) /\ Held(Without(q, v)) = Held(q) \ {v}
          /\ Without(q, v).lock = llc_mshr /\ Without(q, v).dirty = q.dirty \ {v}
      <4>1. q.lock \ {v} = llc_mshr
        BY <1>1, <3>1
      <4>2. /\ Good(Without(q, v)) /\ Held(Without(q, v)) = Held(q) \ {v}
            /\ Without(q, v).lock = q.lock \ {v} /\ Without(q, v).dirty = q.dirty \ {v}
        BY <1>1, WithoutProps
      <4> QED BY <4>1, <4>2
    <3>4. /\ Good(llc') /\ Held(llc') = (Held(q) \ {v}) \cup {l} /\ llc'.lock = llc_mshr'
          /\ llc'.dirty = q.dirty \ {v}
      <4> DEFINE w == Without(q, v)
      <4>1. Good(w) /\ l \notin Held(w)
        BY <2>1, <3>3
      <4>2. /\ Good(llc') /\ Held(llc') = Held(w) \cup {l} /\ llc'.lock = w.lock \cup {l}
            /\ llc'.dirty = WithDirty(w, l, FALSE)
        <5> HIDE DEF w
        <5> QED BY <2>6, <4>1, AllocatedProps DEF w
      <4>3. WithDirty(w, l, FALSE) = w.dirty
        BY DEF WithDirty
      <4> QED BY <2>2, <3>3, <4>2, <4>3
    <3>5. Fits(llc', LlcIndex, LlcAssoc)
      <4>1. \E u \in SameSet(q, l, LlcIndex) : Held(llc') = (Held(q) \ {u}) \cup {l}
        BY <3>1, <3>4
      <4>2. q \in Caches /\ Fits(q, LlcIndex, LlcAssoc)
        BY <1>1
      <4> QED BY <1>2, <2>1, <4>1, <4>2, FitsReplaced
    <3>6. /\ l1' \in [Cores -> Caches]
          /\ \A d \in Cores : /\ Good(l1'[d]) /\ l1'[d].lock = up[d].lock
                              /\ Held(l1'[d]) = Held(up[d]) \ {v}
      <4>1. /\ up \in [Cores -> Caches]
            /\ \A d \in Cores : Good(up[d]) /\ v \notin up[d].lock
        BY <1>1, <3>1
      <4>2. /\ Invalidated(up, v) \in [Cores -> Caches]
            /\ \A d \in Cores : /\ Good(Invalidated(up, v)[d])
                                /\ Invalidated(up, v)[d].lock = up[d].lock
                                /\ Held(Invalidated(up, v)[d]) = Held(up[d]) \ {v}
        BY <4>1, InvalidatedProps, Zenon
      <4>3. l1' = Invalidated(up, v)
        BY <2>6
      <4> QED BY <4>2, <4>3
    <3>7. Sound(l1', l1_mshr', llc', llc_mshr')
      <4>1. \A d \in Cores : /\ Good(l1'[d]) /\ l1'[d].lock = up[d].lock
                             /\ Held(l1'[d]) \subseteq Held(up[d])
        BY <3>6
      <4> QED BY <1>1, <1>5, <2>3, <2>4, <3>4, <3>5, <3>6, <4>1, SoundKept
    <3>8. \A d \in Cores : Held(l1'[d]) \subseteq Held(llc')
      BY <1>1, <3>1, <3>4, <3>6
    <3>9. unsaved' \in SUBSET Lines /\ \A x \in unsaved' : x \in uns /\ x # v
      BY <1>1, <2>6 DEF StillUnsaved
    <3>10. \A x \in unsaved' : DirtyAnywhere(llc', l1', x)
      <4> TAKE x \in unsaved'
      <4>1. x \in uns /\ x # v /\ DirtyAnywhere(q, up, x)
        BY <1>1, <3>9
      <4> QED BY <1>1, <2>6, <3>4, <4>1, DirtyKept
    <3>11. /\ WriteBacks(q, up, v) \in [Requests -> Nat]
           /\ \A r \in Requests : WriteBacks(q, up, v)[r] >= wait_list[r]
      <4>1. CASE DirtyAnywhere(q, up, v)
        BY <1>3, <1>4, <3>2, <4>1, QueuedProps DEF WriteBacks, Queued
      <4>2. CASE ~ DirtyAnywhere(q, up, v)
        BY <1>3, <4>2 DEF WriteBacks
      <4> QED BY <4>1, <4>2
    <3>12. /\ wait_list' \in [Requests -> Nat] /\ wait_list'[Request("READ", l)] > 0
           /\ \A r \in Requests : wait_list'[r] >= wait_list[r]
      <4> DEFINE wb == WriteBacks(q, up, v)
      <4>1. wb \in [Requests -> Nat] /\ \A r \in Requests : wb[r] >= wait_list[r]
        BY <3>11
      <4>2. wait_list' = [wb EXCEPT ![Request("READ", l)] = @ + 1]
        BY <2>6
      <4> HIDE DEF wb
      <4>3. /\ wait_list' \in [Requests -> Nat] /\ wait_list'[Request("READ", l)] > 0
            /\ \A r \in Requests : wait_list'[r] >= wb[r]
        BY <1>4, <4>1, <4>2, QueuedProps
      <4>4. \A r \in Requests : wait_list'[r] \in Nat /\ wb[r] \in Nat /\ wait_list[r] \in Nat
        BY <1>3, <4>1, <4>3
      <4> QED BY <4>1, <4>3, <4>4
    <3>13. \A x \in llc_mshr' : x \in llc_mshr \/ wait_list'[Request("READ", x)] > 0
      BY <2>2, <3>12
    <3> QED BY <2>2, <3>7, <3>8, <3>9, <3>10, <3>12, <3>13
  <2>7. llc_mshr \subseteq llc_mshr' /\ l \in llc_mshr'
    BY <2>2
  <2> QED BY <1>3, <2>2, <2>5, <2>6, <2>7 DEF LlcAllocate
<1> QED
  BY <1>6, <1>7
(***************************************************************************)
(* The L1's part of a miss leads to such a state.                          *)
(***************************************************************************)
\* q is what the L1 of core c is, and p the LLC, when the L1's victim is gone.
LEMMA AllocatesMidway ==
  ASSUME SoundInv, Nested, NEW c \in Cores, NEW l \in Lines, NEW t \in {"READ", "WRITE"},
         Owner[l] = c, l \notin l1_mshr[c], Cardinality(l1_mshr[c]) < L1Mshrs,
         NEW q, Good(q), q.lock = l1_mshr[c], Held(q) \subseteq Held(l1[c]), l \notin Held(q),
         Fits(Allocated(q, l, t = "WRITE"), L1Index, L1Assoc),
         NEW p, Good(p), p.lock = llc_mshr, Held(p) = Held(llc),
         unsaved \in SUBSET Lines,
         \A x \in unsaved : \/ x \in p.dirty \/ x \in q.dirty
                            \/ \E d \in Cores \ {c} : x \in l1[d].dirty
  PROVE  Midway(c, l, L1Allocates(c, t, l, q), p, Written(t, l))
<1> DEFINE a == Allocated(q, l, t = "WRITE")
           up == L1Allocates(c, t, l, q)
           um == Asked(c, l)
<1>1. /\ l1 \in [Cores -> Caches] /\ l1_mshr \in [Cores -> SUBSET Lines]
      /\ llc_mshr \in SUBSET Lines /\ llc \in Caches /\ Fits(llc, LlcIndex, LlcAssoc)
      /\ \A d \in Cores : /\ Good(l1[d]) /\ l1[d].lock = l1_mshr[d]
                          /\ Fits(l1[d], L1Index, L1Assoc)
                          /\ Cardinality(l1_mshr[d]) <= L1Mshrs
                          /\ \A x \in Held(l1[d]) : Owner[x] = d
      /\ \A x \in llc_mshr : x \in l1_mshr[Owner[x]]
  BY DEF SoundInv, Sound, Good
<1>2. /\ Good(a) /\ Held(a) = Held(q) \cup {l} /\ a.lock = l1_mshr[c] \cup {l}
      /\ a.dirty = WithDirty(q, l, t = "WRITE")
  <2> DEFINE d == t = "WRITE"
  <2>1. d \in BOOLEAN
    OBVIOUS
  <2> HIDE DEF d
  <2>2. /\ Good(Allocated(q, l, d)) /\ Held(Allocated(q, l, d)) = Held(q) \cup {l}
        /\ Allocated(q, l, d).lock = q.lock \cup {l}
        /\ Allocated(q, l, d).dirty = WithDirty(q, l, d)
    BY <2>1, AllocatedProps
  <2> QED BY <2>2 DEF d
<1>3. /\ up \in [Cores -> Caches] /\ up[c] = a
      /\ \A d \in Cores \ {c} : up[d] = l1[d]
  <2>1. a \in Caches
    BY <1>2 DEF Good
  <2>2. up = [l1 EXCEPT ![c] = a]
    BY DEF L1Allocates
  <2> HIDE DEF a
  <2> QED BY <1>1, <2>1, <2>2
<1>4. /\ um \in [Cores -> SUBSET Lines] /\ um[c] = l1_mshr[c] \cup {l}
      /\ \A d \in Cores \ {c} : um[d] = l1_mshr[d]
  BY <1>1 DEF Asked
<1>5. Cardinality(l1_mshr[c] \cup {l}) <= L1Mshrs
  <2>1. IsFiniteSet(Held(l1[c])) /\ l1_mshr[c] \subseteq Held(l1[c])
    BY <1>1, HeldFinite DEF Good
  <2>2. IsFiniteSet(l1_mshr[c])
    BY <2>1, FS_Subset
  <2>3. /\ Cardinality(l1_mshr[c]) \in Nat
        /\ Cardinality(l1_mshr[c] \cup {l}) = Cardinality(l1_mshr[c]) + 1
    BY <2>2, FS_AddElement, FS_CardinalityType
  <2>4. L1Mshrs \in Nat
    BY SizeAssumption
  <2> QED BY <2>3, <2>4
<1>6. l \notin llc_mshr
  BY <1>1
<1>7. Fits(p, LlcIndex, LlcAssoc)
  <2>1. LlcAssoc \in Nat
    BY SizeAssumption
  <2> QED BY <1>1, <2>1, FitsFewer
<1>8. \A d \in Cores : Held(up[d]) \subseteq Held(p) \cup {l}
  BY <1>2, <1>3 DEF Nested
<1>9. /\ Written(t, l) \in SUBSET Lines
      /\ \A x \in Written(t, l) : DirtyAnywhere(p, up, x)
  <2>1. ASSUME NEW x \in Written(t, l)
        PROVE  DirtyAnywhere(p, up, x)
    <3>1. CASE x \in unsaved
      <4>1. CASE x \in p.dirty
        BY <4>1 DEF DirtyAnywhere
      <4>2. CASE x \in q.dirty
        <5>1. x \in a.dirty
          BY <1>2, <4>2 DEF WithDirty
        <5> QED BY <1>3, <5>1 DEF DirtyAnywhere
      <4>3. CASE \E d \in Cores \ {c} : x \in l1[d].dirty
        BY <1>3, <4>3 DEF DirtyAnywhere
      <4> QED BY <3>1, <4>1, <4>2, <4>3
    <3>2. CASE t = "WRITE" /\ x = l
      <4>1. x \in a.dirty
        BY <1>2, <3>2 DEF WithDirty
      <4> QED BY <1>3, <4>1 DEF DirtyAnywhere
    <3> QED BY <2>1, <3>1, <3>2 DEF Written
  <2>2. Written(t, l) \in SUBSET Lines
    BY DEF Written
  <2> QED BY <2>1, <2>2
<1> HIDE DEF a, up, um
<1>10. ASSUME NEW d \in Cores
       PROVE  /\ Good(up[d]) /\ up[d].lock = um[d] /\ Fits(up[d], L1Index, L1Assoc)
              /\ Cardinality(um[d]) <= L1Mshrs
              /\ \A x \in Held(up[d]) : Owner[x] = d
  <2>1. CASE d = c
    <3>1. \A x \in Held(up[d]) : Owner[x] = d
      BY <1>1, <1>2, <1>3, <2>1
    <3> QED BY <1>2, <1>3, <1>4, <1>5, <2>1, <3>1 DEF a
  <2>2. CASE d # c
    BY <1>1, <1>3, <1>4, <2>2
  <2> QED BY <2>1, <2>2
<1>11. \A x \in llc_mshr : x \in um[Owner[x]]
  BY <1>1, <1>4, CoreAssumption
<1>12. Sound(up, um, p, llc_mshr)
  BY <1>1, <1>3, <1>4, <1>7, <1>10, <1>11 DEF Sound
<1> QED
  BY <1>1, <1>6, <1>8, <1>9, <1>12 DEF Midway, up, um
(***************************************************************************)
(* The steps of a core.                                                    *)
(***************************************************************************)
\* What every request does to the counters.
LEMMA SendsKeeps ==
  ASSUME RestType, NEW c \in Cores, NEW t \in {"READ", "WRITE"}, NEW l \in Lines, Sends(c, t, l)
  PROVE  /\ in_memory' \in [Lines -> Nat] /\ in_memory' = in_memory
         /\ loads' \in SUBSET Lines /\ loads' \subseteq loads \cup {l} /\ Owner[l] = c
         /\ turn' \in 0..NCores /\ reqs' \in 0..MaxReqs /\ invs' \in 0..MaxInvs
<1>1. NCores \in Nat /\ MaxReqs \in Nat /\ c \in 1..NCores
  BY CoreAssumption, SizeAssumption DEF Cores
<1>2. turn' \in 0..NCores
  BY <1>1 DEF Sends, Following
<1>3. reqs' \in 0..MaxReqs
  BY <1>1 DEF Sends, RestType
<1>4. loads' \in SUBSET Lines /\ loads' \subseteq loads \cup {l}
  BY DEF Sends, RestType
<1> QED
  BY <1>2, <1>3, <1>4 DEF Sends, RestType

\* The lines of an L1 that a miss can turn to: nothing of the set is l, and a
\* victim is not awaited.
LEMMA MissProps ==
  ASSUME SoundInv, NEW c \in Cores, NEW l \in Lines, ~ Hit(l1[c], l), l \notin l1_mshr[c]
  PROVE  /\ Good(l1[c]) /\ l1[c].lock = l1_mshr[c] /\ l \notin Held(l1[c])
         /\ \A v \in LeastRecent(l1[c], L1Victims(c, l)) :
              /\ v \in SameSet(l1[c], l, L1Index) /\ v \in Held(l1[c]) /\ v \in Lines
              /\ v \notin l1_mshr[c] /\ v \notin llc_mshr
<1>1. /\ l1[c] \in Caches /\ Good(l1[c]) /\ l1[c].lock = l1_mshr[c]
      /\ \A x \in Held(l1[c]) : Owner[x] = c
      /\ \A x \in llc_mshr : x \in l1_mshr[Owner[x]]
  BY DEF SoundInv, Sound, Good
<1>2. l \notin Held(l1[c])
  BY <1>1 DEF Hit
<1>3. \A v \in LeastRecent(l1[c], L1Victims(c, l)) :
        /\ v \in SameSet(l1[c], l, L1Index) /\ v \in Held(l1[c]) /\ v \notin l1_mshr[c]
  BY <1>1 DEF LeastRecent, L1Victims, SameSet, Unlocked
<1>4. Held(l1[c]) \in SUBSET Lines
  BY <1>1, HeldFinite
<1> QED
  BY <1>1, <1>2, <1>3, <1>4

\* With room in the set, the L1's part of a miss is the new line.
LEMMA RoomMidway ==
  ASSUME IInv, NEW c \in Cores, NEW t \in {"READ", "WRITE"}, NEW l \in Lines, Owner[l] = c,
         ~ Hit(l1[c], l), l \notin l1_mshr[c], L1Accepts(c, l),
         ~ Full(l1[c], l, L1Index, L1Assoc)
  PROVE  Midway(c, l, L1Allocates(c, t, l, l1[c]), llc, Written(t, l))
<1>1. /\ Good(l1[c]) /\ l1[c].lock = l1_mshr[c] /\ l \notin Held(l1[c])
  BY MissProps DEF IInv
<1>2. /\ l1[c] \in Caches /\ Fits(l1[c], L1Index, L1Assoc) /\ Good(llc) /\ llc.lock = llc_mshr
      /\ Cardinality(l1_mshr[c]) \in Nat /\ L1Assoc \in Nat /\ L1Mshrs \in Nat
  <2>1. IsFiniteSet(Held(l1[c])) /\ l1_mshr[c] \subseteq Held(l1[c])
    BY <1>1, HeldFinite DEF Good
  <2>2. Cardinality(l1_mshr[c]) \in Nat
    BY <2>1, FS_Subset, FS_CardinalityType
  <2> QED BY <1>1, <2>2, SizeAssumption DEF IInv, SoundInv, Sound, Good
<1>3. Fits(Allocated(l1[c], l, t = "WRITE"), L1Index, L1Assoc)
  <2> DEFINE d == t = "WRITE"
  <2>1. d \in BOOLEAN
    OBVIOUS
  <2> HIDE DEF d
  <2>2. Held(Allocated(l1[c], l, d)) = Held(l1[c]) \cup {l}
    BY <1>1, <2>1, AllocatedProps
  <2>3. Fits(Allocated(l1[c], l, d), L1Index, L1Assoc)
    BY <1>1, <1>2, <2>2, FitsReplaced
  <2> QED BY <2>3 DEF d
<1>4. \A x \in unsaved : \/ x \in llc.dirty \/ x \in l1[c].dirty
                         \/ \E d \in Cores \ {c} : x \in l1[d].dirty
  BY DEF IInv, WritesKept, DirtyAnywhere
<1>5. SoundInv /\ Nested /\ unsaved \in SUBSET Lines /\ Cardinality(l1_mshr[c]) < L1Mshrs
  BY DEF IInv, RestType, L1Accepts
<1> QED
  BY <1>1, <1>2, <1>3, <1>4, <1>5, AllocatesMidway

\* Else the victim goes first, and its dirty bit to the LLC.
LEMMA EvictedMidway ==
  ASSUME IInv, NEW c \in Cores, NEW t \in {"READ", "WRITE"}, NEW l \in Lines, Owner[l] = c,
         ~ Hit(l1[c], l), l \notin l1_mshr[c], L1Accepts(c, l),
         NEW v \in LeastRecent(l1[c], L1Victims(c, l))
  PROVE  /\ Midway(c, l, L1Allocates(c, t, l, Without(l1[c], v)), Evicted(c, v), Written(t, l))
         /\ v \in Held(llc)
<1> DEFINE w == Without(l1[c], v)
           p == Evicted(c, v)
<1>1. /\ Good(l1[c]) /\ l1[c].lock = l1_mshr[c] /\ l \notin Held(l1[c])
      /\ v \in SameSet(l1[c], l, L1Index) /\ v \in Held(l1[c]) /\ v \in Lines
      /\ v \notin l1_mshr[c] /\ v \notin llc_mshr
  BY MissProps DEF IInv
<1>2. /\ l1[c] \in Caches /\ Fits(l1[c], L1Index, L1Assoc) /\ Good(llc) /\ llc.lock = llc_mshr
      /\ L1Assoc \in Nat /\ l1_mshr[c] \in SUBSET Lines /\ llc_mshr \in SUBSET Lines
  BY <1>1, SizeAssumption DEF IInv, SoundInv, Sound, Good
<1>3. /\ Good(w) /\ Held(w) = Held(l1[c]) \ {v} /\ w.lock = l1_mshr[c]
      /\ w.dirty = l1[c].dirty \ {v}
  <2>1. l1_mshr[c] \ {v} = l1_mshr[c]
    BY <1>1, <1>2
  <2>2. /\ Good(w) /\ Held(w) = Held(l1[c]) \ {v} /\ w.lock = l1[c].lock \ {v}
        /\ w.dirty = l1[c].dirty \ {v}
    BY <1>1, WithoutProps, Zenon
  <2> HIDE DEF w
  <2> QED BY <1>1, <2>1, <2>2
<1>4. v \in Held(llc)
  BY <1>1 DEF IInv, Nested
<1>5. /\ Good(p) /\ Held(p) = Held(llc) /\ p.lock = llc_mshr
      /\ p.dirty = WithDirty(llc, v, v \in l1[c].dirty)
  <2> DEFINE d == v \in l1[c].dirty
  <2>1. d \in BOOLEAN /\ p = Renewed(llc, v, d)
    BY DEF Evicted
  <2> HIDE DEF d, p
  <2>2. /\ Good(p) /\ Held(p) = Held(llc) \cup {v} /\ p.lock = llc.lock \ {v}
        /\ p.dirty = WithDirty(llc, v, d)
    <3>1. Good(llc) /\ v \in Lines /\ d \in BOOLEAN
      BY <1>1, <1>2, <2>1
    <3>2. /\ Good(Renewed(llc, v, d)) /\ Held(Renewed(llc, v, d)) = Held(llc) \cup {v}
          /\ Renewed(llc, v, d).lock = llc.lock \ {v}
          /\ Renewed(llc, v, d).dirty = WithDirty(llc, v, d)
      BY <3>1, RenewedProps, Zenon
    <3> QED BY <2>1, <3>2, Zenon
  <2>3. llc_mshr \ {v} = llc_mshr /\ Held(llc) \cup {v} = Held(llc)
    BY <1>1, <1>2, <1>4
  <2>4. p.dirty = WithDirty(llc, v, v \in l1[c].dirty)
    BY <2>2, Zenon DEF d
  <2> QED BY <1>2, <2>2, <2>3, <2>4
<1> HIDE DEF w, p
<1>6. Fits(Allocated(w, l, t = "WRITE"), L1Index, L1Assoc)
  <2> DEFINE d == t = "WRITE"
  <2>1. d \in BOOLEAN
    OBVIOUS
  <2> HIDE DEF d
  <2>2. Held(Allocated(w, l, d)) = (Held(l1[c]) \ {v}) \cup {l}
    BY <1>1, <1>3, <2>1, AllocatedProps
  <2>3. Fits(Allocated(w, l, d), L1Index, L1Assoc)
    BY <1>1, <1>2, <2>2, FitsReplaced
  <2> QED BY <2>3 DEF d
<1>7. ASSUME NEW x \in unsaved
      PROVE  \/ x \in p.dirty \/ x \in w.dirty
             \/ \E d \in Cores \ {c} : x \in l1[d].dirty
  <2>1. \/ x \in llc.dirty \/ x \in l1[c].dirty
        \/ \E d \in Cores \ {c} : x \in l1[d].dirty
    BY DEF IInv, WritesKept, DirtyAnywhere
  <2>2. x \in llc.dirty => x \in p.dirty
    BY <1>5 DEF WithDirty
  <2>3. x \in l1[c].dirty => x \in w.dirty \/ x \in p.dirty
    BY <1>3, <1>5 DEF WithDirty
  <2> QED BY <2>1, <2>2, <2>3
<1>8. SoundInv /\ Nested /\ unsaved \in SUBSET Lines /\ Cardinality(l1_mshr[c]) < L1Mshrs
  BY DEF IInv, RestType, L1Accepts
<1>9. Held(w) \subseteq Held(l1[c]) /\ l \notin Held(w)
  BY <1>1, <1>3
<1>10. Midway(c, l, L1Allocates(c, t, l, w), p, Written(t, l))
  BY <1>1, <1>3, <1>5, <1>6, <1>7, <1>8, <1>9, AllocatesMidway
<1> QED
  BY <1>4, <1>10 DEF w, p
\* A miss in the L1 keeps the invariant.
LEMMA L1MissKeeps ==
  ASSUME EnoughWays, IInv, NEW c \in Cores, NEW t \in {"READ", "WRITE"}, NEW l \in Lines,
         L1Miss(c, t, l)
  PROVE  IInv'
<1>1. /\ Owner[l] = c /\ ~ Hit(l1[c], l) /\ l \notin l1_mshr[c] /\ L1Accepts(c, l)
      /\ Sends(c, t, l) /\ RestType /\ l1_mshr' = Asked(c, l)
  BY DEF L1Miss, Sends, IInv, Asked
<1>2. l \notin Held(l1[c])
  BY <1>1, MissProps DEF IInv
<1>3. \E up, q, uns : Midway(c, l, up, q, uns) /\ LlcSend(l, up, q, uns, TRUE)
  <2>1. CASE /\ ~ Full(l1[c], l, L1Index, L1Assoc)
             /\ LlcSend(l, L1Allocates(c, t, l, l1[c]), llc, Written(t, l), l \notin Held(l1[c]))
    <3>1. LlcSend(l, L1Allocates(c, t, l, l1[c]), llc, Written(t, l), TRUE)
      BY <1>2, <2>1 DEF LlcSend
    <3> QED BY <1>1, <2>1, <3>1, RoomMidway
  <2>2. ASSUME NEW v \in LeastRecent(l1[c], L1Victims(c, l)),
               LlcSend(l, L1Allocates(c, t, l, Without(l1[c], v)), Evicted(c, v), Written(t, l),
                       l \notin Held(l1[c]) /\ v \in Held(llc))
        PROVE  \E up, q, uns : Midway(c, l, up, q, uns) /\ LlcSend(l, up, q, uns, TRUE)
    <3>1. /\ Midway(c, l, L1Allocates(c, t, l, Without(l1[c], v)), Evicted(c, v), Written(t, l))
          /\ v \in Held(llc)
      BY <1>1, EvictedMidway
    <3>2. LlcSend(l, L1Allocates(c, t, l, Without(l1[c], v)), Evicted(c, v), Written(t, l), TRUE)
      BY <1>2, <2>2, <3>1 DEF LlcSend
    <3> QED BY <3>1, <3>2
  <2> QED BY <2>1, <2>2 DEF L1Miss
<1>4. PICK up, q, uns : Midway(c, l, up, q, uns) /\ LlcSend(l, up, q, uns, TRUE)
  BY <1>3
<1>5. /\ Sound(l1', l1_mshr', llc', llc_mshr') /\ asserts' = TRUE
      /\ \A d \in Cores : Held(l1'[d]) \subseteq Held(llc')
      /\ unsaved' \in SUBSET Lines /\ \A x \in unsaved' : DirtyAnywhere(llc', l1', x)
      /\ hit_list' \in SUBSET [ln : Lines, left : Nat \ {0}] /\ hit_list \subseteq hit_list'
      /\ wait_list' \in [Requests -> Nat]
      /\ \A r \in Requests : wait_list'[r] >= wait_list[r]
      /\ llc_mshr \subseteq llc_mshr'
      /\ \A x \in llc_mshr' : x \in llc_mshr \/ wait_list'[Request("READ", x)] > 0
      /\ l \in llc_mshr' \/ \E h \in hit_list' : h.ln = l
  BY <1>1, <1>4, LlcSendKeeps
<1>6. /\ in_memory' \in [Lines -> Nat] /\ in_memory' = in_memory
      /\ loads' \in SUBSET Lines /\ loads' \subseteq loads \cup {l}
      /\ turn' \in 0..NCores /\ reqs' \in 0..MaxReqs /\ invs' \in 0..MaxInvs
  BY <1>1, SendsKeeps
<1>7. SoundInv' /\ Nested' /\ WritesKept'
  BY <1>5 DEF SoundInv, Nested, WritesKept
<1>8. RestType'
  BY <1>5, <1>6 DEF RestType
<1>9. AnswersInv'
  <2>1. /\ l1_mshr \in [Cores -> SUBSET Lines] /\ llc_mshr \in SUBSET Lines
        /\ llc_mshr' \in SUBSET Lines
    BY <1>5 DEF IInv, SoundInv, Sound
  <2>2. /\ l1_mshr'[c] = l1_mshr[c] \cup {l}
        /\ \A d \in Cores \ {c} : l1_mshr'[d] = l1_mshr[d]
    BY <1>1, <2>1 DEF Asked
  <2>3. ASSUME NEW x \in llc_mshr'
        PROVE  AtMemory(x)'
    <3>1. Request("READ", x) \in Requests
      BY <2>1 DEF Request, Requests
    <3>2. /\ wait_list[Request("READ", x)] \in Nat /\ wait_list'[Request("READ", x)] \in Nat
          /\ wait_list'[Request("READ", x)] >= wait_list[Request("READ", x)]
      BY <1>1, <1>5, <3>1 DEF RestType
    <3>3. CASE x \in llc_mshr
      <4>1. AtMemory(x)
        BY <3>3 DEF IInv, AnswersInv
      <4> QED BY <1>6, <3>2, <4>1 DEF AtMemory
    <3>4. CASE wait_list'[Request("READ", x)] > 0
      BY <3>4 DEF AtMemory
    <3> QED BY <1>5, <3>3, <3>4
  <2>4. ASSUME NEW d \in Cores, NEW x \in l1_mshr'[d]
        PROVE  InHitList(x)' \/ x \in llc_mshr'
    <3>1. CASE x \in l1_mshr[d]
      BY <1>5, <3>1 DEF IInv, AnswersInv, InHitList
    <3>2. CASE x = l
      BY <1>5, <3>2 DEF InHitList
    <3> QED BY <2>2, <2>4, <3>1, <3>2
  <2>5. ASSUME NEW x \in loads'
        PROVE  InHitList(x)' \/ x \in l1_mshr'[Owner[x]]
    <3>1. CASE x \in loads
      <4>1. InHitList(x) \/ x \in l1_mshr[Owner[x]]
        BY <3>1 DEF IInv, AnswersInv
      <4>2. Owner[x] \in Cores
        BY <1>6, CoreAssumption
      <4>3. l1_mshr[Owner[x]] \subseteq l1_mshr'[Owner[x]]
        BY <2>2, <4>2
      <4> QED BY <1>5, <4>1, <4>3 DEF InHitList
    <3>2. CASE x = l
      BY <1>1, <2>2, <3>2
    <3> QED BY <1>6, <2>5, <3>1, <3>2
  <2> QED BY <2>3, <2>4, <2>5 DEF AnswersInv
<1> QED
  BY <1>5, <1>7, <1>8, <1>9 DEF IInv

\* What is dirty somewhere stays so while dirty bits are only added.
LEMMA DirtierKept ==
  ASSUME NEW q, NEW up, NEW vp, \A d \in Cores : up[d].dirty \subseteq vp[d].dirty,
         NEW x, DirtyAnywhere(q, up, x)
  PROVE  DirtyAnywhere(q, vp, x)
BY DEF DirtyAnywhere

\* A hit in the L1 keeps the invariant.
LEMMA L1HitKeeps ==
  ASSUME IInv, NEW c \in Cores, NEW t \in {"READ", "WRITE"}, NEW l \in Lines, L1Hit(c, t, l)
  PROVE  IInv'
<1> DEFINE p == Renewed(l1[c], l, t = "WRITE")
<1>1. /\ Sends(c, t, l) /\ RestType /\ l \in Held(l1[c]) /\ l \notin l1[c].lock
      /\ l1' = [l1 EXCEPT ![c] = p] /\ unsaved' = Written(t, l)
      /\ hit_list' = hit_list \cup {[ln |-> l, left |-> L1Lat]}
      /\ llc' = llc /\ l1_mshr' = l1_mshr /\ llc_mshr' = llc_mshr
      /\ wait_list' = wait_list /\ asserts' = asserts
  BY DEF L1Hit, IInv, Hit
<1>2. /\ Sound(l1, l1_mshr, llc, llc_mshr) /\ l1 \in [Cores -> Caches]
      /\ llc_mshr \in SUBSET Lines /\ Good(llc) /\ llc.lock = llc_mshr
      /\ Fits(llc, LlcIndex, LlcAssoc) /\ \A x \in llc_mshr : x \in l1_mshr[Owner[x]]
      /\ \A d \in Cores : Good(l1[d]) /\ l1[d] \in Caches
  BY DEF IInv, SoundInv, Sound
<1>3. /\ Good(p) /\ Held(p) = Held(l1[c]) /\ p.lock = l1[c].lock
      /\ p.dirty = WithDirty(l1[c], l, t = "WRITE")
  <2> DEFINE d == t = "WRITE"
             r == Renewed(l1[c], l, d)
  <2>1. d \in BOOLEAN
    OBVIOUS
  <2> HIDE DEF d
  <2>2. /\ Good(r) /\ Held(r) = Held(l1[c]) \cup {l} /\ r.lock = l1[c].lock \ {l}
        /\ r.dirty = WithDirty(l1[c], l, d)
    BY <1>2, <2>1, RenewedProps, Zenon
  <2>3. l1[c].lock \ {l} = l1[c].lock /\ Held(l1[c]) \cup {l} = Held(l1[c])
    BY <1>1, <1>2 DEF Caches
  <2>4. /\ Good(r) /\ Held(r) = Held(l1[c]) /\ r.lock = l1[c].lock
        /\ r.dirty = WithDirty(l1[c], l, d)
    BY <2>2, <2>3, Zenon
  <2> QED BY <2>4 DEF d
<1> HIDE DEF p
<1>4. l1'[c] = p /\ \A d \in Cores \ {c} : l1'[d] = l1[d]
  BY <1>1, <1>2
<1>5. \A d \in Cores : /\ Good(l1'[d]) /\ l1'[d].lock = l1[d].lock
                       /\ Held(l1'[d]) = Held(l1[d])
  BY <1>2, <1>3, <1>4
<1>6. SoundInv'
  <2>1. l1' \in [Cores -> Caches]
    BY <1>1, <1>2, <1>3 DEF Good
  <2>2. Sound(l1', l1_mshr, llc, llc_mshr)
    <3>1. \A d \in Cores : /\ Good(l1'[d]) /\ l1'[d].lock = l1[d].lock
                           /\ Held(l1'[d]) \subseteq Held(l1[d])
      BY <1>5
    <3> QED BY <1>2, <2>1, <3>1, SoundKept
  <2> QED BY <1>1, <2>2 DEF SoundInv
<1>7. Nested'
  BY <1>1, <1>5 DEF IInv, Nested
<1>8. WritesKept'
  <2>1. \A d \in Cores : l1[d].dirty \subseteq l1'[d].dirty
    <3>1. l1[c].dirty \subseteq p.dirty
      BY <1>3 DEF WithDirty
    <3> QED BY <1>4, <3>1
  <2>2. ASSUME NEW x \in unsaved'
        PROVE  DirtyAnywhere(llc, l1', x)
    <3>1. CASE x \in unsaved
      BY <2>1, <3>1, DirtierKept DEF IInv, WritesKept
    <3>2. CASE t = "WRITE" /\ x = l
      <4>1. x \in p.dirty
        BY <1>3, <3>2 DEF WithDirty
      <4> QED BY <1>4, <4>1 DEF DirtyAnywhere
    <3> QED BY <1>1, <2>2, <3>1, <3>2 DEF Written
  <2> QED BY <1>1, <2>2 DEF WritesKept
<1>9. /\ in_memory' \in [Lines -> Nat] /\ in_memory' = in_memory
      /\ loads' \in SUBSET Lines /\ loads' \subseteq loads \cup {l}
      /\ turn' \in 0..NCores /\ reqs' \in 0..MaxReqs /\ invs' \in 0..MaxInvs
  BY <1>1, SendsKeeps
<1>10. /\ hit_list' \in SUBSET [ln : Lines, left : Nat \ {0}] /\ hit_list \subseteq hit_list'
       /\ \E h \in hit_list' : h.ln = l
  <2>1. [ln |-> l, left |-> L1Lat] \in [ln : Lines, left : Nat \ {0}]
    BY SizeAssumption
  <2>2. [ln |-> l, left |-> L1Lat].ln = l
    OBVIOUS
  <2> QED BY <1>1, <2>1, <2>2 DEF RestType
<1>11. RestType'
  <2>1. unsaved' \in SUBSET Lines
    BY <1>1 DEF RestType, Written
  <2> QED BY <1>1, <1>9, <1>10, <2>1 DEF RestType
<1>12. AnswersInv'
  <2>1. \A x \in llc_mshr' : AtMemory(x)'
    BY <1>1, <1>9 DEF IInv, AnswersInv, AtMemory
  <2>2. \A d \in Cores : \A x \in l1_mshr'[d] : InHitList(x)' \/ x \in llc_mshr'
    BY <1>1, <1>10 DEF IInv, AnswersInv, InHitList
  <2>3. \A x \in loads' : InHitList(x)' \/ x \in l1_mshr'[Owner[x]]
    BY <1>1, <1>9, <1>10 DEF IInv, AnswersInv, InHitList
  <2> QED BY <2>1, <2>2, <2>3 DEF AnswersInv
<1> QED
  BY <1>1, <1>6, <1>7, <1>8, <1>11, <1>12 DEF IInv
\* A request that finds its line awaited keeps the invariant.
LEMMA L1MshrHitKeeps ==
  ASSUME IInv, NEW c \in Cores, NEW t \in {"READ", "WRITE"}, NEW l \in Lines,
         L1MshrHit(c, t, l)
  PROVE  IInv'
<1> DEFINE dd == WithDirty(l1[c], l, t = "WRITE")
<1>1. /\ Sends(c, t, l) /\ RestType /\ l \in l1_mshr[c] /\ Owner[l] = c
      /\ l1' = [l1 EXCEPT ![c].dirty = dd] /\ unsaved' = Written(t, l)
      /\ hit_list' = hit_list
      /\ llc' = llc /\ l1_mshr' = l1_mshr /\ llc_mshr' = llc_mshr
      /\ wait_list' = wait_list /\ asserts' = asserts
  BY DEF L1MshrHit, IInv, Sends
<1>2. /\ Sound(l1, l1_mshr, llc, llc_mshr) /\ l1 \in [Cores -> Caches]
      /\ llc_mshr \in SUBSET Lines /\ Good(llc) /\ llc.lock = llc_mshr
      /\ Fits(llc, LlcIndex, LlcAssoc) /\ \A x \in llc_mshr : x \in l1_mshr[Owner[x]]
      /\ \A d \in Cores : Good(l1[d]) /\ l1[d] \in Caches
      /\ l1[c].lock = l1_mshr[c]
  BY DEF IInv, SoundInv, Sound
<1>3. l1[c].dirty \subseteq dd /\ dd \subseteq l1[c].dirty \cup {l} /\ (t = "WRITE" => l \in dd)
  BY DEF WithDirty
<1> HIDE DEF dd
<1>4. /\ l1'[c] = [l1[c] EXCEPT !.dirty = dd]
      /\ \A d \in Cores \ {c} : l1'[d] = l1[d]
  BY <1>1, <1>2
<1>5. /\ l1'[c] \in Caches /\ l1'[c].order = l1[c].order /\ l1'[c].lock = l1[c].lock
      /\ l1'[c].dirty = dd
  BY <1>2, <1>3, <1>4 DEF Caches
<1>6. Good(l1'[c]) /\ Held(l1'[c]) = Held(l1[c])
  <2>1. Held(l1'[c]) = Held(l1[c])
    BY <1>5 DEF Held
  <2> QED BY <1>1, <1>2, <1>3, <1>5, <2>1 DEF Good
<1>7. \A d \in Cores : /\ Good(l1'[d]) /\ l1'[d].lock = l1[d].lock
                       /\ Held(l1'[d]) = Held(l1[d]) /\ l1[d].dirty \subseteq l1'[d].dirty
  BY <1>2, <1>3, <1>4, <1>5, <1>6
<1>8. SoundInv'
  <2>1. l1' \in [Cores -> Caches]
    <3>1. \A d \in Cores : l1'[d] \in Caches
      BY <1>7 DEF Good
    <3> QED BY <1>1, <1>2, <3>1
  <2>2. Sound(l1', l1_mshr, llc, llc_mshr)
    <3>1. \A d \in Cores : /\ Good(l1'[d]) /\ l1'[d].lock = l1[d].lock
                           /\ Held(l1'[d]) \subseteq Held(l1[d])
      BY <1>7
    <3> QED BY <1>2, <2>1, <3>1, SoundKept
  <2> QED BY <1>1, <2>2 DEF SoundInv
<1>9. Nested'
  BY <1>1, <1>7 DEF IInv, Nested
<1>10. WritesKept'
  <2>1. \A d \in Cores : l1[d].dirty \subseteq l1'[d].dirty
    BY <1>7
  <2>2. ASSUME NEW x \in unsaved'
        PROVE  DirtyAnywhere(llc, l1', x)
    <3>1. CASE x \in unsaved
      BY <2>1, <3>1, DirtierKept DEF IInv, WritesKept
    <3>2. CASE t = "WRITE" /\ x = l
      BY <1>3, <1>5, <3>2 DEF DirtyAnywhere
    <3> QED BY <1>1, <2>2, <3>1, <3>2 DEF Written
  <2> QED BY <1>1, <2>2 DEF WritesKept
<1>11. /\ in_memory' \in [Lines -> Nat] /\ in_memory' = in_memory
       /\ loads' \in SUBSET Lines /\ loads' \subseteq loads \cup {l}
       /\ turn' \in 0..NCores /\ reqs' \in 0..MaxReqs /\ invs' \in 0..MaxInvs
  BY <1>1, SendsKeeps
<1>12. RestType'
  <2>1. unsaved' \in SUBSET Lines
    BY <1>1 DEF RestType, Written
  <2> QED BY <1>1, <1>11, <2>1 DEF RestType
<1>13. AnswersInv'
  BY <1>1, <1>11 DEF IInv, AnswersInv, AtMemory, InHitList
<1> QED
  BY <1>1, <1>8, <1>9, <1>10, <1>12, <1>13 DEF IInv

(***************************************************************************)
(* Answers and reconciliation.                                             *)
(***************************************************************************)
\* An answer releases locks and MSHR entries in step, in the LLC and the L1s.
LEMMA AnswerKeeps ==
  ASSUME IInv, NEW S, Answer(S), unsaved' = unsaved
  PROVE  /\ SoundInv' /\ Nested' /\ WritesKept'
         /\ llc_mshr' = llc_mshr \ S /\ loads' = loads \ S
         /\ \A d \in Cores : l1_mshr'[d] = l1_mshr[d] \ S
<1> DEFINE p == Unlock(llc, S \cap llc_mshr)
           q(d) == Unlock(l1[d], S \cap l1_mshr[d])
<1>1. /\ llc' = p /\ llc_mshr' = llc_mshr \ S
      /\ l1' = [d \in Cores |-> q(d)] /\ l1_mshr' = [d \in Cores |-> l1_mshr[d] \ S]
      /\ loads' = loads \ S
  BY DEF Answer, Reached
<1>2. /\ l1 \in [Cores -> Caches] /\ l1_mshr \in [Cores -> SUBSET Lines]
      /\ llc_mshr \in SUBSET Lines /\ llc \in Caches /\ Good(llc) /\ llc.lock = llc_mshr
      /\ Fits(llc, LlcIndex, LlcAssoc) /\ \A x \in llc_mshr : x \in l1_mshr[Owner[x]]
      /\ \A d \in Cores : /\ Good(l1[d]) /\ l1[d].lock = l1_mshr[d]
                          /\ Fits(l1[d], L1Index, L1Assoc)
                          /\ Cardinality(l1_mshr[d]) <= L1Mshrs
                          /\ \A x \in Held(l1[d]) : Owner[x] = d
  BY DEF IInv, SoundInv, Sound, Good
<1>3. /\ Good(p) /\ Held(p) = Held(llc) /\ p.lock = llc_mshr \ S /\ p.dirty = llc.dirty
  <2>1. /\ Good(p) /\ Held(p) = Held(llc) /\ p.lock = llc.lock \ (S \cap llc_mshr)
        /\ p.dirty = llc.dirty
    BY <1>2, UnlockProps, Zenon
  <2>2. llc_mshr \ (S \cap llc_mshr) = llc_mshr \ S
    OBVIOUS
  <2> HIDE DEF p
  <2> QED BY <1>2, <2>1, <2>2
<1>4. ASSUME NEW d \in Cores
      PROVE  /\ Good(q(d)) /\ Held(q(d)) = Held(l1[d]) /\ q(d).lock = l1_mshr[d] \ S
             /\ q(d).dirty = l1[d].dirty /\ q(d) \in Caches
  <2>1. Good(l1[d]) /\ l1[d].lock = l1_mshr[d]
    BY <1>2
  <2>2. /\ Good(q(d)) /\ Held(q(d)) = Held(l1[d])
        /\ q(d).lock = l1[d].lock \ (S \cap l1_mshr[d]) /\ q(d).dirty = l1[d].dirty
    BY <2>1, UnlockProps, Zenon
  <2>3. l1_mshr[d] \ (S \cap l1_mshr[d]) = l1_mshr[d] \ S
    OBVIOUS
  <2> HIDE DEF q
  <2>4. q(d) \in Caches
    BY <2>2 DEF Good
  <2> QED BY <2>1, <2>2, <2>3, <2>4
<1> HIDE DEF p, q
<1>5. \A d \in Cores : l1'[d] = q(d) /\ l1_mshr'[d] = l1_mshr[d] \ S
  BY <1>1
<1>6. ASSUME NEW d \in Cores
      PROVE  /\ Good(l1'[d]) /\ l1'[d].lock = l1_mshr'[d] /\ Fits(l1'[d], L1Index, L1Assoc)
             /\ Cardinality(l1_mshr'[d]) <= L1Mshrs
             /\ \A x \in Held(l1'[d]) : Owner[x] = d
             /\ Held(l1'[d]) = Held(l1[d]) /\ l1'[d].dirty = l1[d].dirty
  <2>1. L1Assoc \in Nat /\ L1Mshrs \in Nat
    BY SizeAssumption
  <2>2. /\ Good(l1'[d]) /\ Held(l1'[d]) = Held(l1[d]) /\ l1'[d].lock = l1_mshr'[d]
        /\ l1'[d].dirty = l1[d].dirty
    BY <1>4, <1>5
  <2>3. Fits(l1'[d], L1Index, L1Assoc)
    BY <1>2, <2>1, <2>2, FitsFewer
  <2>4. Cardinality(l1_mshr'[d]) <= L1Mshrs
    <3>1. IsFiniteSet(Held(l1[d])) /\ l1_mshr[d] \subseteq Held(l1[d])
      BY <1>2, HeldFinite DEF Good
    <3>2. IsFiniteSet(l1_mshr[d])
      BY <3>1, FS_Subset
    <3>3. l1_mshr[d] \ S \in SUBSET l1_mshr[d]
      OBVIOUS
    <3>4. /\ Cardinality(l1_mshr[d] \ S) <= Cardinality(l1_mshr[d])
          /\ IsFiniteSet(l1_mshr[d] \ S)
      BY <3>2, <3>3, FS_Subset
    <3>5. Cardinality(l1_mshr[d] \ S) \in Nat /\ Cardinality(l1_mshr[d]) \in Nat
      BY <3>2, <3>4, FS_CardinalityType
    <3>6. Cardinality(l1_mshr[d]) <= L1Mshrs
      BY <1>2
    <3>7. Cardinality(l1_mshr[d] \ S) <= L1Mshrs
      BY <2>1, <3>4, <3>5, <3>6
    <3> QED BY <1>5, <3>7
  <2> QED BY <1>2, <2>2, <2>3, <2>4
<1>7. SoundInv'
  <2>1. LlcAssoc \in Nat
    BY SizeAssumption
  <2>2. Fits(llc', LlcIndex, LlcAssoc)
    BY <1>1, <1>2, <1>3, <2>1, FitsFewer
  <2>3. \A d \in Cores : /\ Good(l1'[d]) /\ l1'[d].lock = l1_mshr'[d]
                         /\ Fits(l1'[d], L1Index, L1Assoc)
                         /\ Cardinality(l1_mshr'[d]) <= L1Mshrs
                         /\ \A x \in Held(l1'[d]) : Owner[x] = d
    BY <1>6
  <2>4. l1' \in [Cores -> Caches] /\ l1_mshr' \in [Cores -> SUBSET Lines]
    BY <1>1, <1>2, <1>4
  <2>5. \A x \in llc_mshr' : x \in l1_mshr'[Owner[x]]
    BY <1>1, <1>2, <1>5, CoreAssumption
  <2>6. llc_mshr' \in SUBSET Lines /\ Good(llc') /\ llc'.lock = llc_mshr'
    BY <1>1, <1>2, <1>3
  <2>7. Sound(l1', l1_mshr', llc', llc_mshr')
    BY <2>2, <2>3, <2>4, <2>5, <2>6 DEF Sound
  <2> QED BY <2>7 DEF SoundInv
<1>8. Nested'
  BY <1>1, <1>3, <1>6 DEF IInv, Nested
<1>9. WritesKept'
  BY <1>1, <1>3, <1>6 DEF IInv, WritesKept, DirtyAnywhere
<1> QED
  BY <1>1, <1>5, <1>7, <1>8, <1>9
\* Fewer lines are awaited and no answer of those left is lost.
LEMMA AnswersLeft ==
  ASSUME IInv, NEW S, llc_mshr' = llc_mshr \ S, loads' = loads \ S,
         \A d \in Cores : l1_mshr'[d] = l1_mshr[d] \ S,
         \A x \in llc_mshr \ S : AtMemory(x) => AtMemory(x)',
         \A x \in Lines \ S : InHitList(x) => InHitList(x)'
  PROVE  AnswersInv'
<1>1. /\ llc_mshr \in SUBSET Lines /\ loads \in SUBSET Lines
      /\ l1_mshr \in [Cores -> SUBSET Lines] /\ Owner \in [Lines -> Cores]
  BY CoreAssumption DEF IInv, SoundInv, Sound, RestType
<1>2. \A x \in llc_mshr' : AtMemory(x)'
  BY DEF IInv, AnswersInv
<1>3. ASSUME NEW d \in Cores, NEW x \in l1_mshr'[d]
      PROVE  InHitList(x)' \/ x \in llc_mshr'
  <2>1. x \in l1_mshr[d] /\ x \notin S /\ x \in Lines
    BY <1>1, <1>3
  <2>2. InHitList(x) \/ x \in llc_mshr
    BY <2>1 DEF IInv, AnswersInv
  <2> QED BY <2>1, <2>2
<1>4. ASSUME NEW x \in loads'
      PROVE  InHitList(x)' \/ x \in l1_mshr'[Owner[x]]
  <2>1. x \in loads /\ x \notin S /\ x \in Lines /\ Owner[x] \in Cores
    BY <1>1, <1>4
  <2>2. InHitList(x) \/ x \in l1_mshr[Owner[x]]
    BY <2>1 DEF IInv, AnswersInv
  <2> QED BY <2>1, <2>2
<1> QED
  BY <1>2, <1>3, <1>4 DEF AnswersInv

\* The memories' answer to a read.
LEMMA ReceiveKeeps ==
  ASSUME IInv, NEW l \in Lines, Processor_receive(l)
  PROVE  IInv'
<1>1. /\ in_memory[l] > 0 /\ in_memory' = [in_memory EXCEPT ![l] = @ - 1]
      /\ Answer({l}) /\ hit_list' = hit_list /\ wait_list' = wait_list /\ unsaved' = unsaved
      /\ asserts' = asserts /\ turn' = turn /\ reqs' = reqs /\ invs' = invs
  BY DEF Processor_receive
<1>2. /\ SoundInv' /\ Nested' /\ WritesKept'
      /\ llc_mshr' = llc_mshr \ {l} /\ loads' = loads \ {l}
      /\ \A d \in Cores : l1_mshr'[d] = l1_mshr[d] \ {l}
  BY <1>1, AnswerKeeps
<1>3. in_memory \in [Lines -> Nat] /\ loads \in SUBSET Lines /\ llc_mshr \in SUBSET Lines
  BY DEF IInv, RestType, SoundInv, Sound
<1>4. in_memory' \in [Lines -> Nat] /\ \A x \in Lines \ {l} : in_memory'[x] = in_memory[x]
  BY <1>1, <1>3
<1>5. RestType'
  BY <1>1, <1>2, <1>4 DEF IInv, RestType
<1>6. \A x \in llc_mshr \ {l} : AtMemory(x) => AtMemory(x)'
  BY <1>1, <1>3, <1>4 DEF AtMemory
<1>7. \A x \in Lines \ {l} : InHitList(x) => InHitList(x)'
  BY <1>1 DEF InHitList
<1>8. AnswersInv'
  BY <1>2, <1>6, <1>7, AnswersLeft
<1> QED
  BY <1>1, <1>2, <1>5, <1>8 DEF IInv

\* The tick: requests go from the wait list to the memories, and those of the hit
\* list whose time has come are answered.
LEMMA TickKeeps ==
  ASSUME IInv, NEW sent \in Parts, CacheTick(sent)
  PROVE  IInv'
<1> DEFINE Sent(r) == IF wait_list[r] > 0 THEN sent[r] ELSE 0
           S == {h.ln : h \in {x \in hit_list : x.left = 1}}
           rest == {h \in hit_list : h.left > 1}
<1>1. /\ wait_list' = [r \in Requests |-> wait_list[r] - Sent(r)]
      /\ in_memory' = [l \in Lines |-> in_memory[l] + Sent(Request("READ", l))]
      /\ Answer(S) /\ hit_list' = {[h EXCEPT !.left = @ - 1] : h \in rest}
      /\ turn' = 1 /\ unsaved' = unsaved
      /\ asserts' = asserts /\ reqs' = reqs /\ invs' = invs
  BY DEF CacheTick
<1>2. /\ SoundInv' /\ Nested' /\ WritesKept'
      /\ llc_mshr' = llc_mshr \ S /\ loads' = loads \ S
      /\ \A d \in Cores : l1_mshr'[d] = l1_mshr[d] \ S
  <2> HIDE DEF S
  <2> QED BY <1>1, AnswerKeeps
<1>3. /\ in_memory \in [Lines -> Nat] /\ loads \in SUBSET Lines /\ llc_mshr \in SUBSET Lines
      /\ wait_list \in [Requests -> Nat]
      /\ hit_list \in SUBSET [ln : Lines, left : Nat \ {0}]
  BY DEF IInv, RestType, SoundInv, Sound
<1>4. \A r \in Requests : Sent(r) \in Nat /\ Sent(r) <= wait_list[r]
  <2> TAKE r \in Requests
  <2>1. CASE wait_list[r] > 0
    <3>1. sent[r] \in 0..wait_list[r]
      BY <2>1 DEF Parts
    <3> QED BY <1>3, <2>1, <3>1
  <2>2. CASE ~ (wait_list[r] > 0)
    BY <1>3, <2>2
  <2> QED BY <2>1, <2>2
<1> HIDE DEF Sent
<1>5. \A x \in Lines : Request("READ", x) \in Requests
  BY DEF Request, Requests
<1>6. wait_list' \in [Requests -> Nat]
  <2>1. \A r \in Requests : wait_list[r] - Sent(r) \in Nat
    BY <1>3, <1>4
  <2> QED BY <1>1, <2>1
<1>7. in_memory' \in [Lines -> Nat]
  <2>1. \A x \in Lines : in_memory[x] + Sent(Request("READ", x)) \in Nat
    BY <1>3, <1>4, <1>5
  <2> QED BY <1>1, <2>1
<1>8. ASSUME NEW x \in Lines, AtMemory(x)
      PROVE  AtMemory(x)'
  <2> DEFINE r == Request("READ", x)
  <2>1. /\ r \in Requests /\ wait_list[r] \in Nat /\ in_memory[x] \in Nat
        /\ Sent(r) \in Nat /\ Sent(r) <= wait_list[r]
        /\ (in_memory[x] > 0 \/ wait_list[r] > 0)
    BY <1>3, <1>4, <1>5, <1>8 DEF AtMemory
  <2>2. wait_list'[r] = wait_list[r] - Sent(r) /\ in_memory'[x] = in_memory[x] + Sent(r)
    BY <1>1, <2>1
  <2>3. wait_list[r] - Sent(r) > 0 \/ in_memory[x] + Sent(r) > 0
    BY <2>1
  <2>4. in_memory'[x] > 0 \/ wait_list'[r] > 0
    BY <2>2, <2>3
  <2> QED BY <2>4 DEF AtMemory
<1>9. hit_list' \in SUBSET [ln : Lines, left : Nat \ {0}]
  <2>1. ASSUME NEW h \in rest
        PROVE  [h EXCEPT !.left = @ - 1] \in [ln : Lines, left : Nat \ {0}]
    <3>1. h \in [ln : Lines, left : Nat \ {0}] /\ h.left > 1
      BY <1>3
    <3>2. h.left - 1 \in Nat \ {0} /\ h.ln \in Lines
      BY <3>1
    <3>3. [h EXCEPT !.left = @ - 1] = [ln |-> h.ln, left |-> h.left - 1]
      BY <3>1
    <3> QED BY <3>2, <3>3
  <2> HIDE DEF rest
  <2> QED BY <1>1, <2>1
<1>10. ASSUME NEW x \in Lines \ S, InHitList(x)
       PROVE  InHitList(x)'
  <2>1. PICK h \in hit_list : h.ln = x
    BY <1>10 DEF InHitList
  <2>2. h \in [ln : Lines, left : Nat \ {0}]
    BY <1>3
  <2>3. h.left # 1
    BY <1>10, <2>1
  <2>4. h \in rest
    BY <2>2, <2>3
  <2>5. [h EXCEPT !.left = @ - 1].ln = x
    BY <2>1, <2>2
  <2>6. [h EXCEPT !.left = @ - 1] \in hit_list'
    <3> HIDE DEF rest
    <3> QED BY <1>1, <2>4
  <2> QED BY <2>5, <2>6 DEF InHitList
<1> HIDE DEF S, rest
<1>11. RestType'
  <2>1. 1 \in 0..NCores
    BY CoreAssumption
  <2>2. loads' \in SUBSET Lines
    BY <1>2, <1>3
  <2> QED BY <1>1, <1>6, <1>7, <1>9, <2>1, <2>2 DEF IInv, RestType
<1>12. AnswersInv'
  <2>1. \A x \in llc_mshr \ S : AtMemory(x) => AtMemory(x)'
    BY <1>3, <1>8
  <2>2. \A x \in Lines \ S : InHitList(x) => InHitList(x)'
    BY <1>10
  <2> QED BY <1>2, <2>1, <2>2, AnswersLeft
<1> QED
  BY <1>1, <1>2, <1>11, <1>12 DEF IInv

\* Reconciliation takes a line that nobody awaits out of the LLC and the L1s.
LEMMA InvalidateKeeps ==
  ASSUME IInv, NEW l \in Lines, send_invalidate(l)
  PROVE  IInv'
<1>1. /\ invs < MaxInvs /\ Hit(llc, l) /\ \A d \in Cores : Unlocked(l1[d], l)
      /\ llc' = Without(llc, l) /\ l1' = Invalidated(l1, l)
      /\ wait_list' = WriteBacks(llc, l1, l)
      /\ unsaved' = StillUnsaved(llc, l1, l, unsaved) /\ invs' = invs + 1
      /\ l1_mshr' = l1_mshr /\ llc_mshr' = llc_mshr /\ hit_list' = hit_list
      /\ in_memory' = in_memory /\ loads' = loads /\ asserts' = asserts
      /\ turn' = turn /\ reqs' = reqs
  BY DEF send_invalidate
<1>2. /\ l1 \in [Cores -> Caches] /\ llc \in Caches /\ Good(llc) /\ llc.lock = llc_mshr
      /\ llc_mshr \in SUBSET Lines /\ Fits(llc, LlcIndex, LlcAssoc)
      /\ Sound(l1, l1_mshr, llc, llc_mshr)
      /\ \A x \in llc_mshr : x \in l1_mshr[Owner[x]]
      /\ \A d \in Cores : Good(l1[d]) /\ Held(l1[d]) \subseteq Held(llc)
      /\ \A x \in unsaved : DirtyAnywhere(llc, l1, x)
  BY DEF IInv, SoundInv, Sound, Good, Nested, WritesKept
<1>3. /\ wait_list \in [Requests -> Nat] /\ unsaved \in SUBSET Lines
      /\ Request("WRITE", l) \in Requests
  BY DEF IInv, RestType, Requests, Request
<1>4. l \notin llc.lock /\ \A d \in Cores : l \notin l1[d].lock
  BY <1>1 DEF Hit, Unlocked
<1>5. /\ Good(llc') /\ Held(llc') = Held(llc) \ {l} /\ llc'.lock = llc_mshr
      /\ llc'.dirty = llc.dirty \ {l}
  <2>1. llc.lock \ {l} = llc_mshr
    BY <1>2, <1>4
  <2> QED BY <1>1, <1>2, <2>1, WithoutProps
<1>6. /\ l1' \in [Cores -> Caches]
      /\ \A d \in Cores : /\ Good(l1'[d]) /\ l1'[d].lock = l1[d].lock
                          /\ Held(l1'[d]) = Held(l1[d]) \ {l}
  <2>1. /\ Invalidated(l1, l) \in [Cores -> Caches]
        /\ \A d \in Cores : /\ Good(Invalidated(l1, l)[d])
                            /\ Invalidated(l1, l)[d].lock = l1[d].lock
                            /\ Held(Invalidated(l1, l)[d]) = Held(l1[d]) \ {l}
    BY <1>2, <1>4, InvalidatedProps, Zenon
  <2> QED BY <1>1, <2>1
<1>7. SoundInv'
  <2>1. LlcAssoc \in Nat
    BY SizeAssumption
  <2>2. Fits(llc', LlcIndex, LlcAssoc)
    BY <1>2, <1>5, <2>1, FitsFewer
  <2>3. \A d \in Cores : /\ Good(l1'[d]) /\ l1'[d].lock = l1[d].lock
                         /\ Held(l1'[d]) \subseteq Held(l1[d])
    BY <1>6
  <2>4. Sound(l1', l1_mshr, llc', llc_mshr)
    BY <1>2, <1>5, <1>6, <2>2, <2>3, SoundKept
  <2> QED BY <1>1, <2>4 DEF SoundInv
<1>8. Nested'
  BY <1>2, <1>5, <1>6 DEF Nested
<1>9. unsaved' \in SUBSET Lines /\ WritesKept'
  <2>1. unsaved' \in SUBSET Lines /\ \A x \in unsaved' : x \in unsaved /\ x # l
    BY <1>1, <1>2, <1>3 DEF StillUnsaved
  <2>2. ASSUME NEW x \in unsaved'
        PROVE  DirtyAnywhere(llc', l1', x)
    <3>1. x \in unsaved /\ x # l /\ DirtyAnywhere(llc, l1, x)
      BY <1>2, <2>1
    <3> QED BY <1>1, <1>2, <1>5, <3>1, DirtyKept
  <2> QED BY <2>1, <2>2 DEF WritesKept
<1>10. /\ wait_list' \in [Requests -> Nat]
       /\ \A r \in Requests : wait_list'[r] >= wait_list[r]
  <2>1. CASE DirtyAnywhere(llc, l1, l)
    BY <1>1, <1>3, <2>1, QueuedProps DEF WriteBacks, Queued
  <2>2. CASE ~ DirtyAnywhere(llc, l1, l)
    BY <1>1, <1>3, <2>2 DEF WriteBacks
  <2> QED BY <2>1, <2>2
<1>11. RestType'
  <2>1. invs' \in 0..MaxInvs
    BY <1>1, SizeAssumption DEF IInv, RestType
  <2> QED BY <1>1, <1>9, <1>10, <2>1 DEF IInv, RestType
<1>12. AnswersInv'
  <2>1. ASSUME NEW x \in llc_mshr, AtMemory(x)
        PROVE  AtMemory(x)'
    <3>1. Request("READ", x) \in Requests
      BY <1>2 DEF Requests, Request
    <3>2. /\ wait_list[Request("READ", x)] \in Nat /\ wait_list'[Request("READ", x)] \in Nat
          /\ wait_list'[Request("READ", x)] >= wait_list[Request("READ", x)]
      BY <1>3, <1>10, <3>1
    <3> QED BY <1>1, <2>1, <3>2 DEF AtMemory
  <2>2. \A x \in Lines : InHitList(x) => InHitList(x)'
    BY <1>1 DEF InHitList
  <2>3. /\ llc_mshr' = llc_mshr \ {} /\ loads' = loads \ {}
        /\ \A d \in Cores : l1_mshr'[d] = l1_mshr[d] \ {}
    BY <1>1
  <2> QED BY <2>1, <2>2, <2>3, AnswersLeft
<1> QED
  BY <1>1, <1>7, <1>8, <1>9, <1>11, <1>12 DEF IInv

(***************************************************************************)
(* The theorems.                                                           *)
(***************************************************************************)
\* A step that changes only turn or nothing.
LEMMA PassKeeps ==
  ASSUME IInv, UNCHANGED vars \/ \E c \in Cores : CorePasses(c)
  PROVE  IInv'
<1>1. /\ l1' = l1 /\ llc' = llc /\ l1_mshr' = l1_mshr /\ llc_mshr' = llc_mshr
      /\ hit_list' = hit_list /\ wait_list' = wait_list /\ in_memory' = in_memory
      /\ loads' = loads /\ unsaved' = unsaved /\ asserts' = asserts
      /\ reqs' = reqs /\ invs' = invs
  BY DEF vars, CorePasses
<1>2. turn' \in 0..NCores
  <2>1. NCores \in Nat /\ Cores = 1..NCores
    BY CoreAssumption DEF Cores
  <2>2. ASSUME NEW c \in Cores, CorePasses(c)
        PROVE  turn' \in 0..NCores
    BY <2>1, <2>2 DEF CorePasses, Following
  <2>3. CASE UNCHANGED vars
    BY <2>3 DEF vars, IInv, RestType
  <2> QED BY <2>2, <2>3
<1> QED
  BY <1>1, <1>2 DEF IInv, SoundInv, Sound, Nested, WritesKept, DirtyAnywhere, AnswersInv,
                    AtMemory, InHitList, RestType

\* The caches are empty at first.
LEMMA InitInv == Init => IInv
<1> SUFFICES ASSUME Init
             PROVE  IInv
  OBVIOUS
<1> DEFINE E == [order |-> <<>>, lock |-> {}, dirty |-> {}]
<1>1. /\ l1 = [c \in Cores |-> E] /\ llc = E /\ l1_mshr = [c \in Cores |-> {}]
      /\ llc_mshr = {} /\ hit_list = {} /\ wait_list = [r \in Requests |-> 0]
      /\ in_memory = [l \in Lines |-> 0] /\ loads = {} /\ unsaved = {} /\ asserts = TRUE
      /\ turn = 0 /\ reqs = 0 /\ invs = 0
  BY DEF Init
<1>2. E \in Caches /\ E.lock = {} /\ E.dirty = {} /\ E.order = <<>>
  BY DEF Caches
<1>3. Held(E) = {} /\ NoRepeats(E.order)
  BY <1>2 DEF Held, ToSet, NoRepeats
<1> HIDE DEF E
<1>4. Good(E)
  BY <1>2, <1>3 DEF Good
<1>5. Cardinality({}) = 0
  BY FS_EmptySet
<1>6. Fits(E, LlcIndex, LlcAssoc) /\ Fits(E, L1Index, L1Assoc)
  <2>1. \A k \in Lines : SameSet(E, k, LlcIndex) = {} /\ SameSet(E, k, L1Index) = {}
    BY <1>3 DEF SameSet
  <2>2. 0 <= LlcAssoc /\ 0 <= L1Assoc
    BY SizeAssumption
  <2> QED BY <1>5, <2>1, <2>2 DEF Fits
<1>7. SoundInv
  <2>1. 0 <= L1Mshrs
    BY SizeAssumption
  <2> QED BY <1>1, <1>2, <1>3, <1>4, <1>5, <1>6, <2>1 DEF SoundInv, Sound
<1>8. Nested /\ WritesKept /\ AnswersInv
  BY <1>1, <1>3 DEF Nested, WritesKept, AnswersInv
<1>9. RestType
  BY <1>1, CoreAssumption, SizeAssumption DEF RestType
<1> QED
  BY <1>1, <1>7, <1>8, <1>9 DEF IInv

\* Every step keeps it.
LEMMA NextKeeps ==
  ASSUME EnoughWays, IInv, [Next]_vars
  PROVE  IInv'
<1>1. ASSUME NEW c \in Cores, NEW t \in {"READ", "WRITE"}, NEW l \in Lines, L1Hit(c, t, l)
      PROVE  IInv'
  BY <1>1, L1HitKeeps
<1>2. ASSUME NEW c \in Cores, NEW t \in {"READ", "WRITE"}, NEW l \in Lines, L1MshrHit(c, t, l)
      PROVE  IInv'
  BY <1>2, L1MshrHitKeeps
<1>3. ASSUME NEW c \in Cores, NEW t \in {"READ", "WRITE"}, NEW l \in Lines, L1Miss(c, t, l)
      PROVE  IInv'
  BY <1>3, L1MissKeeps
<1>4. CASE UNCHANGED vars \/ \E c \in Cores : CorePasses(c)
  BY <1>4, PassKeeps
<1>5. CASE \E sent \in Parts : CacheTick(sent)
  BY <1>5, TickKeeps
<1>6. CASE \E l \in Lines : Processor_receive(l) \/ send_invalidate(l)
  BY <1>6, ReceiveKeeps, InvalidateKeeps
<1> QED
  BY <1>1, <1>2, <1>3, <1>4, <1>5, <1>6 DEF Next, CoreTick

\* The inductive invariant holds in every behaviour of the caches, whatever their
\* sizes, the number of cores and the number of lines, if the LLC has ways enough.
THEOREM Invariance == ASSUME EnoughWays PROVE Spec => []IInv
<1>1. Init => IInv
  BY InitInv
<1>2. IInv /\ [Next]_vars => IInv'
  BY NextKeeps
<1> QED
  BY <1>1, <1>2, PTL DEF Spec

\* The MSHRs of the LLC never have more entries than they may.
LEMMA LlcMshrsEnough ==
  ASSUME IInv
  PROVE  Cardinality(llc_mshr) <= LlcMshrs
<1>1. NCores \in Nat /\ Cores = 1..NCores /\ Owner \in [Lines -> Cores]
  BY CoreAssumption DEF Cores
<1>2. L1Mshrs \in Nat /\ LlcMshrs \in Nat /\ NCores * L1Mshrs <= LlcMshrs
  BY <1>1, SizeAssumption, MshrAssumption
<1>3. /\ l1 \in [Cores -> Caches] /\ llc_mshr \in SUBSET Lines
      /\ \A d \in Cores : /\ Good(l1[d]) /\ l1[d].lock = l1_mshr[d]
                          /\ Cardinality(l1_mshr[d]) <= L1Mshrs
      /\ \A x \in llc_mshr : x \in l1_mshr[Owner[x]]
  BY DEF IInv, SoundInv, Sound
<1>4. ASSUME NEW d \in Cores
      PROVE  IsFiniteSet(l1_mshr[d]) /\ Cardinality(l1_mshr[d]) <= L1Mshrs
  <2>1. IsFiniteSet(Held(l1[d])) /\ l1_mshr[d] \subseteq Held(l1[d])
    BY <1>3, HeldFinite DEF Good
  <2> QED BY <1>3, <2>1, FS_Subset
<1>5. \A x \in llc_mshr : \E d \in 1..NCores : x \in l1_mshr[d]
  BY <1>1, <1>3
<1>6. IsFiniteSet(llc_mshr) /\ Cardinality(llc_mshr) <= NCores * L1Mshrs
  BY <1>1, <1>2, <1>4, <1>5, Together
<1>7. Cardinality(llc_mshr) \in Nat /\ NCores * L1Mshrs \in Nat
  BY <1>1, <1>2, <1>6, FS_CardinalityType
<1> QED
  BY <1>2, <1>6, <1>7

\* The variables keep their types, and no set of a cache and no MSHR grows above
\* its size: need_eviction makes room before a line is added.
THEOREM TypeCorrect == ASSUME EnoughWays PROVE Spec => []TypeOK
<1>1. ASSUME IInv
      PROVE  TypeOK
  <2>1. /\ l1 \in [Cores -> Caches] /\ llc \in Caches
        /\ l1_mshr \in [Cores -> SUBSET Lines] /\ llc_mshr \in SUBSET Lines
        /\ Fits(llc, LlcIndex, LlcAssoc)
        /\ \A c \in Cores : Fits(l1[c], L1Index, L1Assoc) /\ Cardinality(l1_mshr[c]) <= L1Mshrs
    BY <1>1 DEF IInv, SoundInv, Sound, Good
  <2>2. Cardinality(llc_mshr) <= LlcMshrs
    BY <1>1, LlcMshrsEnough
  <2>3. \A l \in Lines : /\ Cardinality(SameSet(llc, l, LlcIndex)) <= LlcAssoc
                         /\ \A c \in Cores : Cardinality(SameSet(l1[c], l, L1Index)) <= L1Assoc
    BY <2>1 DEF Fits
  <2>4. RestType /\ asserts \in BOOLEAN
    BY <1>1 DEF IInv
  <2> QED BY <2>1, <2>2, <2>3, <2>4 DEF TypeOK, RestType
<1> QED
  BY <1>1, Invariance, PTL

\* The hierarchy is inclusive and no assertion of an L1 fails: evict takes from
\* the L1s what the LLC loses, and never a line that an L1 waits for.
THEOREM AlwaysInclusive == ASSUME EnoughWays PROVE Spec => []Inclusive
<1>1. ASSUME IInv
      PROVE  Inclusive
  <2>1. asserts /\ \A c \in Cores : Held(l1[c]) \subseteq Held(llc)
    BY <1>1 DEF IInv, Nested
  <2>2. ASSUME NEW c \in Cores, NEW l \in Lines, Hit(l1[c], l)
        PROVE  Hit(llc, l)
    <3>1. l \in Held(l1[c]) /\ l \notin l1_mshr[c] /\ Owner[l] = c
      BY <1>1, <2>2 DEF IInv, SoundInv, Sound, Hit
    <3>2. l \notin llc.lock
      BY <1>1, <3>1 DEF IInv, SoundInv, Sound
    <3> QED BY <2>1, <3>1, <3>2 DEF Hit
  <2> QED BY <2>1, <2>2 DEF Inclusive
<1> QED
  BY <1>1, Invariance, PTL

\* The iterators of the MSHR entries are good: what a cache awaits is what it has
\* locked, which is there, once.
THEOREM MshrsAlwaysSound == ASSUME EnoughWays PROVE Spec => []MshrsSound
<1>1. IInv => MshrsSound
  BY DEF IInv, SoundInv, Sound, Good, MshrsSound
<1> QED
  BY <1>1, Invariance, PTL

\* No write is forgotten on its way through the levels: until its write-back is
\* sent some cache has the line dirty.
THEOREM WritesAlwaysKept == ASSUME EnoughWays PROVE Spec => []WritesKept
<1>1. IInv => WritesKept
  BY DEF IInv
<1> QED
  BY <1>1, Invariance, PTL

\* A load that a core waits for is always under way, although an L1 ignores
\* whether the LLC has taken its miss: the LLC always does.
THEOREM LoadsAlwaysUnderWay == ASSUME EnoughWays PROVE Spec => []LoadsUnderWay
<1>1. ASSUME IInv
      PROVE  LoadsUnderWay
  <2> SUFFICES ASSUME NEW l \in loads, ~ InHitList(l)
               PROVE  l \in l1_mshr[Owner[l]] /\ l \in llc_mshr /\ AtMemory(l)
    BY DEF LoadsUnderWay
  <2>1. l \in Lines /\ Owner[l] \in Cores
    BY <1>1, CoreAssumption DEF IInv, RestType
  <2>2. l \in l1_mshr[Owner[l]]
    BY <1>1 DEF IInv, AnswersInv
  <2>3. l \in llc_mshr
    BY <1>1, <2>1, <2>2 DEF IInv, AnswersInv
  <2> QED BY <1>1, <2>2, <2>3 DEF IInv, AnswersInv
<1> QED
  BY <1>1, Invariance, PTL
=============================================================================
