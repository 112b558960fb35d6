------------------------- MODULE EpochPolicy_proofs -------------------------
(***************************************************************************)
(* The epoch mode: the flat allocation keeps its promise within it, frames *)
(* are never shared or lost, and no page is evicted for a colder one.  The *)
(* end of an epoch is two loops over the top hot pages; what holds after a *)
(* loop is proved by an invariant of its rounds.                           *)
(***************************************************************************)
EXTENDS EpochPolicy, PageLists_proofs, FiniteSetTheorems, TLAPS

(***************************************************************************)
(* The flat allocation never gives two virtual pages one page number, for  *)
(* any set of virtual pages, size of the fast memory and length of turns,  *)
(* and for either order in which map[k] = map.size() is evaluated.         *)
(***************************************************************************)

Count(map) == Cardinality(DOMAIN map)

\* The entries of a map are numbered from n on, each with a number of its own.
Numbered(map, n) ==
  /\ IsFiniteSet(DOMAIN map)
  /\ \A v \in DOMAIN map : map[v] \in n..(n + Count(map) - 1)
  /\ \A v, w \in DOMAIN map : map[v] = map[w] => v = w

\* The fast memory's numbers end where the slow memory's begin.
IInv ==
  /\ first \in {0, 1}
  /\ Numbered(l1_pte_map, first) /\ Numbered(l2_pte_map, first)
  /\ DOMAIN l1_pte_map \cap DOMAIN l2_pte_map = {}
  /\ l2_permanent_flag \in BOOLEAN
  /\ Count(l1_pte_map) <= L1MaxPages
  /\ Count(l1_pte_map) = L1MaxPages => l2_permanent_flag

\* A new entry gets the next number.
LEMMA EnteredNumbered ==
  ASSUME first \in {0, 1}, NEW map, Numbered(map, first), NEW v, v \notin DOMAIN map
  PROVE  /\ Numbered(Entered(map, v), first)
         /\ DOMAIN Entered(map, v) = DOMAIN map \cup {v}
         /\ Count(Entered(map, v)) = Count(map) + 1
         /\ Count(map) \in Nat
<1> DEFINE new == Entered(map, v)
<1>1. DOMAIN new = DOMAIN map \cup {v}
  BY DEF Entered
<1>2. IsFiniteSet(DOMAIN map) /\ Count(map) \in Nat
  BY FS_CardinalityType DEF Numbered, Count
<1>3. IsFiniteSet(DOMAIN new) /\ Count(new) = Count(map) + 1
  BY <1>1, <1>2, FS_AddElement DEF Count
<1>4. new[v] = first + Count(map)
  BY DEF Entered, Count
<1>5. ASSUME NEW w \in DOMAIN map
      PROVE  new[w] = map[w] /\ map[w] \in first..(first + Count(map) - 1)
  BY <1>5 DEF Entered, Numbered
<1>6. ASSUME NEW w \in DOMAIN new
      PROVE  new[w] \in first..(first + Count(new) - 1)
  <2>1. CASE w = v
    BY <2>1, <1>2, <1>3, <1>4
  <2>2. CASE w # v
    BY <2>2, <1>1, <1>2, <1>3, <1>5
  <2>3. QED
    BY <2>1, <2>2
<1>7. ASSUME NEW w \in DOMAIN new, NEW u \in DOMAIN new, new[w] = new[u]
      PROVE  w = u
  <2>1. CASE w = v /\ u # v
    BY <2>1, <1>7, <1>1, <1>2, <1>4, <1>5
  <2>2. CASE w # v /\ u = v
    BY <2>2, <1>7, <1>1, <1>2, <1>4, <1>5
  <2>3. CASE w # v /\ u # v
    BY <2>3, <1>7, <1>1, <1>5 DEF Numbered
  <2>4. QED
    BY <2>1, <2>2, <2>3
<1>8. Numbered(new, first)
  BY <1>3, <1>6, <1>7 DEF Numbered
<1>9. QED
  BY <1>1, <1>2, <1>3, <1>8

\* No page is numbered at first.
LEMMA InitIInv == AllocInit => IInv
<1> SUFFICES ASSUME AllocInit PROVE IInv
  OBVIOUS
<1>1. DOMAIN l1_pte_map = {} /\ DOMAIN l2_pte_map = {}
  BY DEF AllocInit
<1>2. IsFiniteSet({}) /\ Cardinality({}) = 0
  BY FS_EmptySet
<1>3. Numbered(l1_pte_map, first) /\ Numbered(l2_pte_map, first)
  BY <1>1, <1>2 DEF Numbered
<1>4. Count(l1_pte_map) <= L1MaxPages /\ Count(l1_pte_map) # L1MaxPages
  BY <1>1, <1>2, AllocatorAssumption DEF AllocatorAssumption, Count
<1>5. l2_permanent_flag \in BOOLEAN /\ first \in {0, 1}
  BY DEF AllocInit
<1>6. DOMAIN l1_pte_map \cap DOMAIN l2_pte_map = {}
  BY <1>1
<1>7. QED
  BY <1>3, <1>4, <1>5, <1>6, Zenon DEF IInv

\* Every allocation keeps the inductive invariant.
LEMMA NextIInv == IInv /\ [AllocNext]_allocVars => IInv'
<1> SUFFICES ASSUME IInv, [AllocNext]_allocVars PROVE IInv'
  OBVIOUS
<1>1. CASE UNCHANGED allocVars
  BY <1>1 DEF IInv, Numbered, Count, allocVars
<1>2. ASSUME NEW v \in VPages, MapFast(v)
      PROVE  IInv'
  <2>1. /\ v \notin DOMAIN l1_pte_map /\ v \notin DOMAIN l2_pte_map
        /\ l1_pte_map' = Entered(l1_pte_map, v)
        /\ first' = first /\ l2_pte_map' = l2_pte_map
    BY <1>2 DEF MapFast, Mapped
  <2>2. /\ Numbered(l1_pte_map', first')
        /\ DOMAIN l1_pte_map' = DOMAIN l1_pte_map \cup {v}
        /\ Count(l1_pte_map') = Count(l1_pte_map) + 1
        /\ Count(l1_pte_map) \in Nat
    BY <2>1, EnteredNumbered DEF IInv
  <2>3. Numbered(l2_pte_map', first') /\ first' \in {0, 1}
    BY <2>1 DEF IInv
  <2>4. DOMAIN l1_pte_map' \cap DOMAIN l2_pte_map' = {}
    BY <2>1, <2>2 DEF IInv
  <2>5. /\ ~l2_permanent_flag
        /\ l2_permanent_flag' = (Count(l1_pte_map) + 1 >= L1MaxPages)
    BY <1>2 DEF MapFast, Full, Count
  <2>6. Count(l1_pte_map) < L1MaxPages
    BY <2>2, <2>5, AllocatorAssumption DEF AllocatorAssumption, IInv
  <2> DEFINE full == Count(l1_pte_map) + 1 >= L1MaxPages
  <2>7. /\ Count(l1_pte_map') <= L1MaxPages
        /\ Count(l1_pte_map') = L1MaxPages => full
        /\ full \in BOOLEAN
    BY <2>2, <2>6, AllocatorAssumption DEF AllocatorAssumption
  <2>f. l2_permanent_flag' = full
    BY <2>5
  <2> HIDE DEF full
  <2>8. /\ Count(l1_pte_map') = L1MaxPages => l2_permanent_flag'
        /\ l2_permanent_flag' \in BOOLEAN
    BY <2>f, <2>7
  <2>9. QED
    BY <2>2, <2>3, <2>4, <2>7, <2>8 DEF IInv, Numbered, Count
<1>3. ASSUME NEW v \in VPages, MapSlow(v)
      PROVE  IInv'
  <2>1. /\ v \notin DOMAIN l1_pte_map /\ v \notin DOMAIN l2_pte_map
        /\ l2_pte_map' = Entered(l2_pte_map, v)
        /\ first' = first /\ l1_pte_map' = l1_pte_map
        /\ l2_permanent_flag' = l2_permanent_flag
    BY <1>3 DEF MapSlow, Mapped
  <2>2. /\ Numbered(l2_pte_map', first')
        /\ DOMAIN l2_pte_map' = DOMAIN l2_pte_map \cup {v}
    BY <2>1, EnteredNumbered DEF IInv
  <2>3. Numbered(l1_pte_map', first') /\ Count(l1_pte_map') = Count(l1_pte_map)
    BY <2>1 DEF IInv
  <2>4. DOMAIN l1_pte_map' \cap DOMAIN l2_pte_map' = {}
    BY <2>1, <2>2 DEF IInv
  <2>5. QED
    BY <2>1, <2>2, <2>3, <2>4 DEF IInv, Numbered, Count
<1>4. QED
  BY <1>1, <1>2, <1>3 DEF AllocNext, flat_allocate_va_to_pa

\* Numbered apart by the order of allocation in each memory, pages never share a number.
LEMMA IInvInjective == IInv => FlatInjective
<1> SUFFICES ASSUME IInv, NEW v \in Mapped, NEW w \in Mapped,
                    PageNumber(v) = PageNumber(w)
             PROVE  v = w
  BY DEF FlatInjective
<1>1. Count(l1_pte_map) \in Nat /\ Count(l2_pte_map) \in Nat
  BY FS_CardinalityType DEF IInv, Numbered, Count
<1>2. ASSUME NEW u \in DOMAIN l1_pte_map
      PROVE  PageNumber(u) = l1_pte_map[u] /\ l1_pte_map[u] \in Int
             /\ l1_pte_map[u] < first + L1MaxPages
  BY <1>1, AllocatorAssumption DEF AllocatorAssumption, IInv, Numbered, PageNumber
<1>3. ASSUME NEW u \in DOMAIN l2_pte_map
      PROVE  PageNumber(u) = L1MaxPages + l2_pte_map[u] /\ l2_pte_map[u] \in Int
             /\ l2_pte_map[u] >= first
  <2>1. u \notin DOMAIN l1_pte_map
    BY DEF IInv
  <2>2. QED
    BY <2>1, <1>1 DEF IInv, Numbered, PageNumber
<1>4. CASE v \in DOMAIN l1_pte_map /\ w \in DOMAIN l1_pte_map
  BY <1>4, <1>2 DEF IInv, Numbered
<1>5. CASE v \in DOMAIN l2_pte_map /\ w \in DOMAIN l2_pte_map
  <2>1. l2_pte_map[v] = l2_pte_map[w]
    BY <1>5, <1>3, AllocatorAssumption DEF AllocatorAssumption
  <2>2. QED
    BY <2>1, <1>5 DEF IInv, Numbered
<1>6. CASE v \in DOMAIN l1_pte_map /\ w \in DOMAIN l2_pte_map
  BY <1>6, <1>2, <1>3, AllocatorAssumption DEF AllocatorAssumption, IInv
<1>7. CASE v \in DOMAIN l2_pte_map /\ w \in DOMAIN l1_pte_map
  BY <1>7, <1>2, <1>3, AllocatorAssumption DEF AllocatorAssumption, IInv
<1>8. QED
  BY <1>4, <1>5, <1>6, <1>7 DEF Mapped

\* No two virtual pages share a page number (flat_allocate_va_to_pa), however large
\* the fast memory is and in whatever order the pages are first used.
THEOREM PagesNumberedApart == AllocSpec => []FlatInjective
<1>1. AllocSpec => []IInv
  BY InitIInv, NextIInv, PTL DEF AllocSpec
<1>2. QED
  BY <1>1, IInvInjective, PTL

(***************************************************************************)
(* The allocation within the epoch mode.                                   *)
(***************************************************************************)
\* Every step of the epoch mode maps a virtual page as the allocator does, or leaves
\* the allocator alone.
LEMMA StepsAllocate == [Next]_vars => [AllocNext]_allocVars
<1> SUFFICES ASSUME [Next]_vars PROVE [AllocNext]_allocVars
  OBVIOUS
<1>1. CASE UNCHANGED vars
  BY <1>1 DEF vars
<1>2. ASSUME NEW v \in VPages, page_allocator(v)
      PROVE  AllocNext
  BY <1>2 DEF page_allocator, AllocNext
<1>3. ASSUME NEW p, hma_handler(p) \/ hma_epoch_count_keeper(p)
      PROVE  UNCHANGED allocVars
  BY <1>3, Zenon DEF hma_handler, hma_epoch_count_keeper
<1>4. CASE hma_policy_invoker
  BY <1>4 DEF hma_policy_invoker
<1>5. QED
  BY <1>1, <1>2, <1>3, <1>4 DEF Next

\* The page table of the epoch mode never takes two virtual pages for one page: the
\* number it is indexed by is the allocator's.
THEOREM EpochPagesApart == Spec => []FlatInjective
<1>1. Init => AllocInit
  BY DEF Init
<1>2. Spec => []IInv
  BY <1>1, InitIInv, StepsAllocate, NextIInv, PTL DEF Spec
<1>3. QED
  BY <1>2, IInvInjective, PTL

(***************************************************************************)
(* Loops.  Induction over the natural numbers, in the form of their        *)
(* well-founded order, for the values a loop variable takes.               *)
(***************************************************************************)
\* What holds before a loop and is kept by its body holds after every round.
LEMMA LoopInvariant ==
  ASSUME NEW n \in Nat, NEW g, NEW S, g[0] \in S,
         \A i \in 1..n : g[i - 1] \in S => g[i] \in S
  PROVE  \A i \in 0..n : g[i] \in S
<1> DEFINE T == {i \in 0..n : g[i] \notin S}
<1>1. SUFFICES ASSUME T # {} PROVE FALSE
  OBVIOUS
<1>2. PICK m \in T : \A k \in T : <<k, m>> \notin OpToRel(<, Nat)
  <2>1. IsWellFoundedOn(OpToRel(<, Nat), Nat)
    BY NatLessThanWellFounded
  <2>2. T \subseteq Nat
    OBVIOUS
  <2> HIDE DEF T
  <2> QED
    BY <1>1, <2>1, <2>2, WFMin, Zenon
<1>3. m # 0 /\ m \in Nat
  OBVIOUS
<1>4. m - 1 \in T
  BY <1>3
<1>5. <<m - 1, m>> \in OpToRel(<, Nat)
  BY <1>3 DEF OpToRel
<1> QED
  BY <1>2, <1>4, <1>5

\* The values g of a loop variable in n rounds that start from b, its body being F.
LoopRun(g, n, S, b, F) ==
  g \in [0..n -> S] /\ g[0] = b /\ \A i \in 1..n : g[i] = F[<<g[i - 1], i>>]

\* A loop whose body maps the states S into S runs to its end.
LEMMA LoopRuns ==
  ASSUME NEW n \in Nat, NEW S, NEW b \in S, NEW F \in [S \X (1..n) -> S]
  PROVE  \E g : LoopRun(g, n, S, b, F)
<1> DEFINE Upto(k, g) == /\ g \in [0..k -> S] /\ g[0] = b
                         /\ \A i \in 1..k : g[i] = F[<<g[i - 1], i>>]
           N == {k \in 0..n : \E g : Upto(k, g)}
           id == [k \in 0..n |-> k]
<1>1. id[0] \in N
  <2>1. Upto(0, [i \in 0..0 |-> b])
    OBVIOUS
  <2>2. id[0] = 0 /\ 0 \in 0..n
    OBVIOUS
  <2> HIDE DEF Upto, id
  <2> QED
    BY <2>1, <2>2
<1>2. ASSUME NEW k \in 1..n, id[k - 1] \in N
      PROVE  id[k] \in N
  <2>1. PICK g : Upto(k - 1, g)
    BY <1>2
  <2> DEFINE h == [i \in 0..k |-> IF i = k THEN F[<<g[k - 1], k>>] ELSE g[i]]
  <2>2. Upto(k, h)
    <3>1. F[<<g[k - 1], k>>] \in S
      BY <2>1
    <3>2. h \in [0..k -> S] /\ h[0] = b
      <4>1. ASSUME NEW i \in 0..k
            PROVE  h[i] \in S
        BY <2>1, <3>1
      <4>2. h[0] = b
        BY <2>1
      <4>3. h \in [0..k -> S]
        BY <4>1
      <4> QED
        BY <4>2, <4>3
    <3>3. ASSUME NEW i \in 1..k
          PROVE  h[i] = F[<<h[i - 1], i>>]
      <4>1. h[i - 1] = g[i - 1]
        OBVIOUS
      <4>2. CASE i = k
        <5>1. h[i] = F[<<g[i - 1], i>>]
          BY <4>2
        <5> HIDE DEF h
        <5> QED
          BY <4>1, <5>1
      <4>3. CASE i # k
        <5>1. i \in 1..(k - 1) /\ h[i] = g[i]
          BY <4>3
        <5> QED
          BY <2>1, <4>1, <5>1
      <4> QED
        BY <4>2, <4>3
    <3> QED
      BY <3>2, <3>3
  <2> HIDE DEF h, Upto
  <2> QED
    BY <2>2
<1> HIDE DEF N, id
<1>3. \A k \in 0..n : id[k] \in N
  BY <1>1, <1>2, LoopInvariant
<1>4. \E g : Upto(n, g)
  <2>1. n \in 0..n
    OBVIOUS
  <2>2. id[n] = n
    BY <2>1 DEF id
  <2>3. n \in N
    BY <1>3, <2>1, <2>2
  <2> HIDE DEF Upto
  <2> QED BY <2>3 DEF N
<1> QED
  BY <1>4 DEF LoopRun

(***************************************************************************)
(* Frames.                                                                 *)
(***************************************************************************)
\* Every frame of a memory is either free or some page's, no frame is two pages' or
\* twice on a free list: pages K, their memories d, frames a, and the free lists l.
Owned(K, d, a, m, f) == \E p \in K : d[p] = m /\ a[p] = f
FramesOk(K, d, a, l) ==
  /\ d \in [K -> Mems] /\ a \in [K -> Nat] /\ l \in [Mems -> Seq(Nat)]
  /\ \A p \in K : a[p] \in 0..(Frames(d[p]) - 1)
  /\ \A p, q \in K : d[p] = d[q] /\ a[p] = a[q] => p = q
  /\ \A m \in Mems : /\ NoRepeats(l[m])
                     /\ ToSet(l[m]) \subseteq 0..(Frames(m) - 1)
                     /\ \A f \in 0..(Frames(m) - 1) :
                          f \in ToSet(l[m]) <=> ~ Owned(K, d, a, m, f)

\* A list of pages K of the fast memory, none twice.
ListOk(K, d, list) ==
  /\ list \in Seq(K) /\ NoRepeats(list)
  /\ \A p \in ToSet(list) : d[p] = "l1m"

\* The first element leaves a list for good.
LEMMA TailSet ==
  ASSUME NEW S, NEW s \in Seq(S), NoRepeats(s), s # <<>>
  PROVE  /\ Tail(s) \in Seq(S) /\ NoRepeats(Tail(s))
         /\ Head(s) \in S /\ Head(s) \in ToSet(s)
         /\ ToSet(Tail(s)) = ToSet(s) \ {Head(s)}
<1>1. Len(s) >= 1
  OBVIOUS
<1>2. /\ Tail(s) \in Seq(S) /\ Head(s) \in S /\ Head(s) = s[1]
      /\ Len(Tail(s)) = Len(s) - 1 /\ NoRepeats(Tail(s))
      /\ \A i \in 1..Len(Tail(s)) : Tail(s)[i] # Head(s) /\ i + 1 \in 1..Len(s)
                                   /\ Tail(s)[i] = s[i + 1]
  BY <1>1, TailProps
<1>3. ASSUME NEW x \in ToSet(s), x # Head(s)
      PROVE  x \in ToSet(Tail(s))
  <2>1. PICK j \in 1..Len(s) : s[j] = x
    BY <1>3, ElementsSet
  <2>2. j - 1 \in 1..Len(Tail(s)) /\ j = (j - 1) + 1
    BY <1>1, <1>2, <1>3, <2>1
  <2>3. Tail(s)[j - 1] = x
    BY <1>2, <2>1, <2>2
  <2> QED
    BY <1>2, <2>2, <2>3, ElementsSet
<1>4. ASSUME NEW x \in ToSet(Tail(s))
      PROVE  x \in ToSet(s) /\ x # Head(s)
  <2> DEFINE t == Tail(s)
  <2>1. t \in Seq(S) /\ x \in ToSet(t)
    BY <1>2, <1>4
  <2>2. \E i \in 1..Len(t) : t[i] = x
    <3> HIDE DEF t
    <3> QED BY <2>1, ElementsSet
  <2>3. PICK i \in 1..Len(Tail(s)) : Tail(s)[i] = x
    BY <2>2
  <2> QED
    BY <1>2, <2>3, ElementsSet
<1>5. Head(s) \in ToSet(s)
  BY <1>1, <1>2, ElementsSet
<1> QED
  BY <1>2, <1>3, <1>4, <1>5

\* An element that is new to a list may be appended.
LEMMA AppendSet ==
  ASSUME NEW S, NEW s \in Seq(S), NEW x \in S, NoRepeats(s), x \notin ToSet(s)
  PROVE  /\ Append(s, x) \in Seq(S) /\ NoRepeats(Append(s, x))
         /\ ToSet(Append(s, x)) = ToSet(s) \cup {x}
<1> DEFINE t == Append(s, x)
<1>1. /\ t \in Seq(S) /\ Len(t) = Len(s) + 1 /\ Len(s) \in Nat
      /\ t[Len(s) + 1] = x /\ \A i \in 1..Len(s) : t[i] = s[i]
  OBVIOUS
<1> HIDE DEF t
<1>2. \A i \in 1..Len(s) : s[i] # x
  BY ElementsSet
<1>3. \A i \in 1..Len(t) : i \in 1..Len(s) \/ i = Len(s) + 1
  BY <1>1
<1>4. NoRepeats(t)
  BY <1>1, <1>2, <1>3 DEF NoRepeats
<1>5. \A y : y \in ToSet(t) <=> y \in ToSet(s) \/ y = x
  <2>1. \A y : y \in ToSet(t) <=> \E i \in 1..Len(t) : t[i] = y
    BY <1>1, ElementsSet
  <2>2. \A y : y \in ToSet(s) <=> \E i \in 1..Len(s) : s[i] = y
    BY ElementsSet
  <2>3. 1..Len(s) \subseteq 1..Len(t) /\ Len(s) + 1 \in 1..Len(t)
    BY <1>1
  <2> QED
    BY <1>1, <1>3, <2>1, <2>2, <2>3
<1> QED
  BY <1>1, <1>4, <1>5 DEF t

\* A page that gets its first frame takes the head of a free list.
LEMMA AllocateFrame ==
  ASSUME NEW K, NEW d, NEW a, NEW l, FramesOk(K, d, a, l),
         NEW p, p \notin K, NEW m \in Mems, l[m] # <<>>
  PROVE  FramesOk(K \cup {p}, With(d, p, m), With(a, p, Head(l[m])),
                  [l EXCEPT ![m] = Tail(@)])
<1> DEFINE K1 == K \cup {p}
           d1 == With(d, p, m)
           a1 == With(a, p, Head(l[m]))
           l1 == [l EXCEPT ![m] = Tail(@)]
<1>1. d \in [K -> Mems] /\ a \in [K -> Nat] /\ l \in [Mems -> Seq(Nat)]
  BY DEF FramesOk
<1>2. /\ Tail(l[m]) \in Seq(Nat) /\ NoRepeats(Tail(l[m]))
      /\ Head(l[m]) \in Nat /\ Head(l[m]) \in ToSet(l[m])
      /\ ToSet(Tail(l[m])) = ToSet(l[m]) \ {Head(l[m])}
  BY <1>1, TailSet DEF FramesOk
<1>3. /\ d1 \in [K1 -> Mems] /\ a1 \in [K1 -> Nat]
      /\ d1[p] = m /\ a1[p] = Head(l[m])
      /\ \A q \in K : d1[q] = d[q] /\ a1[q] = a[q]
  BY <1>1, <1>2 DEF With
<1>4. /\ l1 \in [Mems -> Seq(Nat)] /\ l1[m] = Tail(l[m])
      /\ \A n \in Mems : n # m => l1[n] = l[n]
  BY <1>1, <1>2
<1> HIDE DEF d1, a1, l1
<1>5. ~ Owned(K, d, a, m, Head(l[m])) /\ Head(l[m]) \in 0..(Frames(m) - 1)
  BY <1>2 DEF FramesOk
<1>6. \A q \in K1 : a1[q] \in 0..(Frames(d1[q]) - 1)
  BY <1>3, <1>5 DEF FramesOk
<1>7. \A q, r \in K1 : d1[q] = d1[r] /\ a1[q] = a1[r] => q = r
  BY <1>3, <1>5 DEF FramesOk, Owned
<1>8. ASSUME NEW n \in Mems
      PROVE  /\ NoRepeats(l1[n])
             /\ ToSet(l1[n]) \subseteq 0..(Frames(n) - 1)
             /\ \A f \in 0..(Frames(n) - 1) :
                  f \in ToSet(l1[n]) <=> ~ Owned(K1, d1, a1, n, f)
  <2>1. \A f : Owned(K1, d1, a1, n, f)
              <=> Owned(K, d, a, n, f) \/ (n = m /\ f = Head(l[m]))
    <3>1. ASSUME NEW f, Owned(K1, d1, a1, n, f)
          PROVE  Owned(K, d, a, n, f) \/ (n = m /\ f = Head(l[m]))
      <4>1. PICK q \in K1 : d1[q] = n /\ a1[q] = f
        BY <3>1 DEF Owned
      <4> QED
        BY <1>3, <4>1 DEF Owned
    <3>2. ASSUME NEW f, Owned(K, d, a, n, f)
          PROVE  Owned(K1, d1, a1, n, f)
      <4>1. PICK q \in K : d[q] = n /\ a[q] = f
        BY <3>2 DEF Owned
      <4> QED
        BY <1>3, <4>1 DEF Owned
    <3>3. Owned(K1, d1, a1, m, Head(l[m]))
      BY <1>3 DEF Owned
    <3> QED
      BY <3>1, <3>2, <3>3
  <2>2. /\ NoRepeats(l[n]) /\ ToSet(l[n]) \subseteq 0..(Frames(n) - 1)
        /\ \A f \in 0..(Frames(n) - 1) : f \in ToSet(l[n]) <=> ~ Owned(K, d, a, n, f)
    BY DEF FramesOk
  <2>3. CASE n = m
    BY <1>2, <1>4, <2>1, <2>2, <2>3
  <2>4. CASE n # m
    BY <1>4, <2>1, <2>2, <2>4
  <2> QED
    BY <2>3, <2>4
<1> QED
  BY <1>3, <1>4, <1>6, <1>7, <1>8 DEF FramesOk, d1, a1, l1

\* A page of the slow memory moves to the head of the fast free list, and its
\* frame goes to the end of the slow one.
LEMMA MoveFrame ==
  ASSUME NEW K, NEW d, NEW a, NEW l, FramesOk(K, d, a, l),
         NEW p \in K, d[p] = "l2m", l["l1m"] # <<>>
  PROVE  FramesOk(K, [d EXCEPT ![p] = "l1m"], [a EXCEPT ![p] = Head(l["l1m"])],
                  [Returned(l, "l2m", a[p]) EXCEPT !["l1m"] = Tail(@)])
<1> DEFINE d1 == [d EXCEPT ![p] = "l1m"]
           h == Head(l["l1m"])
           a1 == [a EXCEPT ![p] = h]
           l1 == [Returned(l, "l2m", a[p]) EXCEPT !["l1m"] = Tail(@)]
<1>1. d \in [K -> Mems] /\ a \in [K -> Nat] /\ l \in [Mems -> Seq(Nat)]
  BY DEF FramesOk
<1>2. /\ Tail(l["l1m"]) \in Seq(Nat) /\ NoRepeats(Tail(l["l1m"]))
      /\ h \in Nat /\ h \in ToSet(l["l1m"])
      /\ ToSet(Tail(l["l1m"])) = ToSet(l["l1m"]) \ {h}
  BY <1>1, TailSet DEF FramesOk, Mems
<1>3. a[p] \in Nat /\ a[p] \notin ToSet(l["l2m"]) /\ NoRepeats(l["l2m"])
      /\ a[p] \in 0..(Frames("l2m") - 1)
  BY <1>1 DEF FramesOk, Owned, Mems
<1>4. /\ Append(l["l2m"], a[p]) \in Seq(Nat) /\ NoRepeats(Append(l["l2m"], a[p]))
      /\ ToSet(Append(l["l2m"], a[p])) = ToSet(l["l2m"]) \cup {a[p]}
  <2>1. l["l2m"] \in Seq(Nat)
    BY <1>1 DEF Mems
  <2> QED
    BY <1>3, <2>1, AppendSet
<1>5. /\ d1 \in [K -> Mems] /\ d1[p] = "l1m" /\ \A q \in K : q # p => d1[q] = d[q]
  BY <1>1 DEF Mems
<1>6. /\ a1 \in [K -> Nat] /\ a1[p] = h /\ \A q \in K : q # p => a1[q] = a[q]
  BY <1>1, <1>2
<1>7. /\ l1 \in [Mems -> Seq(Nat)]
      /\ l1["l1m"] = Tail(l["l1m"]) /\ l1["l2m"] = Append(l["l2m"], a[p])
  BY <1>1, <1>2, <1>4 DEF Returned, Mems
<1> HIDE DEF d1, a1, l1, h
<1>8. ~ Owned(K, d, a, "l1m", h) /\ h \in 0..(Frames("l1m") - 1)
  BY <1>2 DEF FramesOk, Mems
<1>9. \A q \in K : a1[q] \in 0..(Frames(d1[q]) - 1)
  BY <1>5, <1>6, <1>8 DEF FramesOk
<1>10. \A q, r \in K : d1[q] = d1[r] /\ a1[q] = a1[r] => q = r
  <2>1. \A q, r \in K : d[q] = d[r] /\ a[q] = a[r] => q = r
    BY DEF FramesOk
  <2>2. \A q \in K : ~ (d[q] = "l1m" /\ a[q] = h)
    BY <1>8 DEF Owned
  <2> QED
    BY <1>5, <1>6, <2>1, <2>2
<1>11. ASSUME NEW n \in Mems
       PROVE  /\ NoRepeats(l1[n])
              /\ ToSet(l1[n]) \subseteq 0..(Frames(n) - 1)
              /\ \A f \in 0..(Frames(n) - 1) :
                   f \in ToSet(l1[n]) <=> ~ Owned(K, d1, a1, n, f)
  <2>1. CASE n = "l1m"
    <3>1. \A f : Owned(K, d1, a1, n, f) <=> Owned(K, d, a, n, f) \/ f = h
      BY <1>5, <1>6, <2>1 DEF Owned
    <3> QED
      BY <1>2, <1>7, <2>1, <3>1 DEF FramesOk
  <2>2. CASE n = "l2m"
    <3>1. \A f : Owned(K, d1, a1, n, f) <=> Owned(K, d, a, n, f) /\ f # a[p]
      <4>1. \A q \in K : q # p => /\ d1[q] = d[q] /\ a1[q] = a[q]
                                  /\ d[q] = d[p] => a[q] # a[p]
        BY <1>5, <1>6 DEF FramesOk
      <4>2. d1[p] # n /\ d[p] = n
        BY <1>5, <2>2
      <4>3. ASSUME NEW f, NEW q \in K
            PROVE  d1[q] = n /\ a1[q] = f <=> d[q] = n /\ a[q] = f /\ f # a[p]
        <5>1. CASE q = p
          BY <4>2, <5>1
        <5>2. CASE q # p
          <6>1. d1[q] = d[q] /\ a1[q] = a[q]
            BY <4>1, <5>2
          <6>2. d[q] = n => a[q] # a[p]
            BY <4>1, <4>2, <5>2
          <6> QED
            BY <6>1, <6>2
        <5> QED
          BY <5>1, <5>2
      <4> QED
        BY <4>3 DEF Owned
    <3> QED
      BY <1>3, <1>4, <1>7, <2>2, <3>1 DEF FramesOk
  <2> QED
    BY <2>1, <2>2 DEF Mems
<1> QED
  BY <1>5, <1>6, <1>7, <1>9, <1>10, <1>11 DEF FramesOk, d1, a1, l1, h

\* Two pages of different memories change frames.
LEMMA SwapFrames ==
  ASSUME NEW K, NEW d, NEW a, NEW l, FramesOk(K, d, a, l),
         NEW p \in K, d[p] = "l2m", NEW v \in K, d[v] = "l1m"
  PROVE  FramesOk(K, [d EXCEPT ![p] = "l1m", ![v] = "l2m"],
                  [a EXCEPT ![p] = a[v], ![v] = a[p]], l)
<1> DEFINE d1 == [d EXCEPT ![p] = "l1m", ![v] = "l2m"]
           a1 == [a EXCEPT ![p] = a[v], ![v] = a[p]]
<1>1. d \in [K -> Mems] /\ a \in [K -> Nat] /\ l \in [Mems -> Seq(Nat)] /\ p # v
  BY DEF FramesOk
<1>2. /\ d1 \in [K -> Mems] /\ d1[p] = "l1m" /\ d1[v] = "l2m"
      /\ \A q \in K : q \notin {p, v} => d1[q] = d[q]
  BY <1>1 DEF Mems
<1>3. /\ a1 \in [K -> Nat] /\ a1[p] = a[v] /\ a1[v] = a[p]
      /\ \A q \in K : q \notin {p, v} => a1[q] = a[q]
  BY <1>1
<1> HIDE DEF d1, a1
<1>4. \A q \in K : a1[q] \in 0..(Frames(d1[q]) - 1)
  BY <1>2, <1>3 DEF FramesOk
<1>5. \A q, r \in K : d1[q] = d1[r] /\ a1[q] = a1[r] => q = r
  <2>1. \A q, r \in K : d[q] = d[r] /\ a[q] = a[r] => q = r
    BY DEF FramesOk
  <2> QED
    BY <1>2, <1>3, <2>1
<1>6. \A m \in Mems : \A f : Owned(K, d1, a1, m, f) <=> Owned(K, d, a, m, f)
  BY <1>2, <1>3 DEF Owned, Mems
<1> QED
  BY <1>1, <1>2, <1>3, <1>4, <1>5, <1>6 DEF FramesOk, d1, a1

(***************************************************************************)
(* The LRU list, and hma_set_hot_pages.                                    *)
(***************************************************************************)
\* Behind a page of H come pages of H only.
HotLast(list, H) ==
  \A i, j \in 1..Len(list) : i < j /\ list[i] \in H => list[j] \in H

\* Erasing a page keeps the others in order.
LEMMA DroppedOrder ==
  ASSUME NEW S, NEW s \in Seq(S), NEW p,
         NEW i \in 1..Len(Dropped(s, p)), NEW j \in 1..Len(Dropped(s, p)), i < j
  PROVE  \E k, m \in 1..Len(s) : k < m /\ Dropped(s, p)[i] = s[k]
                                       /\ Dropped(s, p)[j] = s[m]
<1>1. CASE \E x \in 1..Len(s) : s[x] = p
  <2> DEFINE c == PosIn(s, p)
  <2>1. c \in 1..Len(s)
    BY <1>1 DEF PosIn
  <2> HIDE DEF c
  <2>2. Dropped(s, p) = RemoveAt(s, c)
    BY <1>1 DEF Dropped, c
  <2>3. /\ Len(RemoveAt(s, c)) = Len(s) - 1
        /\ \A x \in 1..(Len(s) - 1) : RemoveAt(s, c)[x] = IF x < c THEN s[x] ELSE s[x + 1]
    BY <2>1, RemoveAtProps
  <2> DEFINE k == IF i < c THEN i ELSE i + 1
             m == IF j < c THEN j ELSE j + 1
  <2>4. i \in 1..(Len(s) - 1) /\ j \in 1..(Len(s) - 1) /\ Len(s) \in Nat
    BY <2>2, <2>3
  <2>5. k \in 1..Len(s) /\ m \in 1..Len(s) /\ k < m
    BY <2>1, <2>4
  <2>6. Dropped(s, p)[i] = s[k] /\ Dropped(s, p)[j] = s[m]
    BY <2>2, <2>3, <2>4
  <2> HIDE DEF k, m
  <2> QED
    BY <2>5, <2>6
<1>2. CASE ~ \E x \in 1..Len(s) : s[x] = p
  BY <1>2 DEF Dropped
<1> QED
  BY <1>1, <1>2

\* A page that goes to the end of the list keeps the hot pages there.
LEMMA TouchedHotLast ==
  ASSUME NEW S, NEW s \in Seq(S), NEW p \in S, NoRepeats(s), NEW H, HotLast(s, H)
  PROVE  HotLast(Touched(s, p), H \cup {p})
<1> DEFINE r == Dropped(s, p)
           t == Touched(s, p)
<1>1. r \in Seq(S) /\ ToSet(r) = ToSet(s) \ {p}
  BY DroppedProps
<1>2. t = Append(r, p)
  BY DEF Touched
<1>3. \A i, j \in 1..Len(r) : i < j =>
        \E k, m \in 1..Len(s) : k < m /\ r[i] = s[k] /\ r[j] = s[m]
  BY DroppedOrder
<1>4. \A i \in 1..Len(r) : r[i] # p
  BY <1>1, ElementsSet
<1> HIDE DEF r, t
<1>5. /\ Len(t) = Len(r) + 1 /\ t[Len(r) + 1] = p /\ Len(r) \in Nat
      /\ \A i \in 1..Len(r) : t[i] = r[i]
  BY <1>1, <1>2
<1>6. ASSUME NEW i \in 1..Len(t), NEW j \in 1..Len(t), i < j, t[i] \in H \cup {p}
      PROVE  t[j] \in H \cup {p}
  <2>1. i \in 1..Len(r) /\ (j \in 1..Len(r) \/ j = Len(r) + 1)
    BY <1>5, <1>6
  <2>2. CASE j = Len(r) + 1
    BY <1>5, <2>2
  <2>3. CASE j \in 1..Len(r)
    <3>1. r[i] \in H
      BY <1>4, <1>5, <1>6, <2>1
    <3>2. PICK k, m \in 1..Len(s) : k < m /\ r[i] = s[k] /\ r[j] = s[m]
      BY <1>3, <1>6, <2>1, <2>3
    <3>3. s[m] \in H
      BY <3>1, <3>2 DEF HotLast
    <3> QED
      BY <1>5, <2>3, <3>2, <3>3
  <2> QED
    BY <2>1, <2>2, <2>3
<1>7. HotLast(t, H \cup {p})
  BY <1>6 DEF HotLast
<1> QED
  BY <1>7 DEF t

\* A page of the fast memory may be touched.
LEMMA TouchedOk ==
  ASSUME NEW K, NEW d, NEW list, ListOk(K, d, list), NEW p \in K, d[p] = "l1m"
  PROVE  /\ ListOk(K, d, Touched(list, p))
         /\ ToSet(Touched(list, p)) = ToSet(list) \cup {p}
BY TouchedProps DEF ListOk

\* The rounds of the loop in hma_set_hot_pages.
BumpRun(g, list, top) ==
  g = [i \in 0..Len(top) |->
         IF i = 0 THEN list
         ELSE IF dom[top[i]] = "l1m" THEN Touched(g[i - 1], top[i]) ELSE g[i - 1]]

\* The function that Bumped defines by recursion exists.
LEMMA BumpRunExists ==
  ASSUME NEW K, dom \in [K -> Mems], NEW list, ListOk(K, dom, list), NEW top \in Seq(K)
  PROVE  \E g : BumpRun(g, list, top)
<1> DEFINE n == Len(top)
           S == {l \in Seq(K) : ListOk(K, dom, l)}
           F == [x \in S \X (1..n) |->
                   IF dom[top[x[2]]] = "l1m" THEN Touched(x[1], top[x[2]]) ELSE x[1]]
<1>1. n \in Nat /\ list \in S
  BY DEF ListOk
<1>2. ASSUME NEW l \in S, NEW i \in 1..n
      PROVE  F[<<l, i>>] \in S
  <2>1. F[<<l, i>>] = IF dom[top[i]] = "l1m" THEN Touched(l, top[i]) ELSE l
    OBVIOUS
  <2>2. top[i] \in K
    OBVIOUS
  <2>3. dom[top[i]] = "l1m" => ListOk(K, dom, Touched(l, top[i]))
    BY <2>2, TouchedOk
  <2>4. dom[top[i]] = "l1m" => Touched(l, top[i]) \in S
    BY <2>3 DEF ListOk
  <2> QED
    BY <2>1, <2>4
<1>3. F \in [S \X (1..n) -> S]
  <2>1. \A x \in S \X (1..n) : x = <<x[1], x[2]>> /\ x[1] \in S /\ x[2] \in 1..n
    OBVIOUS
  <2>2. \A x \in S \X (1..n) : F[x] \in S
    <3> HIDE DEF F, S
    <3> QED
      BY <1>2, <2>1
  <2> HIDE DEF S
  <2> QED
    BY <2>2
<1>4. \A l \in S, i \in 1..n :
        F[<<l, i>>] = IF dom[top[i]] = "l1m" THEN Touched(l, top[i]) ELSE l
  OBVIOUS
<1> HIDE DEF S, F, n
<1>5. PICK g : LoopRun(g, n, S, list, F)
  BY <1>1, <1>3, LoopRuns
<1>6. \A i \in 1..n : g[i] = IF dom[top[i]] = "l1m" THEN Touched(g[i - 1], top[i])
                             ELSE g[i - 1]
  <2> SUFFICES ASSUME NEW i \in 1..n
               PROVE  g[i] = IF dom[top[i]] = "l1m" THEN Touched(g[i - 1], top[i])
                             ELSE g[i - 1]
    OBVIOUS
  <2>1. i - 1 \in 0..n
    BY <1>1
  <2> QED
    BY <1>4, <1>5, <2>1 DEF LoopRun
<1>7. BumpRun(g, list, top)
  BY <1>1, <1>5, <1>6 DEF BumpRun, n, LoopRun
<1> QED
  BY <1>7

\* hma_set_hot_pages moves the top hot pages of the fast memory to the end of the
\* list, and loses none.
LEMMA BumpedProps ==
  ASSUME NEW K, dom \in [K -> Mems], NEW list, ListOk(K, dom, list), NEW top \in Seq(K)
  PROVE  /\ ListOk(K, dom, Bumped(list, top))
         /\ ToSet(list) \subseteq ToSet(Bumped(list, top))
         /\ HotLast(Bumped(list, top), ToSet(top))
<1> DEFINE n == Len(top)
           g == CHOOSE f : BumpRun(f, list, top)
           H(i) == {top[k] : k \in 1..i}
           Good(i) == /\ ListOk(K, dom, g[i]) /\ ToSet(list) \subseteq ToSet(g[i])
                      /\ HotLast(g[i], H(i))
           N == {i \in 0..n : Good(i)}
           id == [i \in 0..n |-> i]
<1>1. BumpRun(g, list, top)
  BY BumpRunExists, Zenon
<1>2. Bumped(list, top) = g[n]
  BY DEF Bumped, BumpRun
<1> HIDE DEF g
<1>3. /\ n \in Nat /\ g[0] = list
      /\ \A i \in 1..n : g[i] = IF dom[top[i]] = "l1m" THEN Touched(g[i - 1], top[i])
                                ELSE g[i - 1]
  <2>1. n \in Nat /\ 0 \in 0..n
    OBVIOUS
  <2>2. ASSUME NEW i \in 0..n
        PROVE  g[i] = IF i = 0 THEN list
                      ELSE IF dom[top[i]] = "l1m" THEN Touched(g[i - 1], top[i])
                      ELSE g[i - 1]
    BY <1>1 DEF BumpRun
  <2>3. \A i \in 1..n : i \in 0..n /\ i # 0
    BY <2>1
  <2> HIDE DEF n
  <2> QED
    BY <2>1, <2>2, <2>3
<1>4. Good(0)
  BY <1>3 DEF HotLast
<1>5. ASSUME NEW i \in 1..n, Good(i - 1)
      PROVE  Good(i)
  <2> DEFINE p == top[i]
  <2>1. p \in K /\ H(i) = H(i - 1) \cup {p}
    <3>1. \A k : k \in 1..i <=> k \in 1..(i - 1) \/ k = i
      BY <1>3
    <3> QED
      BY <1>3, <3>1
  <2> HIDE DEF H
  <2>2. g[i - 1] \in Seq(K) /\ NoRepeats(g[i - 1])
    BY <1>5 DEF ListOk
  <2>3. CASE dom[p] = "l1m"
    <3>1. g[i] = Touched(g[i - 1], p)
      BY <1>3, <2>3
    <3>2. HotLast(g[i], H(i))
      BY <1>5, <2>1, <2>2, <3>1, TouchedHotLast
    <3>3. ListOk(K, dom, g[i]) /\ ToSet(g[i]) = ToSet(g[i - 1]) \cup {p}
      BY <1>5, <2>1, <2>3, <3>1, TouchedOk
    <3> QED
      BY <1>5, <3>2, <3>3
  <2>4. CASE dom[p] # "l1m"
    <3>1. g[i] = g[i - 1]
      BY <1>3, <2>4
    <3>2. \A k \in 1..Len(g[i]) : g[i][k] # p
      BY <1>5, <2>2, <2>4, <3>1, ElementsSet DEF ListOk
    <3>3. HotLast(g[i], H(i))
      BY <1>5, <2>1, <3>1, <3>2 DEF HotLast
    <3> QED
      BY <1>5, <3>1, <3>3
  <2> QED
    BY <2>3, <2>4
<1> HIDE DEF Good
<1>6. id[0] \in N /\ \A i \in 1..n : id[i - 1] \in N => id[i] \in N
  BY <1>3, <1>4, <1>5
<1> HIDE DEF N, id
<1>7. \A i \in 0..n : id[i] \in N
  BY <1>3, <1>6, LoopInvariant
<1>8. Good(n)
  BY <1>3, <1>7 DEF N, id
<1>9. H(n) = ToSet(top)
  BY DEF ToSet
<1> QED
  BY <1>2, <1>8, <1>9 DEF Good

(***************************************************************************)
(* hma_default_policy: the pages it moves.                                 *)
(***************************************************************************)
States(K) == [dom : [K -> Mems], frame_addr : [K -> Nat], free : [Mems -> Seq(Nat)],
              lru_list : Seq(K), moved : Nat, proc : {"run", "segv"}]

StateOk(K, s) == /\ FramesOk(K, s.dom, s.frame_addr, s.free)
                 /\ ListOk(K, s.dom, s.lru_list)

\* A page that moves to a free frame of the fast memory.
LEMMA MovedInOk ==
  ASSUME NEW K, NEW s \in States(K), StateOk(K, s), NEW p \in K,
         s.dom[p] = "l2m", s.free["l1m"] # <<>>
  PROVE  /\ MovedIn(s, p) \in States(K) /\ StateOk(K, MovedIn(s, p))
         /\ MovedIn(s, p).dom = [s.dom EXCEPT ![p] = "l1m"]
         /\ MovedIn(s, p).lru_list = Touched(s.lru_list, p)
         /\ MovedIn(s, p).proc = s.proc
<1> DEFINE t == MovedIn(s, p)
           d == [s.dom EXCEPT ![p] = "l1m"]
           a == [s.frame_addr EXCEPT ![p] = Head(s.free["l1m"])]
           l == [Returned(s.free, "l2m", s.frame_addr[p]) EXCEPT !["l1m"] = Tail(@)]
           list == Touched(s.lru_list, p)
<1>1. t = [dom |-> d, frame_addr |-> a, free |-> l, lru_list |-> list,
           moved |-> s.moved + 1, proc |-> s.proc]
  BY DEF MovedIn
<1>2. FramesOk(K, d, a, l)
  BY MoveFrame DEF StateOk
<1>3. d \in [K -> Mems] /\ d[p] = "l1m"
      /\ \A q \in K : s.dom[q] = "l1m" => d[q] = "l1m"
  BY DEF States, Mems
<1> HIDE DEF t, d, a, l
<1>4. ListOk(K, d, s.lru_list)
  <2>1. s.lru_list \in Seq(K) /\ NoRepeats(s.lru_list)
        /\ \A q \in ToSet(s.lru_list) : s.dom[q] = "l1m"
    BY DEF StateOk, ListOk
  <2>2. \A q \in ToSet(s.lru_list) : q \in K
    BY <2>1, ElementsSet
  <2> QED
    BY <1>3, <2>1, <2>2 DEF ListOk
<1>5. ListOk(K, d, list)
  BY <1>3, <1>4, TouchedOk
<1>6. s.moved + 1 \in Nat /\ s.proc \in {"run", "segv"}
  BY DEF States
<1> QED
  <2>1. /\ t.dom = d /\ t.frame_addr = a /\ t.free = l /\ t.lru_list = list
        /\ t.proc = s.proc
    BY <1>1
  <2>2. StateOk(K, t)
    BY <1>2, <1>5, <2>1 DEF StateOk
  <2>3. t \in States(K)
    BY <1>1, <1>2, <1>5, <1>6 DEF States, FramesOk, ListOk
  <2> QED
    BY <2>1, <2>2, <2>3 DEF t, d

\* A page that changes places with the head of the LRU list.
LEMMA SwappedOk ==
  ASSUME NEW K, NEW s \in States(K), StateOk(K, s), NEW p \in K,
         s.dom[p] = "l2m", s.lru_list # <<>>
  PROVE  /\ Swapped(s, p) \in States(K) /\ StateOk(K, Swapped(s, p))
         /\ Head(s.lru_list) \in K
         /\ Swapped(s, p).dom = [s.dom EXCEPT ![p] = "l1m", ![Head(s.lru_list)] = "l2m"]
         /\ Swapped(s, p).lru_list = Touched(Tail(s.lru_list), p)
         /\ Swapped(s, p).proc = s.proc
<1> DEFINE t == Swapped(s, p)
           v == Head(s.lru_list)
           d == [s.dom EXCEPT ![p] = "l1m", ![v] = "l2m"]
           a == [s.frame_addr EXCEPT ![p] = s.frame_addr[v], ![v] = s.frame_addr[p]]
           list == Touched(Tail(s.lru_list), p)
<1>1. t = [dom |-> d, frame_addr |-> a, free |-> s.free, lru_list |-> list,
           moved |-> s.moved + 1, proc |-> s.proc]
  BY DEF Swapped
<1>2. s.lru_list \in Seq(K) /\ NoRepeats(s.lru_list)
      /\ \A q \in ToSet(s.lru_list) : s.dom[q] = "l1m"
  BY DEF StateOk, ListOk
<1>3. /\ Tail(s.lru_list) \in Seq(K) /\ NoRepeats(Tail(s.lru_list))
      /\ v \in K /\ v \in ToSet(s.lru_list)
      /\ ToSet(Tail(s.lru_list)) = ToSet(s.lru_list) \ {v}
  BY <1>2, TailSet
<1>4. s.dom[v] = "l1m" /\ v # p
  BY <1>2, <1>3
<1>5. FramesOk(K, d, a, s.free)
  BY <1>3, <1>4, SwapFrames DEF StateOk
<1>6. d \in [K -> Mems] /\ d[p] = "l1m"
      /\ \A q \in K : s.dom[q] = "l1m" /\ q # v => d[q] = "l1m"
  BY <1>3, <1>4 DEF States, Mems
<1> HIDE DEF t, d, a, v
<1>7. ListOk(K, d, Tail(s.lru_list))
  <2>1. \A q \in ToSet(Tail(s.lru_list)) : q \in K /\ s.dom[q] = "l1m" /\ q # v
    BY <1>2, <1>3, ElementsSet
  <2> QED
    BY <1>3, <1>6, <2>1 DEF ListOk
<1>8. ListOk(K, d, list)
  BY <1>6, <1>7, TouchedOk
<1>9. s.moved + 1 \in Nat /\ s.proc \in {"run", "segv"} /\ s.free \in [Mems -> Seq(Nat)]
  BY DEF States
<1> QED
  <2>1. /\ t.dom = d /\ t.frame_addr = a /\ t.free = s.free /\ t.lru_list = list
        /\ t.proc = s.proc
    BY <1>1
  <2>2. StateOk(K, t)
    BY <1>5, <1>8, <2>1 DEF StateOk
  <2>3. t \in States(K)
    BY <1>1, <1>5, <1>8, <1>9 DEF States, FramesOk, ListOk
  <2> QED
    BY <1>3, <2>1, <2>2, <2>3 DEF t, d, v

\* One round of the policy.
LEMMA PlacedOk ==
  ASSUME NEW K, NEW s \in States(K), StateOk(K, s), NEW p \in K
  PROVE  Placed(s, p) \in States(K) /\ StateOk(K, Placed(s, p))
<1>1. CASE s.proc # "run" \/ s.moved >= Limit \/ s.dom[p] = "l1m"
  BY <1>1 DEF Placed
<1>2. CASE ~ (s.proc # "run" \/ s.moved >= Limit \/ s.dom[p] = "l1m")
  <2>1. s.dom[p] = "l2m"
    BY <1>2 DEF States, Mems
  <2>2. CASE s.free["l1m"] # <<>>
    BY <1>2, <2>1, <2>2, MovedInOk DEF Placed
  <2>3. CASE s.free["l1m"] = <<>> /\ Len(s.lru_list) >= 2
    <3>1. s.lru_list # <<>>
      BY <2>3
    <3> QED
      BY <1>2, <2>1, <2>3, <3>1, SwappedOk DEF Placed
  <2>4. CASE s.free["l1m"] = <<>> /\ ~ Len(s.lru_list) >= 2
    <3>1. Placed(s, p) = [s EXCEPT !.proc = "segv"]
      BY <1>2, <2>4 DEF Placed
    <3> QED
      BY <3>1 DEF States, StateOk
  <2> QED
    BY <2>2, <2>3, <2>4
<1> QED
  BY <1>1, <1>2

\* The rounds of the loop in hma_default_policy.
PlaceRun(g, start, top) ==
  g = [i \in 0..Len(top) |-> IF i = 0 THEN start ELSE Placed(g[i - 1], top[i])]

\* The function that AllPlaced defines by recursion exists.
LEMMA PlaceRunExists ==
  ASSUME NEW K, NEW start \in States(K), StateOk(K, start), NEW top \in Seq(K)
  PROVE  \E g : PlaceRun(g, start, top)
<1> DEFINE n == Len(top)
           S == {s \in States(K) : StateOk(K, s)}
           F == [x \in S \X (1..n) |-> Placed(x[1], top[x[2]])]
<1>1. n \in Nat /\ start \in S
  OBVIOUS
<1>2. ASSUME NEW s \in S, NEW i \in 1..n
      PROVE  F[<<s, i>>] \in S
  BY PlacedOk
<1>3. F \in [S \X (1..n) -> S]
  <2>1. \A x \in S \X (1..n) : x = <<x[1], x[2]>> /\ x[1] \in S /\ x[2] \in 1..n
    OBVIOUS
  <2>2. \A x \in S \X (1..n) : F[x] \in S
    <3> HIDE DEF F, S
    <3> QED
      BY <1>2, <2>1
  <2> HIDE DEF S
  <2> QED
    BY <2>2
<1>4. \A s \in S, i \in 1..n : F[<<s, i>>] = Placed(s, top[i])
  OBVIOUS
<1> HIDE DEF S, F, n
<1>5. PICK g : LoopRun(g, n, S, start, F)
  BY <1>1, <1>3, LoopRuns
<1>6. \A i \in 1..n : g[i] = Placed(g[i - 1], top[i])
  <2> SUFFICES ASSUME NEW i \in 1..n
               PROVE  g[i] = Placed(g[i - 1], top[i])
    OBVIOUS
  <2>1. i - 1 \in 0..n
    BY <1>1
  <2> QED
    BY <1>4, <1>5, <2>1 DEF LoopRun
<1>7. PlaceRun(g, start, top)
  BY <1>1, <1>5, <1>6 DEF PlaceRun, n, LoopRun
<1> QED
  BY <1>7

\* The policy is the last value of some run of that loop, from states that are
\* all sound.
LEMMA AllPlacedRun ==
  ASSUME NEW K, NEW start \in States(K), StateOk(K, start), NEW top \in Seq(K)
  PROVE  \E g : /\ AllPlaced(start, top) = g[Len(top)] /\ g[0] = start
                /\ \A i \in 1..Len(top) : g[i] = Placed(g[i - 1], top[i])
                /\ \A i \in 0..Len(top) : g[i] \in States(K) /\ StateOk(K, g[i])
<1> DEFINE n == Len(top)
           g == CHOOSE f : PlaceRun(f, start, top)
           S == {s \in States(K) : StateOk(K, s)}
<1>1. PlaceRun(g, start, top)
  BY PlaceRunExists, Zenon
<1>2. AllPlaced(start, top) = g[n]
  BY DEF AllPlaced, PlaceRun
<1> HIDE DEF g
<1>3. n \in Nat /\ g[0] = start /\ \A i \in 1..n : g[i] = Placed(g[i - 1], top[i])
  <2>1. n \in Nat /\ 0 \in 0..n
    OBVIOUS
  <2>2. ASSUME NEW i \in 0..n
        PROVE  g[i] = IF i = 0 THEN start ELSE Placed(g[i - 1], top[i])
    BY <1>1 DEF PlaceRun
  <2>3. \A i \in 1..n : i \in 0..n /\ i # 0
    BY <2>1
  <2> HIDE DEF n
  <2> QED
    BY <2>1, <2>2, <2>3
<1>4. g[0] \in S /\ \A i \in 1..n : g[i - 1] \in S => g[i] \in S
  BY <1>3, PlacedOk
<1> HIDE DEF S
<1>5. \A i \in 0..n : g[i] \in S
  BY <1>3, <1>4, LoopInvariant
<1> QED
  BY <1>2, <1>3, <1>5 DEF S

(***************************************************************************)
(* The inductive invariant.                                                *)
(***************************************************************************)
EInv ==
  /\ IsFiniteSet(Known) /\ epoch_count \in [Known -> Nat]
  /\ FramesOk(Known, dom, frame_addr, free)
  /\ ListOk(Known, dom, lru_list)
  /\ proc \in {"run", "segv", "oom"}

\* EInv holds at the start.
LEMMA InitEInv == Init => EInv
<1> SUFFICES ASSUME Init PROVE EInv
  OBVIOUS
<1>1. Known = {} /\ lru_list = <<>> /\ proc = "run"
  BY DEF Init, Known
<1>2. /\ free = [m \in Mems |-> [i \in 1..Frames(m) |-> i - 1]]
      /\ dom \in [{} -> Mems] /\ frame_addr \in [{} -> Nat] /\ epoch_count \in [{} -> Nat]
  BY DEF Init
<1>3. \A m \in Mems : Frames(m) \in Nat
  BY AllocatorAssumption, EpochAssumption DEF Frames
<1>4. ASSUME NEW m \in Mems
      PROVE  /\ free[m] \in Seq(Nat) /\ Len(free[m]) = Frames(m)
             /\ NoRepeats(free[m]) /\ ToSet(free[m]) = 0..(Frames(m) - 1)
  <2> DEFINE s == [i \in 1..Frames(m) |-> i - 1]
  <2>1. s \in Seq(Nat) /\ Len(s) = Frames(m) /\ \A i \in 1..Len(s) : s[i] = i - 1
    BY <1>3
  <2>2. NoRepeats(s)
    BY <2>1, <1>3 DEF NoRepeats
  <2>3. \A f \in 0..(Frames(m) - 1) : f + 1 \in 1..Len(s) /\ s[f + 1] = f
    BY <2>1, <1>3
  <2>4. \A x : x \in ToSet(s) <=> \E i \in 1..Len(s) : s[i] = x
    BY <2>1, ElementsSet
  <2>5. ToSet(s) = 0..(Frames(m) - 1)
    <3>1. \A x \in ToSet(s) : x \in 0..(Frames(m) - 1)
      BY <2>1, <2>4, <1>3
    <3> HIDE DEF s
    <3> QED
      BY <2>3, <2>4, <3>1
  <2> QED
    BY <1>2, <2>1, <2>2, <2>5
<1>5. free \in [Mems -> Seq(Nat)]
  <2>1. DOMAIN free = Mems /\ free = [m \in Mems |-> free[m]]
    BY <1>2
  <2> QED
    BY <1>4, <2>1
<1>6. FramesOk({}, dom, frame_addr, free)
  BY <1>2, <1>4, <1>5 DEF FramesOk, Owned
<1>7. ListOk({}, dom, <<>>)
  BY DEF ListOk, NoRepeats, ToSet
<1> QED
  BY <1>1, <1>2, <1>6, <1>7, FS_EmptySet DEF EInv

\* A page gets its first frame.
LEMMA HandlerEInv ==
  ASSUME EInv, NEW p, hma_handler(p)
  PROVE  EInv'
<1> DEFINE m == IF free[TargetMem(p)] # <<>> THEN TargetMem(p) ELSE OtherMem(TargetMem(p))
<1>1. m \in Mems /\ p \notin Known /\ lru_list' = lru_list
  BY DEF hma_handler, TargetMem, OtherMem, Mems
<1>2. CASE free[m] # <<>>
  <2>1. /\ dom' = With(dom, p, m) /\ frame_addr' = With(frame_addr, p, Head(free[m]))
        /\ epoch_count' = With(epoch_count, p, 0)
        /\ free' = [free EXCEPT ![m] = Tail(@)] /\ proc' = proc
    BY <1>2 DEF hma_handler
  <2> HIDE DEF m
  <2>2. Known' = Known \cup {p}
    BY <2>1 DEF Known, With
  <2>3. FramesOk(Known', dom', frame_addr', free')
    BY <1>1, <1>2, <2>1, <2>2, AllocateFrame DEF EInv
  <2>4. IsFiniteSet(Known')
    BY <2>2, FS_AddElement DEF EInv
  <2>5. epoch_count' \in [Known' -> Nat]
    BY <2>1, <2>2 DEF EInv, With
  <2>6. ListOk(Known', dom', lru_list')
    <3>1. lru_list \in Seq(Known) /\ NoRepeats(lru_list)
          /\ \A q \in ToSet(lru_list) : dom[q] = "l1m"
      BY DEF EInv, ListOk
    <3>2. \A q \in ToSet(lru_list) : q \in Known
      BY <3>1, ElementsSet
    <3>3. \A q \in Known : dom'[q] = dom[q]
      BY <1>1, <2>1 DEF With, Known
    <3>4. lru_list \in Seq(Known')
      BY <2>2, <3>1
    <3> QED
      BY <1>1, <3>1, <3>2, <3>3, <3>4 DEF ListOk
  <2> QED
    BY <2>1, <2>3, <2>4, <2>5, <2>6 DEF EInv
<1>3. CASE free[m] = <<>>
  <2>1. proc' = "oom" /\ UNCHANGED <<dom, frame_addr, epoch_count, free, lru_list>>
    BY <1>3 DEF hma_handler
  <2> QED
    BY <2>1 DEF EInv, Known
<1> QED
  BY <1>2, <1>3

\* A page is sent a request.
LEMMA KeeperEInv ==
  ASSUME EInv, NEW p, hma_epoch_count_keeper(p)
  PROVE  EInv'
<1>1. p \in Known /\ UNCHANGED <<dom, frame_addr, free, proc>> /\ Known' = Known
  BY DEF hma_epoch_count_keeper, Known
<1>2. epoch_count' \in [Known -> Nat]
  BY EpochAssumption DEF hma_epoch_count_keeper, EInv
<1>3. ListOk(Known, dom, lru_list')
  <2>1. CASE dom[p] = "l1m"
    <3>1. lru_list' = Touched(lru_list, p)
      BY <2>1 DEF hma_epoch_count_keeper
    <3> QED
      BY <1>1, <2>1, <3>1, TouchedOk DEF EInv
  <2>2. CASE dom[p] # "l1m"
    BY <2>2 DEF hma_epoch_count_keeper, EInv
  <2> QED
    BY <2>1, <2>2
<1> QED
  BY <1>1, <1>2, <1>3 DEF EInv

\* The orders of the hot pages, and their top.
LEMMA SortedProps ==
  ASSUME EInv, NEW order \in Sorted
  PROVE  /\ order \in Seq(Known) /\ ToSet(order) = Hot
         /\ \A i, j \in 1..Len(order) : order[i] = order[j] => i = j
         /\ \A i, j \in 1..Len(order) :
              i < j => epoch_count[order[i]] >= epoch_count[order[j]]
         /\ TopHot(order) \in Seq(Known)
         /\ Len(TopHot(order)) = IF Len(order) <= L1MaxPages THEN Len(order) ELSE L1MaxPages
         /\ \A i \in 1..Len(TopHot(order)) : TopHot(order)[i] = order[i]
<1> DEFINE n == Cardinality(Hot)
<1>1. Hot \subseteq Known /\ IsFiniteSet(Hot) /\ n \in Nat
  <2>1. Hot \in SUBSET Known /\ IsFiniteSet(Known)
    BY DEF Hot, EInv
  <2> QED
    BY <2>1, FS_Subset, FS_CardinalityType
<1>2. /\ order \in [1..n -> Hot] /\ \A i, j \in 1..n : i # j => order[i] # order[j]
      /\ \A i, j \in DOMAIN order : i < j => epoch_count[order[i]] >= epoch_count[order[j]]
  BY DEF Sorted, SetToSeqs
<1> HIDE DEF n
<1>3. order \in Seq(Known) /\ Len(order) = n /\ DOMAIN order = 1..n
  BY <1>1, <1>2
<1>4. ToSet(order) = Hot
  <2>1. ToSet(order) \subseteq Hot
    BY <1>2, <1>3 DEF ToSet
  <2>2. ExistsBijection(1..n, ToSet(order))
    <3>1. order \in Bijection(1..n, ToSet(order))
      <4>1. order \in [1..n -> ToSet(order)]
        BY <1>2, <1>3 DEF ToSet
      <4>2. order \in Injection(1..n, ToSet(order))
        BY <1>2, <4>1 DEF Injection, IsInjective
      <4>3. \A y \in ToSet(order) : \E i \in 1..n : order[i] = y
        BY <1>3 DEF ToSet
      <4> QED
        BY <4>1, <4>2, <4>3 DEF Bijection, Surjection
    <3> QED
      BY <3>1 DEF ExistsBijection
  <2>3. Cardinality(ToSet(order)) = n
    <3>1. IsFiniteSet(1..n) /\ Cardinality(1..n) = n
      BY <1>1, FS_Interval
    <3> QED
      BY <2>2, <3>1, FS_Bijection
  <2>4. Cardinality(ToSet(order)) = Cardinality(Hot)
    BY <2>3 DEF n
  <2> QED
    BY <1>1, <2>1, <2>4, FS_Subset
<1>5. /\ TopHot(order) \in Seq(Known)
      /\ Len(TopHot(order)) = IF Len(order) <= L1MaxPages THEN Len(order) ELSE L1MaxPages
      /\ \A i \in 1..Len(TopHot(order)) : TopHot(order)[i] = order[i]
  BY <1>1, <1>3, AllocatorAssumption DEF TopHot
<1> QED
  BY <1>2, <1>3, <1>4, <1>5

\* The end of an epoch.
LEMMA InvokerEInv ==
  ASSUME EInv, hma_policy_invoker
  PROVE  EInv'
<1> DEFINE Start(top) == [dom |-> dom, frame_addr |-> frame_addr, free |-> free,
                          lru_list |-> Bumped(lru_list, top), moved |-> 0, proc |-> "run"]
<1>1. PICK order \in Sorted :
        LET s == AllPlaced(Start(TopHot(order)), TopHot(order))
        IN  /\ dom' = s.dom /\ frame_addr' = s.frame_addr /\ free' = s.free
            /\ lru_list' = s.lru_list /\ proc' = s.proc
  BY DEF hma_policy_invoker
<1> DEFINE top == TopHot(order)
           start == Start(top)
<1>2. top \in Seq(Known)
  BY SortedProps
<1> HIDE DEF top
<1>3. start \in States(Known) /\ StateOk(Known, start)
  <2>1. dom \in [Known -> Mems] /\ frame_addr \in [Known -> Nat] /\ free \in [Mems -> Seq(Nat)]
    BY DEF EInv, FramesOk
  <2>2. ListOk(Known, dom, Bumped(lru_list, top))
    BY <1>2, <2>1, BumpedProps DEF EInv
  <2> QED
    BY <2>1, <2>2 DEF States, StateOk, EInv, ListOk
<1>4. PICK s : /\ s \in States(Known) /\ StateOk(Known, s) /\ s = AllPlaced(start, top)
  <2> HIDE DEF start
  <2>1. PICK g : /\ AllPlaced(start, top) = g[Len(top)]
                 /\ \A i \in 0..Len(top) : g[i] \in States(Known) /\ StateOk(Known, g[i])
    BY <1>2, <1>3, AllPlacedRun
  <2>2. Len(top) \in 0..Len(top)
    BY <1>2
  <2> QED
    BY <2>1, <2>2
<1>5. /\ dom' = s.dom /\ frame_addr' = s.frame_addr /\ free' = s.free
      /\ lru_list' = s.lru_list /\ proc' = s.proc
  BY <1>1, <1>4 DEF top
<1>6. Known' = Known
  BY <1>4, <1>5 DEF Known, States
<1>7. epoch_count' \in [Known -> Nat]
  BY DEF hma_policy_invoker
<1> QED
  BY <1>4, <1>5, <1>6, <1>7 DEF EInv, StateOk, States

\* EInv is kept by every step.
LEMMA NextEInv == EInv /\ [Next]_vars => EInv'
<1> SUFFICES ASSUME EInv, [Next]_vars PROVE EInv'
  OBVIOUS
<1>1. CASE UNCHANGED vars
  BY <1>1 DEF vars, EInv, Known
<1>2. ASSUME NEW v \in VPages, page_allocator(v)
      PROVE  EInv'
  BY <1>2 DEF page_allocator, EInv, Known
<1>3. QED
  BY <1>1, <1>2, HandlerEInv, KeeperEInv, InvokerEInv DEF Next

\* A frame that is free is on one place of the list and no page's, and one that is
\* not is one page's.
LEMMA EInvFrames == EInv => FramesPartitioned
<1> SUFFICES ASSUME EInv, NEW m \in Mems, NEW f \in 0..(Frames(m) - 1)
             PROVE  Cardinality({p \in Known : dom[p] = m /\ frame_addr[p] = f})
                      + Cardinality({i \in DOMAIN free[m] : free[m][i] = f}) = 1
  BY DEF FramesPartitioned
<1> DEFINE P == {p \in Known : dom[p] = m /\ frame_addr[p] = f}
           I == {i \in DOMAIN free[m] : free[m][i] = f}
<1>1. /\ free[m] \in Seq(Nat) /\ NoRepeats(free[m])
      /\ f \in ToSet(free[m]) <=> ~ Owned(Known, dom, frame_addr, m, f)
      /\ \A p, q \in Known : dom[p] = dom[q] /\ frame_addr[p] = frame_addr[q] => p = q
  BY DEF EInv, FramesOk
<1>2. f \in ToSet(free[m]) <=> \E i \in 1..Len(free[m]) : free[m][i] = f
  BY <1>1, ElementsSet
<1>3. CASE f \in ToSet(free[m])
  <2>1. P = {}
    BY <1>1, <1>3 DEF Owned
  <2>2. PICK i \in 1..Len(free[m]) : free[m][i] = f
    BY <1>2, <1>3
  <2>3. I = {i}
    BY <1>1, <2>2 DEF NoRepeats
  <2>4. Cardinality(P) = 0 /\ Cardinality(I) = 1
    <3> HIDE DEF P, I
    <3> QED
      BY <2>1, <2>3, FS_EmptySet, FS_Singleton
  <2> QED
    BY <2>4
<1>4. CASE f \notin ToSet(free[m])
  <2>1. PICK p \in Known : dom[p] = m /\ frame_addr[p] = f
    BY <1>1, <1>4 DEF Owned
  <2>2. P = {p}
    BY <1>1, <2>1
  <2>3. I = {}
    BY <1>1, <1>2, <1>4
  <2>4. Cardinality(P) = 1 /\ Cardinality(I) = 0
    <3> HIDE DEF P, I
    <3> QED
      BY <2>2, <2>3, FS_EmptySet, FS_Singleton
  <2> QED
    BY <2>4
<1> QED
  BY <1>3, <1>4

\* Frames are never shared, lost or freed twice, however many pages and frames there
\* are, and in whatever order pages of equal counts are sorted.
THEOREM FramesAlwaysPartitioned == Spec => []FramesPartitioned
<1>1. Spec => []EInv
  BY InitEInv, NextEInv, PTL DEF Spec
<1>2. QED
  BY <1>1, EInvFrames, PTL

(***************************************************************************)
(* What the policy evicts.                                                 *)
(***************************************************************************)
\* A list without repeats is as long as it has elements.
LEMMA LenIsCardinality ==
  ASSUME NEW S, NEW s \in Seq(S), NoRepeats(s)
  PROVE  IsFiniteSet(ToSet(s)) /\ Cardinality(ToSet(s)) = Len(s)
<1> DEFINE n == Len(s)
           T == ToSet(s)
<1>1. n \in Nat /\ DOMAIN s = 1..n /\ s \in [1..n -> S]
  OBVIOUS
<1>2. \A x : x \in T <=> \E i \in 1..n : s[i] = x
  BY ElementsSet
<1>3. \A i, j \in 1..n : s[i] = s[j] => i = j
  BY DEF NoRepeats
<1> HIDE DEF n, T
<1>4. s \in [1..n -> T]
  BY <1>1, <1>2
<1>5. s \in Bijection(1..n, T)
  BY <1>1, <1>2, <1>3, <1>4 DEF Bijection, Injection, IsInjective, Surjection
<1>6. ExistsBijection(1..n, T)
  BY <1>5 DEF ExistsBijection
<1>7. IsFiniteSet(1..n) /\ Cardinality(1..n) = n
  BY <1>1, FS_Interval
<1> QED
  BY <1>6, <1>7, FS_Bijection DEF n, T

\* Every page of the fast memory is on the list.
Listing(K, s) == \A p \in K : s.dom[p] = "l1m" => p \in ToSet(s.lru_list)

\* When the fast memory has no free frame, the list is as long as it has frames.
LEMMA FullList ==
  ASSUME NEW K, IsFiniteSet(K), NEW s \in States(K), StateOk(K, s), Listing(K, s),
         s.free["l1m"] = <<>>
  PROVE  Len(s.lru_list) = L1MaxPages
<1> DEFINE L == {p \in K : s.dom[p] = "l1m"}
           a == [p \in L |-> s.frame_addr[p]]
           n == L1MaxPages
<1>1. /\ s.lru_list \in Seq(K) /\ NoRepeats(s.lru_list)
      /\ \A p \in ToSet(s.lru_list) : s.dom[p] = "l1m"
  BY DEF StateOk, ListOk
<1>2. ToSet(s.lru_list) = L
  <2>1. \A p \in ToSet(s.lru_list) : p \in K
    BY <1>1, ElementsSet
  <2> QED
    BY <1>1, <2>1 DEF Listing
<1>3. /\ \A p \in L : s.frame_addr[p] \in 0..(n - 1)
      /\ \A p, q \in L : s.frame_addr[p] = s.frame_addr[q] => p = q
      /\ \A f \in 0..(n - 1) : \E p \in L : s.frame_addr[p] = f
  <2>1. "l1m" \in Mems /\ Frames("l1m") = n
    BY DEF Mems, Frames
  <2>2. ~ \E f : f \in ToSet(<<>>)
    BY DEF ToSet
  <2>3. \A f \in 0..(n - 1) : Owned(K, s.dom, s.frame_addr, "l1m", f)
    BY <2>1, <2>2 DEF StateOk, FramesOk
  <2>4. \A p \in K : s.frame_addr[p] \in 0..(Frames(s.dom[p]) - 1)
    BY DEF StateOk, FramesOk
  <2>5. \A p, q \in K : s.dom[p] = s.dom[q] /\ s.frame_addr[p] = s.frame_addr[q] => p = q
    BY DEF StateOk, FramesOk
  <2> QED
    BY <2>1, <2>3, <2>4, <2>5 DEF Owned
<1>4. L \in SUBSET K
  OBVIOUS
<1>5. IsFiniteSet(L)
  BY <1>4, FS_Subset, Zenon
<1> HIDE DEF L
<1>6. a \in [L -> 0..(n - 1)] /\ \A p \in L : a[p] = s.frame_addr[p]
  BY <1>3
<1> HIDE DEF a
<1>7. a \in Bijection(L, 0..(n - 1))
  BY <1>3, <1>6 DEF Bijection, Injection, IsInjective, Surjection
<1>8. ExistsBijection(L, 0..(n - 1))
  BY <1>7 DEF ExistsBijection
<1>9. Cardinality(0..(n - 1)) = n
  BY AllocatorAssumption, FS_Interval
<1>10. Cardinality(L) = n
  BY <1>5, <1>8, <1>9, FS_Bijection
<1>11. Cardinality(L) = Len(s.lru_list)
  BY <1>1, <1>2, LenIsCardinality
<1> QED
  BY <1>10, <1>11

\* The head of the list leaves it, and the hot pages stay behind.
LEMMA TailHotLast ==
  ASSUME NEW S, NEW s \in Seq(S), s # <<>>, NEW H, HotLast(s, H)
  PROVE  HotLast(Tail(s), H)
<1>1. /\ Len(Tail(s)) = Len(s) - 1 /\ Len(s) \in Nat
      /\ \A i \in 1..Len(Tail(s)) : Tail(s)[i] = s[i + 1] /\ i + 1 \in 1..Len(s)
  OBVIOUS
<1> QED
  BY <1>1 DEF HotLast

\* What the rounds of the policy keep, for the top hot pages T: the process runs, the
\* list is complete with the pages of T at its end, only pages of T have come to the
\* fast memory, and only others have left it.
RoundOk(K, s, T) ==
  /\ s.proc = "run" /\ Listing(K, s) /\ HotLast(s.lru_list, T)
  /\ \A p \in K : /\ dom[p] = "l1m" /\ s.dom[p] = "l2m" => p \notin T
                  /\ dom[p] = "l2m" /\ s.dom[p] = "l1m" => p \in T

\* Each round keeps it.
LEMMA PlacedRound ==
  ASSUME L1MaxPages >= 2, NEW K, IsFiniteSet(K), NEW s \in States(K), StateOk(K, s),
         NEW T, IsFiniteSet(T), Cardinality(T) <= L1MaxPages, RoundOk(K, s, T),
         NEW p \in K, p \in T
  PROVE  RoundOk(K, Placed(s, p), T)
<1> DEFINE t == Placed(s, p)
<1>1. /\ s.lru_list \in Seq(K) /\ NoRepeats(s.lru_list) /\ T \cup {p} = T
      /\ \A q \in ToSet(s.lru_list) : s.dom[q] = "l1m"
      /\ s.dom \in [K -> Mems] /\ s.proc = "run"
      /\ L1MaxPages \in Nat
  BY AllocatorAssumption DEF StateOk, ListOk, States, RoundOk
<1>2. CASE s.moved >= Limit \/ s.dom[p] = "l1m"
  BY <1>1, <1>2 DEF Placed
<1>3. CASE ~ (s.moved >= Limit \/ s.dom[p] = "l1m") /\ s.free["l1m"] # <<>>
  <2>1. s.dom[p] = "l2m" /\ t = MovedIn(s, p)
    BY <1>1, <1>3 DEF Placed, Mems
  <2>2. /\ t.dom = [s.dom EXCEPT ![p] = "l1m"]
        /\ t.lru_list = Touched(s.lru_list, p) /\ t.proc = s.proc
    BY <1>3, <2>1, MovedInOk
  <2> HIDE DEF t
  <2>3. ToSet(t.lru_list) = ToSet(s.lru_list) \cup {p}
    BY <1>1, <2>2, TouchedProps
  <2>4. HotLast(t.lru_list, T)
    BY <1>1, <2>2, TouchedHotLast DEF RoundOk
  <2>5. t.dom[p] = "l1m" /\ \A q \in K : q # p => t.dom[q] = s.dom[q]
    BY <1>1, <2>2
  <2>6. Listing(K, t)
    BY <2>3, <2>5 DEF RoundOk, Listing
  <2>7. RoundOk(K, t, T)
    BY <2>2, <2>4, <2>5, <2>6 DEF RoundOk
  <2> QED
    BY <2>7 DEF t
<1>4. CASE ~ (s.moved >= Limit \/ s.dom[p] = "l1m") /\ s.free["l1m"] = <<>>
  <2> DEFINE v == Head(s.lru_list)
  <2>1. Len(s.lru_list) = L1MaxPages
    BY <1>4, FullList DEF RoundOk
  <2>2. s.dom[p] = "l2m" /\ s.lru_list # <<>>
    BY <1>1, <1>4, <2>1 DEF Mems
  <2>3. t = Swapped(s, p)
    BY <1>1, <1>4, <2>1 DEF Placed
  <2>4. /\ t.dom = [s.dom EXCEPT ![p] = "l1m", ![v] = "l2m"] /\ v \in K
        /\ t.lru_list = Touched(Tail(s.lru_list), p) /\ t.proc = s.proc
    BY <2>2, <2>3, SwappedOk
  <2>5. /\ Tail(s.lru_list) \in Seq(K) /\ NoRepeats(Tail(s.lru_list))
        /\ v \in ToSet(s.lru_list) /\ v = s.lru_list[1]
        /\ ToSet(Tail(s.lru_list)) = ToSet(s.lru_list) \ {v}
    BY <1>1, <2>2, TailSet
  <2> HIDE DEF t, v
  <2>6. v \notin T
    <3> SUFFICES ASSUME v \in T PROVE FALSE
      OBVIOUS
    <3>1. \A i \in 1..Len(s.lru_list) : s.lru_list[i] \in T
      <4>1. 1 \in 1..Len(s.lru_list) /\ \A i \in 1..Len(s.lru_list) : i = 1 \/ 1 < i
        BY <1>1, <2>1
      <4> QED
        BY <2>5, <4>1 DEF RoundOk, HotLast
    <3>2. ToSet(s.lru_list) \in SUBSET (T \ {p})
      <4>1. \A q \in ToSet(s.lru_list) : q \in T
        BY <1>1, <3>1, ElementsSet
      <4> QED
        BY <1>1, <2>2, <4>1
    <3>3. /\ IsFiniteSet(T \ {p}) /\ Cardinality(T \ {p}) = Cardinality(T) - 1
          /\ Cardinality(T) \in Nat
      BY FS_RemoveElement, FS_CardinalityType
    <3>4. Cardinality(ToSet(s.lru_list)) <= Cardinality(T \ {p})
      BY <3>2, <3>3, FS_Subset
    <3>5. Cardinality(ToSet(s.lru_list)) = L1MaxPages
      BY <1>1, <2>1, LenIsCardinality
    <3> QED
      BY <1>1, <3>3, <3>4, <3>5
  <2> DEFINE r == Tail(s.lru_list)
  <2>7. /\ r \in Seq(K) /\ NoRepeats(r) /\ ToSet(r) = ToSet(s.lru_list) \ {v}
        /\ HotLast(r, T) /\ t.lru_list = Touched(r, p)
    BY <1>1, <2>2, <2>4, <2>5, TailHotLast DEF RoundOk
  <2> HIDE DEF r
  <2>8. /\ ToSet(t.lru_list) = (ToSet(s.lru_list) \ {v}) \cup {p}
        /\ HotLast(t.lru_list, T)
    <3>1. ToSet(Touched(r, p)) = ToSet(r) \cup {p}
      BY <2>7, TouchedProps
    <3>2. HotLast(Touched(r, p), T \cup {p})
      BY <2>7, TouchedHotLast
    <3> QED
      BY <1>1, <2>7, <3>1, <3>2
  <2>9. /\ v # p /\ t.dom[p] = "l1m" /\ t.dom[v] = "l2m"
        /\ \A q \in K : q \notin {p, v} => t.dom[q] = s.dom[q]
    BY <1>1, <2>2, <2>4, <2>5
  <2>10. Listing(K, t)
    BY <2>8, <2>9 DEF RoundOk, Listing
  <2>11. RoundOk(K, t, T)
    BY <2>4, <2>6, <2>8, <2>9, <2>10 DEF RoundOk
  <2> QED
    BY <2>11 DEF t
<1> QED
  BY <1>2, <1>3, <1>4

\* At the end of an epoch, only pages outside the top leave the fast memory, and only
\* top pages come to it.
LEMMA InvokerEvicts ==
  ASSUME L1MaxPages >= 2, EInv, AllListed, hma_policy_invoker
  PROVE  /\ proc' = "run"
         /\ \E order \in Sorted : \A p \in Known :
              /\ dom[p] = "l1m" /\ dom'[p] = "l2m" => p \notin ToSet(TopHot(order))
              /\ dom[p] = "l2m" /\ dom'[p] = "l1m" => p \in ToSet(TopHot(order))
<1> DEFINE Start(top) == [dom |-> dom, frame_addr |-> frame_addr, free |-> free,
                          lru_list |-> Bumped(lru_list, top), moved |-> 0, proc |-> "run"]
<1>1. PICK order \in Sorted :
        LET s == AllPlaced(Start(TopHot(order)), TopHot(order))
        IN  dom' = s.dom /\ proc' = s.proc
  BY DEF hma_policy_invoker
<1> DEFINE top == TopHot(order)
           T == ToSet(top)
           start == Start(top)
<1>2. /\ top \in Seq(Known) /\ NoRepeats(top) /\ Len(top) \in Nat /\ Len(top) <= L1MaxPages
      /\ \A i \in 1..Len(top) : top[i] \in T
  <2>1. /\ top \in Seq(Known)
        /\ Len(top) = IF Len(order) <= L1MaxPages THEN Len(order) ELSE L1MaxPages
        /\ \A i \in 1..Len(top) : top[i] = order[i]
        /\ \A i, j \in 1..Len(order) : order[i] = order[j] => i = j
        /\ Len(order) \in Nat
    BY SortedProps
  <2> HIDE DEF top
  <2>2. 1..Len(top) \subseteq 1..Len(order)
    BY <2>1, AllocatorAssumption
  <2> QED
    BY <2>1, <2>2, AllocatorAssumption, ElementsSet DEF NoRepeats
<1> HIDE DEF top
<1>3. IsFiniteSet(T) /\ Cardinality(T) <= L1MaxPages
  BY <1>2, LenIsCardinality
<1> HIDE DEF T
<1>4. /\ ListOk(Known, dom, Bumped(lru_list, top))
      /\ ToSet(lru_list) \subseteq ToSet(Bumped(lru_list, top))
      /\ HotLast(Bumped(lru_list, top), T)
  BY <1>2, BumpedProps DEF EInv, FramesOk, T
<1>5. start \in States(Known) /\ StateOk(Known, start)
  BY <1>4 DEF States, StateOk, EInv, ListOk, FramesOk
<1>6. RoundOk(Known, start, T)
  <2>1. \A p \in Known : dom[p] = "l1m" => p \in ToSet(lru_list)
    <3>1. lru_list \in Seq(Known)
      BY DEF EInv, ListOk
    <3> QED
      BY <3>1, ElementsSet DEF AllListed
  <2>2. /\ start.dom = dom /\ start.lru_list = Bumped(lru_list, top)
        /\ start.proc = "run"
    OBVIOUS
  <2> HIDE DEF start
  <2> QED
    BY <1>4, <2>1, <2>2 DEF RoundOk, Listing
<1> HIDE DEF start
<1>7. PICK g : /\ AllPlaced(start, top) = g[Len(top)] /\ g[0] = start
               /\ \A i \in 1..Len(top) : g[i] = Placed(g[i - 1], top[i])
               /\ \A i \in 0..Len(top) : g[i] \in States(Known) /\ StateOk(Known, g[i])
  BY <1>2, <1>5, AllPlacedRun
<1> DEFINE n == Len(top)
           S == {s \in States(Known) : RoundOk(Known, s, T)}
<1>8. g[0] \in S
  BY <1>5, <1>6, <1>7
<1>9. ASSUME NEW i \in 1..n, g[i - 1] \in S
      PROVE  g[i] \in S
  <2>1. i - 1 \in 0..n /\ i \in 0..n
    BY <1>2
  <2>2. top[i] \in Known /\ top[i] \in T
    BY <1>2
  <2>3. RoundOk(Known, Placed(g[i - 1], top[i]), T)
    BY <1>3, <1>7, <1>9, <2>1, <2>2, PlacedRound DEF EInv
  <2> QED
    BY <1>7, <2>1, <2>3
<1> HIDE DEF S
<1>10. \A i \in 0..n : g[i] \in S
  BY <1>2, <1>8, <1>9, LoopInvariant
<1>11. RoundOk(Known, g[n], T)
  BY <1>2, <1>10 DEF S
<1>12. dom' = g[n].dom /\ proc' = g[n].proc
  BY <1>1, <1>7 DEF start, top
<1> QED
  BY <1>11, <1>12 DEF RoundOk, T, top

\* A page that is not among the top hot pages was accessed no more than one that is.
LEMMA TopIsHottest ==
  ASSUME EInv, NEW order \in Sorted, NEW p \in Known, p \notin ToSet(TopHot(order)),
         NEW q \in Known, q \in ToSet(TopHot(order))
  PROVE  epoch_count[p] <= epoch_count[q]
<1> DEFINE top == TopHot(order)
<1>1. /\ order \in Seq(Known) /\ ToSet(order) = Hot
      /\ \A i, j \in 1..Len(order) :
           i < j => epoch_count[order[i]] >= epoch_count[order[j]]
      /\ top \in Seq(Known)
      /\ Len(top) = IF Len(order) <= L1MaxPages THEN Len(order) ELSE L1MaxPages
      /\ \A i \in 1..Len(top) : top[i] = order[i]
  BY SortedProps
<1> HIDE DEF top
<1>2. PICK i \in 1..Len(top) : top[i] = q
  BY <1>1, ElementsSet DEF top
<1>3. i \in 1..Len(order) /\ order[i] = q
  BY <1>1, <1>2, AllocatorAssumption
<1>4. epoch_count[p] \in Nat /\ epoch_count[q] \in Nat /\ Thold \in Nat
  BY EpochAssumption DEF EInv
<1>5. CASE p \in Hot
  <2>1. PICK j \in 1..Len(order) : order[j] = p
    BY <1>1, <1>5, ElementsSet
  <2>2. j \notin 1..Len(top)
    <3>1. j \in 1..Len(top) => top[j] \in ToSet(top)
      BY <1>1, ElementsSet
    <3> QED
      BY <1>1, <2>1, <3>1 DEF top
  <2>3. i < j
    BY <1>1, <1>2, <2>1, <2>2
  <2> QED
    BY <1>1, <1>3, <1>4, <2>1, <2>3
<1>6. CASE p \notin Hot
  <2>1. q \in Hot
    BY <1>1, <1>3, ElementsSet
  <2> QED
    BY <1>4, <1>6, <2>1 DEF Hot
<1> QED
  BY <1>5, <1>6

\* No page leaves the fast memory for one that was accessed less in the epoch, and the
\* policy finds a victim whenever it needs one: with L1MaxPages frames that all are
\* taken by listed pages, the least recently used one cannot be among the top hot
\* pages, of which there are no more than frames and one is still outside.
THEOREM VictimsAreColder ==
  ASSUME L1MaxPages >= 2
  PROVE  Spec => EvictionsColder
<1> DEFINE Colder ==
      AllListed =>
        /\ proc' # "segv"
        /\ \A p, q \in Known :
             /\ dom[p] = "l1m" /\ dom'[p] = "l2m"
             /\ dom[q] = "l2m" /\ dom'[q] = "l1m"
             => epoch_count[p] <= epoch_count[q]
<1>1. EInv /\ [Next]_vars => [Colder]_vars
  <2> SUFFICES ASSUME EInv, Next, AllListed PROVE Colder
    OBVIOUS
  <2>1. ASSUME proc' \in {"run", "oom"}, \A p \in Known : dom'[p] = dom[p]
        PROVE  Colder
    BY <2>1
  <2>2. ASSUME NEW v \in VPages, page_allocator(v)
        PROVE  Colder
    BY <2>1, <2>2 DEF page_allocator
  <2>3. ASSUME NEW p, hma_handler(p)
        PROVE  Colder
    <3>1. proc' \in {"run", "oom"}
      BY <2>3 DEF hma_handler
    <3>2. \A q \in Known : dom'[q] = dom[q]
      BY <2>3 DEF hma_handler, With, Known
    <3> QED
      BY <2>1, <3>1, <3>2
  <2>4. ASSUME NEW p, hma_epoch_count_keeper(p)
        PROVE  Colder
    BY <2>1, <2>4 DEF hma_epoch_count_keeper
  <2>5. CASE hma_policy_invoker
    <3>1. /\ proc' = "run"
          /\ \E order \in Sorted : \A p \in Known :
               /\ dom[p] = "l1m" /\ dom'[p] = "l2m" => p \notin ToSet(TopHot(order))
               /\ dom[p] = "l2m" /\ dom'[p] = "l1m" => p \in ToSet(TopHot(order))
      BY <2>5, InvokerEvicts
    <3> QED
      BY <3>1, TopIsHottest
  <2> QED
    BY <2>2, <2>3, <2>4, <2>5 DEF Next
<1>2. Spec => []EInv
  BY InitEInv, NextEInv, PTL DEF Spec
<1>3. QED
  BY <1>1, <1>2, PTL DEF Spec, EvictionsColder
=============================================================================
