---------------------------- MODULE CacheHierarchy ----------------------------
(***************************************************************************)
(* The two levels of caches: an L1 for each core and the LLC they share,   *)
(* with their MSHRs, and the hit list and wait list of the cache system.   *)
(*                                                                         *)
(* A processor cycle is the cache system's tick and then one of each core; *)
(* between two cycles the memories may answer a read, and reconciliation   *)
(* may invalidate a line of the LLC.                                       *)
(***************************************************************************)
EXTENDS Integers, Sequences, FiniteSets, FiniteSetsExt, PageLists

CONSTANTS
  NCores,              \* cores 1..NCores tick in this order
  Lines,               \* the lines that are accessed
  Owner,               \* Lines -> core; no line is shared
  L1Index, LlcIndex,   \* Lines -> the set a line belongs to
  L1Assoc, LlcAssoc, L1Mshrs, LlcMshrs,   \* ways of a set, mshr_entry_num
  L1Lat, LlcLat,       \* clocks from a hit to its answer
  MaxReqs,             \* bound of the model: requests of the cores
  MaxInvs              \* bound of the model: invalidations by reconciliation

Cores == 1..NCores

ASSUME CoreAssumption == NCores \in Nat \ {0} /\ Owner \in [Lines -> Cores]
ASSUME SizeAssumption ==
  /\ {L1Assoc, LlcAssoc, L1Mshrs, LlcMshrs, L1Lat, LlcLat} \subseteq Nat \ {0}
  /\ {MaxReqs, MaxInvs} \subseteq Nat
\* mshr_per_bank * number of cores, with 32 for the LLC and 16 for an L1
ASSUME MshrAssumption == LlcMshrs >= L1Mshrs * NCores

VARIABLES
  l1, llc,             \* core -> its L1; the LLC
  l1_mshr, llc_mshr,   \* core -> lines, lines: whose data is awaited
  hit_list,            \* [ln, left]: answered in left cycles
  wait_list,           \* request -> how many of it are on their way to memory
  in_memory,           \* line -> number of its reads in a memory
  loads,               \* lines that a load in a core's window waits for
  unsaved,             \* lines written since their last write-back
  asserts,             \* FALSE after an assertion failed
  turn,                \* 0: cache system; c: core c
  reqs, invs           \* counters of the model

vars == <<l1, llc, l1_mshr, llc_mshr, hit_list, wait_list, in_memory, loads, unsaved,
          asserts, turn, reqs, invs>>

\* The lines of a cache, of all its sets, the least recently used first.
Caches == [order : Seq(Lines), lock : SUBSET Lines, dirty : SUBSET Lines]
Held(q) == ToSet(q.order)
SameSet(q, l, index) == {x \in Held(q) : index[x] = index[l]}
Full(q, l, index, assoc) == Cardinality(SameSet(q, l, index)) >= assoc

Requests == [type : {"READ", "WRITE"}, ln : Lines]
Request(t, l) == [type |-> t, ln |-> l]

TypeOK ==
  /\ l1 \in [Cores -> Caches] /\ llc \in Caches
  /\ \A l \in Lines : /\ Cardinality(SameSet(llc, l, LlcIndex)) <= LlcAssoc
                      /\ \A c \in Cores : Cardinality(SameSet(l1[c], l, L1Index)) <= L1Assoc
  /\ l1_mshr \in [Cores -> SUBSET Lines] /\ llc_mshr \in SUBSET Lines
  /\ \A c \in Cores : Cardinality(l1_mshr[c]) <= L1Mshrs
  /\ Cardinality(llc_mshr) <= LlcMshrs
  /\ hit_list \in SUBSET [ln : Lines, left : Nat \ {0}]
  /\ wait_list \in [Requests -> Nat]
  /\ in_memory \in [Lines -> Nat]
  /\ loads \in SUBSET Lines /\ unsaved \in SUBSET Lines
  /\ asserts \in BOOLEAN /\ turn \in 0..NCores
  /\ reqs \in 0..MaxReqs /\ invs \in 0..MaxInvs

Init ==
  LET Empty == [order |-> <<>>, lock |-> {}, dirty |-> {}]
  IN /\ l1 = [c \in Cores |-> Empty] /\ llc = Empty
     /\ l1_mshr = [c \in Cores |-> {}] /\ llc_mshr = {}
     /\ hit_list = {} /\ wait_list = [r \in Requests |-> 0]
     /\ in_memory = [l \in Lines |-> 0]
     /\ loads = {} /\ unsaved = {} /\ asserts = TRUE
     /\ turn = 0 /\ reqs = 0 /\ invs = 0

(***************************************************************************)
(* The lines of one cache.                                                 *)
(***************************************************************************)
Hit(q, l) == l \in Held(q) \ q.lock                       \* is_hit
Unlocked(q, l) == l \notin q.lock                         \* check_unlock
WithDirty(q, l, d) == IF d THEN q.dirty \cup {l} ELSE q.dirty

Without(q, l) ==
  [order |-> Dropped(q.order, l), lock |-> q.lock \ {l}, dirty |-> q.dirty \ {l}]

\* The line becomes the most recently used, unlocked.
RenewedLocked(q, l, d) ==                                         \* mutant
  [order |-> Touched(q.order, l), lock |-> q.lock \cup {l}, dirty |-> WithDirty(q, l, d)]
Renewed(q, l, d) ==
  [order |-> Touched(q.order, l), lock |-> q.lock \ {l}, dirty |-> WithDirty(q, l, d)]

\* A new line is locked until its data comes.
Allocated(q, l, d) ==
  [order |-> Append(q.order, l), lock |-> q.lock \cup {l}, dirty |-> WithDirty(q, l, d)]

Unlock(q, S) == [q EXCEPT !.lock = @ \ S]

\* The least recently used of the lines S of a cache, as a set of none or one.
LeastRecent(q, S) ==
  {x \in S : \A y \in S : PosIn(q.order, x) <= PosIn(q.order, y)}

(***************************************************************************)
(* The LLC's part of a miss.                                               *)
(***************************************************************************)
\* The LLC evicts line v, the L1s being up: they lose the line too, and a copy
\* that is dirty anywhere is written back.
InvalidatedNot(up, v) == up                                       \* mutant
Invalidated(up, v) == [c \in Cores |-> Without(up[c], v)]
DirtyAnywhere(q, up, v) == v \in q.dirty \/ \E c \in Cores : v \in up[c].dirty
Queued(r) == [wait_list EXCEPT ![r] = @ + 1]
WriteBacks(q, up, v) ==
  IF DirtyAnywhere(q, up, v) THEN Queued(Request("WRITE", v)) ELSE wait_list
StillUnsaved(q, up, v, uns) == IF DirtyAnywhere(q, up, v) THEN uns \ {v} ELSE uns

\* allocate_line chooses among the lines that are unlocked in every cache.
LlcVictims(q, up, l) ==
  {x \in SameSet(q, l, LlcIndex) : Unlocked(q, x) /\ \A c \in Cores : Unlocked(up[c], x)}

LlcAllocate(l, up, q, uns) ==
  \/ /\ ~ Full(q, l, LlcIndex, LlcAssoc)
     /\ llc' = Allocated(q, l, FALSE) /\ l1' = up
     /\ wait_list' = Queued(Request("READ", l))
     /\ unsaved' = uns
  \/ /\ Full(q, l, LlcIndex, LlcAssoc)
     /\ \E v \in LeastRecent(q, LlcVictims(q, up, l)) :
          /\ llc' = Allocated(Without(q, v), l, FALSE)
          /\ l1' = Invalidated(up, v)
          /\ wait_list' = [WriteBacks(q, up, v) EXCEPT ![Request("READ", l)] = @ + 1]
          /\ unsaved' = StillUnsaved(q, up, v, uns)

LlcRefuses(l, up, q) ==
  \/ Cardinality(llc_mshr) = LlcMshrs
  \/ Full(q, l, LlcIndex, LlcAssoc) /\ LlcVictims(q, up, l) = {}

\* Cache::send of the LLC, whose lines are q, for an L1 that has made the L1s up.
\* The L1 ignores whether it succeeds.  ok: no assertion of the L1 failed; the
\* one of need_eviction is that a new line is not there yet.
LlcSend(l, up, q, uns, ok) ==
  \/ /\ Hit(q, l)
     /\ llc' = Renewed(q, l, FALSE)
     /\ hit_list' = hit_list \cup {[ln |-> l, left |-> LlcLat]}
     /\ l1' = up /\ unsaved' = uns /\ asserts' = ok
     /\ UNCHANGED <<llc_mshr, wait_list>>
  \/ /\ ~ Hit(q, l) /\ (l \in llc_mshr \/ LlcRefuses(l, up, q))
     /\ l1' = up /\ llc' = q /\ unsaved' = uns /\ asserts' = ok
     /\ UNCHANGED <<llc_mshr, hit_list, wait_list>>
  \/ /\ ~ Hit(q, l) /\ l \notin llc_mshr /\ ~ LlcRefuses(l, up, q)
     /\ llc_mshr' = llc_mshr \cup {l}
     /\ LlcAllocate(l, up, q, uns)
     /\ asserts' = (ok /\ l \notin Held(q))
     /\ UNCHANGED hit_list

(***************************************************************************)
(* A core sends a request; t is "READ" or "WRITE".                         *)
(***************************************************************************)
Following(c) == IF c = NCores THEN 0 ELSE c + 1

Sends(c, t, l) ==
  /\ asserts /\ turn = c /\ Owner[l] = c /\ reqs < MaxReqs
  /\ reqs' = reqs + 1
  /\ turn' = Following(c)
  /\ loads' = IF t = "READ" THEN loads \cup {l} ELSE loads
  /\ UNCHANGED <<in_memory, invs>>

Written(t, l) == IF t = "WRITE" THEN unsaved \cup {l} ELSE unsaved

L1Hit(c, t, l) ==
  /\ Sends(c, t, l)
  /\ Hit(l1[c], l)
  /\ l1' = [l1 EXCEPT ![c] = Renewed(@, l, t = "WRITE")]
  /\ hit_list' = hit_list \cup {[ln |-> l, left |-> L1Lat]}
  /\ unsaved' = Written(t, l)
  /\ UNCHANGED <<llc, l1_mshr, llc_mshr, wait_list, asserts>>

L1MshrHit(c, t, l) ==
  /\ Sends(c, t, l)
  /\ ~ Hit(l1[c], l) /\ l \in l1_mshr[c]
  /\ l1' = [l1 EXCEPT ![c].dirty = WithDirty(l1[c], l, t = "WRITE")]
  /\ unsaved' = Written(t, l)
  /\ UNCHANGED <<llc, l1_mshr, llc_mshr, hit_list, wait_list, asserts>>

\* The victim is one of the unlocked lines of the set, if the set is full.
L1Victims(c, l) == {x \in SameSet(l1[c], l, L1Index) : Unlocked(l1[c], x)}
L1Accepts(c, l) ==
  /\ Cardinality(l1_mshr[c]) < L1Mshrs
  /\ Full(l1[c], l, L1Index, L1Assoc) => L1Victims(c, l) # {}      \* all_sets_locked

\* evictline: the LLC inherits the dirty bit of a line that an L1 evicts.
EvictedClean(c, v) == Renewed(llc, v, FALSE)                      \* mutant
Evicted(c, v) == Renewed(llc, v, v \in l1[c].dirty)

\* l1[c] is q when the line is added: its victim is gone.
L1Allocates(c, t, l, q) == [l1 EXCEPT ![c] = Allocated(q, l, t = "WRITE")]

L1Miss(c, t, l) ==
  /\ Sends(c, t, l)
  /\ ~ Hit(l1[c], l) /\ l \notin l1_mshr[c] /\ L1Accepts(c, l)
  /\ l1_mshr' = [l1_mshr EXCEPT ![c] = @ \cup {l}]
  /\ \/ /\ ~ Full(l1[c], l, L1Index, L1Assoc)
        /\ LlcSend(l, L1Allocates(c, t, l, l1[c]), llc, Written(t, l), l \notin Held(l1[c]))
     \/ /\ Full(l1[c], l, L1Index, L1Assoc)
        /\ \E v \in LeastRecent(l1[c], L1Victims(c, l)) :
             LlcSend(l, L1Allocates(c, t, l, Without(l1[c], v)), Evicted(c, v), Written(t, l),
                     l \notin Held(l1[c]) /\ v \in Held(llc))   \* "check inclusive cache"

\* Nothing to send, or L1 refuses and the core tries again at its next tick.
CorePasses(c) ==
  /\ asserts /\ turn = c
  /\ turn' = Following(c)
  /\ UNCHANGED <<l1, llc, l1_mshr, llc_mshr, hit_list, wait_list, in_memory, loads,
                 unsaved, asserts, reqs, invs>>

(***************************************************************************)
(* Answers, the tick of the cache system, and reconciliation.              *)
(***************************************************************************)
\* An answer goes to the LLC and then, whether the LLC waited for it or not, to
\* the L1 and the window of the core.  It is matched by its address alone.
ReachedMissesOnly(S) == S \cap llc_mshr                           \* mutant
Reached(S) == S
Answer(S) ==
  /\ llc' = Unlock(llc, S \cap llc_mshr)
  /\ llc_mshr' = llc_mshr \ S
  /\ l1' = [c \in Cores |-> Unlock(l1[c], Reached(S) \cap l1_mshr[c])]
  /\ l1_mshr' = [c \in Cores |-> l1_mshr[c] \ Reached(S)]
  /\ loads' = loads \ S

\* The memories answer a read.
Processor_receive(l) ==
  /\ asserts /\ turn = 0 /\ in_memory[l] > 0
  /\ in_memory' = [in_memory EXCEPT ![l] = @ - 1]
  /\ Answer({l})
  /\ UNCHANGED <<hit_list, wait_list, unsaved, asserts, turn, reqs, invs>>

\* The requests of the wait list that have come to their turn and are accepted
\* by a memory: how many of each.
Parts ==
  LET waiting == {r \in Requests : wait_list[r] > 0}
  IN {sent \in [waiting -> 0..Max({wait_list[r] : r \in Requests})] :
        \A r \in waiting : sent[r] \in 0..wait_list[r]}

CacheTick(sent) ==
  LET Sent(r) == IF wait_list[r] > 0 THEN sent[r] ELSE 0
  IN /\ asserts /\ turn = 0
     /\ wait_list' = [r \in Requests |-> wait_list[r] - Sent(r)]
     /\ in_memory' = [l \in Lines |-> in_memory[l] + Sent(Request("READ", l))]
     /\ Answer({h.ln : h \in {x \in hit_list : x.left = 1}})
     /\ hit_list' = {[h EXCEPT !.left = @ - 1] : h \in {x \in hit_list : x.left > 1}}
     /\ turn' = 1
     /\ UNCHANGED <<unsaved, asserts, reqs, invs>>

\* Reconciliation flushes a line; one that a core awaits is left in place.
send_invalidate(l) ==
  /\ asserts /\ turn = 0 /\ invs < MaxInvs
  /\ Hit(llc, l) /\ \A c \in Cores : Unlocked(l1[c], l)
  /\ llc' = Without(llc, l)
  /\ l1' = Invalidated(l1, l)
  /\ wait_list' = WriteBacks(llc, l1, l)
  /\ unsaved' = StillUnsaved(llc, l1, l, unsaved)
  /\ invs' = invs + 1
  /\ UNCHANGED <<l1_mshr, llc_mshr, hit_list, in_memory, loads, asserts, turn, reqs>>

CoreTick(c) ==
  \/ \E t \in {"READ", "WRITE"}, l \in Lines :
       L1Hit(c, t, l) \/ L1MshrHit(c, t, l) \/ L1Miss(c, t, l)
  \/ CorePasses(c)

Next ==
  \/ \E c \in Cores : CoreTick(c)
  \/ \E sent \in Parts : CacheTick(sent)
  \/ \E l \in Lines : Processor_receive(l) \/ send_invalidate(l)

Spec == Init /\ [][Next]_vars

(***************************************************************************)
(* Properties.                                                             *)
(***************************************************************************)
\* The hierarchy is inclusive: what an L1 holds the LLC holds, and unlocked if
\* it is so in the L1.  evict, evictline and the look into the L1s when a victim
\* is chosen keep it so; the assertions of evictline, which rely on it, never fail.
Inclusive ==
  /\ asserts
  /\ \A c \in Cores : /\ Held(l1[c]) \subseteq Held(llc)
                      /\ \A l \in Lines : Hit(l1[c], l) => Hit(llc, l)

\* The iterator in each MSHR entry is good: the lines awaited are the lines that
\* are locked, and a cache has no line twice.
MshrsSound ==
  /\ llc.lock = llc_mshr /\ llc_mshr \subseteq Held(llc) /\ NoRepeats(llc.order)
  /\ \A c \in Cores : /\ l1[c].lock = l1_mshr[c] /\ l1_mshr[c] \subseteq Held(l1[c])
                      /\ NoRepeats(l1[c].order)

\* A write is not forgotten while the line's dirty bit moves between the levels:
\* until its write-back is sent some copy of the line is dirty.
WritesKept == \A l \in unsaved : DirtyAnywhere(llc, l1, l)

InHitList(l) == \E h \in hit_list : h.ln = l
AtMemory(l) == in_memory[l] > 0 \/ wait_list[Request("READ", l)] > 0

\* No load is forgotten: what it waits for is in the hit list, on its way to a
\* memory or in one, and each cache that it missed in waits for it too.
LoadsUnderWay ==
  \A l \in loads :
    \/ InHitList(l)
    \/ l \in l1_mshr[Owner[l]] /\ l \in llc_mshr /\ AtMemory(l)

\* What the theorems ask of the sizes: the LLC's sets hold as much as those of
\* all L1s do, and two lines of one LLC set are in one set of an L1 too.
EnoughWays ==
  /\ LlcAssoc >= NCores * L1Assoc
  /\ \A k, l \in Lines : LlcIndex[k] = LlcIndex[l] => L1Index[k] = L1Index[l]
=============================================================================
