---------------------------- MODULE FlatAllocator ----------------------------
(***************************************************************************)
(* The flat address allocation of Memory.h: the first use of a virtual     *)
(* page of a core gives it a page number for good, from the fast memory    *)
(* and the slow one in turns, and from the slow one alone once the fast    *)
(* one is full.  Page numbers from L1MaxPages on are slow memory's.        *)
(***************************************************************************)
EXTENDS Integers, FiniteSets

CONSTANTS
  VPages,      \* virtual pages, each with the core in its upper bits (ADJUST_VA)
  L1MaxPages,  \* l1_max_pages; L2_START_OFFSET is the address of page L1MaxPages
  Chunk        \* pages given from one memory before it is the other's turn; 8

ASSUME AllocatorAssumption == L1MaxPages \in Nat \ {0} /\ Chunk \in Nat \ {0}

VARIABLES
  l1_pte_map, l2_pte_map,  \* virtual page -> number within the memory
  l1_flag,                 \* it is the fast memory's turn
  l2_permanent_flag,       \* the fast memory is full
  first                    \* the number that map[k] = map.size() gives the first page

allocVars == <<l1_pte_map, l2_pte_map, l1_flag, l2_permanent_flag, first>>

Mapped == DOMAIN l1_pte_map \cup DOMAIN l2_pte_map
PageNumber(v) ==
  IF v \in DOMAIN l1_pte_map THEN l1_pte_map[v] ELSE L1MaxPages + l2_pte_map[v]
\* CHECK_TARGET_MEM
TargetMem(page) == IF page >= L1MaxPages THEN "l2m" ELSE "l1m"

Entered(map, v) ==
  [w \in DOMAIN map \cup {v} |->
     IF w = v THEN first + Cardinality(DOMAIN map) ELSE map[w]]

\* The order in which map[k] = map.size() is evaluated is the compiler's choice:
\* the entry of k is counted or not.
AllocInit ==
  /\ l1_pte_map = [v \in {} |-> 0] /\ l2_pte_map = [v \in {} |-> 0]
  /\ l1_flag = TRUE /\ l2_permanent_flag = FALSE
  /\ first \in {0, 1}

FullLate(count) == count > L1MaxPages                                 \* mutant
Full(count) == count >= L1MaxPages

MapFast(v) ==
  LET count == Cardinality(DOMAIN l1_pte_map) + 1
  IN  /\ v \notin Mapped
      /\ l1_flag /\ ~l2_permanent_flag
      /\ l1_pte_map' = Entered(l1_pte_map, v)
      /\ l1_flag' = (count % Chunk # 0 /\ ~Full(count))
      /\ l2_permanent_flag' = Full(count)
      /\ UNCHANGED <<l2_pte_map, first>>

MapSlow(v) ==
  LET count == Cardinality(DOMAIN l2_pte_map) + 1
  IN  /\ v \notin Mapped
      /\ ~(l1_flag /\ ~l2_permanent_flag)
      /\ l2_pte_map' = Entered(l2_pte_map, v)
      /\ l1_flag' = (l1_flag \/ count % Chunk = 0)
      /\ UNCHANGED <<l1_pte_map, l2_permanent_flag, first>>

flat_allocate_va_to_pa(v) == MapFast(v) \/ MapSlow(v)

AllocNext == \E v \in VPages : flat_allocate_va_to_pa(v)
AllocSpec == AllocInit /\ [][AllocNext]_allocVars

\* No two virtual pages ever get one page number, though the numbers of either memory
\* count up from 0 or 1 with nothing but the fast memory's limit to keep them apart.
FlatInjective ==
  \A v, w \in Mapped : PageNumber(v) = PageNumber(w) => v = w
=============================================================================
