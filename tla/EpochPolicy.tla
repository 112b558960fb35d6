----------------------------- MODULE EpochPolicy -----------------------------
(***************************************************************************)
(* The epoch mode: requests for pages of the flat address space reach the  *)
(* cache system, which gives each page a frame, counts its accesses, and   *)
(* at the end of an epoch moves the hottest pages to the fast memory.      *)
(***************************************************************************)
EXTENDS FlatAllocator, Sequences, SequencesExt, PageLists

CONSTANTS
  L2Frames,   \* frames of the slow memory; the fast one has L1MaxPages
  Thold,      \* hma.config.thold
  Limit,      \* hma.config.page_transfer_limit
  MaxCount    \* bound of the model: epoch_count saturates here

ASSUME EpochAssumption == /\ L2Frames \in Nat /\ Limit \in Nat
                          /\ MaxCount \in Nat /\ Thold \in 1..MaxCount

VARIABLES
  dom, frame_addr,  \* ptable: page number -> memory and frame
  epoch_count,      \* page number -> accesses in this epoch
  free,             \* memory -> free_frame_q
  lru_list,         \* l1m pages that have been accessed, least recently used first
  proc              \* "run", or how the process ended: "segv", "oom"

vars == <<allocVars, dom, frame_addr, epoch_count, free, lru_list, proc>>

Mems == {"l1m", "l2m"}
Frames(m) == IF m = "l1m" THEN L1MaxPages ELSE L2Frames
Known == DOMAIN dom
With(f, p, x) == [q \in DOMAIN f \cup {p} |-> IF q = p THEN x ELSE f[q]]

Init ==
  /\ AllocInit
  /\ dom = [p \in {} |-> ""] /\ frame_addr = [p \in {} |-> 0]
  /\ epoch_count = [p \in {} |-> 0]
  /\ free = [m \in Mems |-> [i \in 1..Frames(m) |-> i - 1]]
  /\ lru_list = <<>>
  /\ proc = "run"

\* page_allocator: a core reads an address from its trace.
page_allocator(v) ==
  /\ proc = "run"
  /\ flat_allocate_va_to_pa(v)
  /\ UNCHANGED <<dom, frame_addr, epoch_count, free, lru_list, proc>>

\* The first request of page p in the wait list has its turn: the page gets a frame,
\* whether or not the request can be sent.
OtherMem(m) == IF m = "l1m" THEN "l2m" ELSE "l1m"
hma_handler(p) ==
  LET m == IF free[TargetMem(p)] # <<>> THEN TargetMem(p) ELSE OtherMem(TargetMem(p))
  IN  /\ proc = "run" /\ p \notin Known
      /\ IF free[m] # <<>>
           THEN /\ dom' = With(dom, p, m)
                /\ frame_addr' = With(frame_addr, p, Head(free[m]))
                /\ epoch_count' = With(epoch_count, p, 0)
                /\ free' = [free EXCEPT ![m] = Tail(@)]
                /\ UNCHANGED proc
           \* "OUT OF MEMORY": frame and memory stay uninitialised.
           ELSE proc' = "oom" /\ UNCHANGED <<dom, frame_addr, epoch_count, free>>
      /\ UNCHANGED <<allocVars, lru_list>>

\* A request of page p is sent to memory, whose queue has room.
hma_epoch_count_keeper(p) ==
  /\ proc = "run" /\ p \in Known
  /\ epoch_count' = [epoch_count EXCEPT ![p] = IF @ < MaxCount THEN @ + 1 ELSE @]
  /\ lru_list' = IF dom[p] = "l1m" THEN Touched(lru_list, p) ELSE lru_list
  /\ UNCHANGED <<allocVars, dom, frame_addr, free, proc>>

(***************************************************************************)
(* The end of an epoch.                                                    *)
(***************************************************************************)
Hot == {p \in Known : epoch_count[p] >= Thold}
\* HASH_SRT: by count; the order of equal ones is left open.
Sorted == {s \in SetToSeqs(Hot) :
             \A i, j \in DOMAIN s : i < j => epoch_count[s[i]] >= epoch_count[s[j]]}
TopHot(order) == SubSeq(order, 1, IF Len(order) <= L1MaxPages THEN Len(order) ELSE L1MaxPages)

\* hma_set_hot_pages: the top hot pages of l1m become the most recently used ones.
BumpedNot(list, top) == list                                          \* mutant
Bumped(list, top) ==
  LET l[i \in 0..Len(top)] ==
        IF i = 0 THEN list
        ELSE IF dom[top[i]] = "l1m" THEN Touched(l[i - 1], top[i]) ELSE l[i - 1]
  IN  l[Len(top)]

ReturnedNot(fr, m, f) == [fr EXCEPT ![m] = @]                         \* mutant
Returned(fr, m, f) == [fr EXCEPT ![m] = Append(@, f)]

\* A page moves to a free frame of the fast memory, or swaps frames with the least
\* recently used page; hma_get_lru_page looks at the second page of the list.
MovedIn(s, p) ==
  [dom |-> [s.dom EXCEPT ![p] = "l1m"],
   frame_addr |-> [s.frame_addr EXCEPT ![p] = Head(s.free["l1m"])],
   free |-> [Returned(s.free, "l2m", s.frame_addr[p]) EXCEPT !["l1m"] = Tail(@)],
   lru_list |-> Touched(s.lru_list, p), moved |-> s.moved + 1, proc |-> s.proc]
Swapped(s, p) ==
  LET victim == Head(s.lru_list)
  IN  [dom |-> [s.dom EXCEPT ![p] = "l1m", ![victim] = "l2m"],
       frame_addr |-> [s.frame_addr EXCEPT ![p] = s.frame_addr[victim],
                                           ![victim] = s.frame_addr[p]],
       free |-> s.free,
       lru_list |-> Touched(Tail(s.lru_list), p), moved |-> s.moved + 1, proc |-> s.proc]
Placed(s, p) ==
  CASE s.proc # "run" \/ s.moved >= Limit \/ s.dom[p] = "l1m" -> s
    [] OTHER -> IF s.free["l1m"] # <<>> THEN MovedIn(s, p)
                ELSE IF Len(s.lru_list) >= 2 THEN Swapped(s, p)
                ELSE [s EXCEPT !.proc = "segv"]
AllPlaced(start, top) ==
  LET s[i \in 0..Len(top)] == IF i = 0 THEN start ELSE Placed(s[i - 1], top[i])
  IN  s[Len(top)]

\* hma_policy_invoker: hma_set_hot_pages, hma_default_policy and hma_reset_stats.
hma_policy_invoker ==
  /\ proc = "run"
  /\ \E order \in Sorted :
       LET top == TopHot(order)
           s == AllPlaced([dom |-> dom, frame_addr |-> frame_addr, free |-> free,
                           lru_list |-> Bumped(lru_list, top), moved |-> 0,
                           proc |-> "run"], top)
       IN  /\ dom' = s.dom /\ frame_addr' = s.frame_addr /\ free' = s.free
           /\ lru_list' = s.lru_list /\ proc' = s.proc
  /\ epoch_count' = [p \in Known |-> 0]
  /\ UNCHANGED allocVars

Next ==
  \/ \E v \in VPages : page_allocator(v)
  \/ \E v \in Mapped : hma_handler(PageNumber(v)) \/ hma_epoch_count_keeper(PageNumber(v))
  \/ hma_policy_invoker

Spec == Init /\ [][Next]_vars

(***************************************************************************)
(* Properties.                                                             *)
(***************************************************************************)
\* Frames are never shared, lost or freed twice, whatever is allocated between and
\* moved at the ends of the epochs (hma_handler, hma_default_policy).
FramesPartitioned ==
  \A m \in Mems : \A f \in 0..(Frames(m) - 1) :
    Cardinality({p \in Known : dom[p] = m /\ frame_addr[p] = f})
      + Cardinality({i \in DOMAIN free[m] : free[m][i] = f}) = 1

\* Every page of l1m has been sent a request; the LRU list has no other pages.
AllListed == \A p \in Known : dom[p] = "l1m" => \E i \in DOMAIN lru_list : lru_list[i] = p

\* hma_default_policy, "get lru page from l1m which is not in top N hot pages": no page
\* leaves the fast memory for one that was accessed less in the epoch, and the policy
\* does not run out of victims, although it never looks at what it evicts.
EvictionsColder ==
  [][AllListed =>
       /\ proc' # "segv"
       /\ \A p, q \in Known :
            /\ dom[p] = "l1m" /\ dom'[p] = "l2m"
            /\ dom[q] = "l2m" /\ dom'[q] = "l1m"
            => epoch_count[p] <= epoch_count[q]]_vars
=============================================================================
