------------------------------ MODULE HmaOnfly ------------------------------
(***************************************************************************)
(* The page-level state machine of on-the-fly hybrid-memory management     *)
(* (--mode=hma_onfly): the page table and the free frame lists of hma.cpp, *)
(* the hotness counters, the LRU list of the fast memory, the selection of *)
(* a hot page and its victim, the remap table, the migration life cycle    *)
(* and address reconciliation (AR) as Migration_controller drives them.    *)
(*                                                                         *)
(* Two actors share this state: the cache system, which allocates pages    *)
(* and counts accesses, and the migration controller, whose tick is split  *)
(* here into its AR part and its migration part.  The real tick runs at    *)
(* most one step of each, in this order, with no access in between; the    *)
(* model also lets accesses come between them.                             *)
(***************************************************************************)
EXTENDS Integers, Sequences, SequencesExt, PageLists

CONSTANTS
  Pages,       \* page numbers the program may touch
  Page0,       \* page number 0, the dummy cold page of a one-way migration
  NoPage,      \* the value -1 of the page-number fields
  L1Frames,    \* frames of l1m (HBM), byte addresses counted from 0
  L2Frames,    \* frames of l2m (PCM), byte addresses counted from 0 as well
  NoFrame,     \* the value -1 of the frame-address fields
  Thold,       \* hma.config.thold, the hotness threshold
  RemapMax,    \* REMAP_TABLE_MAX_SIZE
  MaxCount     \* bound of the model: mig_count saturates here

ASSUME PageAssumption == NoPage \notin Pages /\ Page0 \in Pages
ASSUME FrameAssumption == NoFrame \notin L1Frames \cup L2Frames
ASSUME SizeAssumption == /\ Thold \in Nat
                         /\ RemapMax \in Nat
                         /\ MaxCount \in Nat /\ MaxCount > Thold

VARIABLES
  dom,               \* page -> "l1m", "l2m", or "none" while it has no entry
  frame_addr,        \* page -> its frame
  pair,              \* page -> onfly_pair_pnum, the page it was swapped with
  already_migrated,  \* page -> the flag that it is selected or remapped
  mig_count,         \* page -> accesses since its last migration
  free,              \* memory -> free_frame_q, as a set: the order is not used
  lru_list,          \* l1m pages, least recently used first
  remap_table,       \* entries [pg, fr, busy] in insertion order
  mig_status,        \* hma.onfly.mig_status
  mig_type,          \* 0, 1 one-way, 2 two-way; never reset
  hot_pg_num, hot_frame_addr, cold_pg_num, cold_frame_addr,
  next_hot_pg_num, highest_l2m_hotness,
  ar_status,         \* 0, 11..14 one-way, 21..24 two-way
  ar_bz,             \* the controller is busy with this AR stage
  ar_page_1, ar_page_2,
  proc               \* "run", or how the process ended: "exit", "segv", "oom"

pageVars == <<dom, frame_addr, pair, already_migrated, mig_count, free>>
migVars  == <<mig_status, mig_type, hot_pg_num, hot_frame_addr,
              cold_pg_num, cold_frame_addr>>
hotVars  == <<next_hot_pg_num, highest_l2m_hotness>>
arVars   == <<ar_status, ar_bz, ar_page_1, ar_page_2>>
vars     == <<pageVars, lru_list, remap_table, migVars, hotVars, arVars, proc>>

Mems == {"l1m", "l2m"}
Frames(m) == IF m = "l1m" THEN L1Frames ELSE L2Frames
MigStatus == {0, 1, 2, 3, 4, 5, 100, 201, 202, 203}
ArStatus == {0, 11, 12, 13, 14, 21, 22, 23, 24}
Entries == [pg : Pages, fr : L1Frames \cup L2Frames, busy : BOOLEAN]

TypeOK ==
  /\ dom \in [Pages -> Mems \cup {"none"}]
  /\ frame_addr \in [Pages -> L1Frames \cup L2Frames \cup {NoFrame}]
  /\ pair \in [Pages -> Pages \cup {NoPage}]
  /\ already_migrated \in [Pages -> BOOLEAN]
  /\ mig_count \in [Pages -> 0..MaxCount]
  /\ free \in [Mems -> SUBSET (L1Frames \cup L2Frames)]
  /\ lru_list \in Seq(Pages)
  /\ remap_table \in Seq(Entries)
  /\ mig_status \in MigStatus
  /\ mig_type \in 0..2
  /\ hot_pg_num \in Pages \cup {NoPage}
  /\ cold_pg_num \in Pages \cup {NoPage}
  /\ next_hot_pg_num \in Pages \cup {NoPage}
  /\ hot_frame_addr \in L1Frames \cup L2Frames \cup {NoFrame}
  /\ cold_frame_addr \in L1Frames \cup L2Frames \cup {NoFrame}
  /\ highest_l2m_hotness \in Thold..MaxCount
  /\ ar_status \in ArStatus
  /\ ar_bz \in BOOLEAN
  /\ ar_page_1 \in Pages \cup {NoPage}
  /\ ar_page_2 \in Pages \cup {NoPage}
  /\ proc \in {"run", "exit", "segv", "oom"}

Init ==
  /\ dom = [p \in Pages |-> "none"]
  /\ frame_addr = [p \in Pages |-> NoFrame]
  /\ pair = [p \in Pages |-> NoPage]
  /\ already_migrated = [p \in Pages |-> FALSE]
  /\ mig_count = [p \in Pages |-> 0]
  /\ free = [m \in Mems |-> Frames(m)]
  /\ lru_list = <<>> /\ remap_table = <<>>
  /\ mig_status = 0 /\ mig_type = 0
  /\ hot_pg_num = NoPage /\ cold_pg_num = NoPage
  /\ hot_frame_addr = NoFrame /\ cold_frame_addr = NoFrame
  /\ next_hot_pg_num = NoPage /\ highest_l2m_hotness = Thold
  /\ ar_status = 0 /\ ar_bz = FALSE
  /\ ar_page_1 = NoPage /\ ar_page_2 = NoPage
  /\ proc = "run"

(***************************************************************************)
(* The cache system.                                                       *)
(***************************************************************************)
OtherMem(m) == IF m = "l1m" THEN "l2m" ELSE "l1m"

\* Frame f is popped off the free list of memory m.
TakenNotPopped(m, f) == free                                      \* mutant
Taken(m, f) == [free EXCEPT ![m] = @ \ {f}]

\* hma_handler: the first request for page p allocates a frame, in the memory
\* its address belongs to or, when that one is full, in the other.
hma_handler(p, mem_type) ==
  /\ proc = "run" /\ dom[p] = "none"
  /\ LET m == IF free[mem_type] # {} THEN mem_type ELSE OtherMem(mem_type)
     IN \/ \E f \in free[m] :
             /\ dom' = [dom EXCEPT ![p] = m]
             /\ frame_addr' = [frame_addr EXCEPT ![p] = f]
             /\ free' = Taken(m, f)
             /\ UNCHANGED proc
        \* "OUT OF MEMORY": frame_addr and dom stay uninitialised, and what
        \* follows is undefined, so the model stops here.
        \/ /\ free[m] = {} /\ proc' = "oom"
           /\ UNCHANGED <<dom, frame_addr, free>>
  /\ UNCHANGED <<pair, already_migrated, mig_count, lru_list, remap_table,
                 migVars, hotVars, arVars>>

\* Where a request for p may be sent: to the memory of p or, for a line the
\* migration has already moved (a status-2 buffer entry), to its destination.
Redirected(p) == /\ mig_status \in {4, 5}
                 /\ p = hot_pg_num \/ (mig_type = 2 /\ p = cold_pg_num)
Targets(p) == {dom[p]} \cup IF Redirected(p) THEN {OtherMem(dom[p])} ELSE {}

\* An access of p at `target` refreshes the LRU list.
UsesLruAnyPage(p, target) == dom[p] = "l1m" /\ target = "l1m"      \* mutant
UsesLru(p, target) == dom[p] = "l1m" /\ target = "l1m" /\ p # cold_pg_num

\* Page p, accessed `count` times, becomes the next hot page.
Hottest(p, count) ==
  /\ dom[p] = "l2m" /\ count >= Thold /\ count > highest_l2m_hotness
  /\ p \notin {hot_pg_num, cold_pg_num}

\* hma_onfly_count_keeper: a request for p has been accepted by `target`.
hma_onfly_count_keeper(p, target) ==
  /\ proc = "run" /\ dom[p] # "none" /\ target \in Targets(p)
  /\ LET count == IF mig_count[p] < MaxCount THEN mig_count[p] + 1 ELSE MaxCount
     IN /\ mig_count' = [mig_count EXCEPT ![p] = count]
        /\ lru_list' = IF UsesLru(p, target) THEN Touched(lru_list, p)
                       ELSE lru_list
        /\ IF Hottest(p, count)
           THEN highest_l2m_hotness' = count /\ next_hot_pg_num' = p
           ELSE UNCHANGED hotVars
  /\ UNCHANGED <<dom, frame_addr, pair, already_migrated, free, remap_table,
                 migVars, arVars, proc>>

(***************************************************************************)
(* Address reconciliation: the AR part of the controller's tick.           *)
(***************************************************************************)
ArPages == {ar_page_1, ar_page_2}
Migrating == {hot_pg_num, cold_pg_num}

\* Entry e may be reconciled: neither it nor its pair is being migrated.
ArCandidate(e) ==
  /\ e.pg \notin Migrating
  /\ pair[e.pg] = NoPage \/ pair[e.pg] \notin Migrating

\* The remap table is more than half full.
Crowded == Len(remap_table) > RemapMax \div 2

ArWanted == /\ Crowded
            /\ \E i \in 1..Len(remap_table) : ArCandidate(remap_table[i])

\* onfly_ar_init: above half full, reconcile the oldest eligible page, and
\* its pair with it.
onfly_ar_init ==
  /\ proc = "run" /\ ar_status = 0
  /\ Crowded
  /\ \E i \in 1..Len(remap_table) :
       /\ ArCandidate(remap_table[i])
       /\ \A j \in 1..(i-1) : ~ ArCandidate(remap_table[j])
       /\ ar_page_1' = remap_table[i].pg
       /\ IF pair[remap_table[i].pg] # NoPage
          THEN ar_page_2' = pair[remap_table[i].pg] /\ ar_status' = 21
          ELSE UNCHANGED ar_page_2 /\ ar_status' = 11
       /\ ar_bz' = TRUE
  /\ UNCHANGED <<pageVars, lru_list, remap_table, migVars, hotVars, proc>>

\* The busy cycles of an AR stage are over.
ArBusyOver ==
  /\ proc = "run" /\ ar_bz
  /\ ar_bz' = FALSE
  /\ UNCHANGED <<pageVars, lru_list, remap_table, migVars, hotVars,
                 ar_status, ar_page_1, ar_page_2, proc>>

\* The waiting cycles of stage 1, 2 or 3 are over: on to the next stage.
ArNextStageNoFlush ==                                             \* mutant
  /\ proc = "run" /\ ~ ar_bz /\ ar_status \notin {0, 13, 14, 23, 24}
  /\ ar_status' = ar_status + 1 /\ ar_bz' = TRUE
  /\ UNCHANGED <<pageVars, lru_list, remap_table, migVars, hotVars,
                 ar_page_1, ar_page_2, proc>>
ArNextStage ==
  /\ proc = "run" /\ ~ ar_bz /\ ar_status \notin {0, 14, 24}
  /\ ar_status' = ar_status + 1 /\ ar_bz' = TRUE
  /\ UNCHANGED <<pageVars, lru_list, remap_table, migVars, hotVars,
                 ar_page_1, ar_page_2, proc>>

\* The flags and the pairs once the pages S have been reconciled.
StillFlagged(S) == already_migrated                               \* mutant
Unflagged(S) == [p \in Pages |-> already_migrated[p] /\ p \notin S]
FirstUnpaired(S) ==                                               \* mutant
  [p \in Pages |-> IF p \in S \ {ar_page_2} THEN NoPage ELSE pair[p]]
Unpaired(S) == [p \in Pages |-> IF p \in S THEN NoPage ELSE pair[p]]

\* The waiting cycles of stage 14 are over: a page without a pair leaves the
\* remap table.
ArComplete1 ==
  /\ proc = "run" /\ ~ ar_bz /\ ar_status = 14
  /\ IF Listed(remap_table, ar_page_1) /\ pair[ar_page_1] # NoPage
     THEN /\ proc' = "exit"   \* "Problem found on one way completion!"
          /\ UNCHANGED <<already_migrated, remap_table, arVars>>
     ELSE /\ already_migrated' =
               Unflagged({p \in {ar_page_1} : Listed(remap_table, p)})
          /\ remap_table' = Erased(remap_table, ar_page_1)
          /\ ar_page_1' = NoPage /\ ar_page_2' = NoPage
          /\ ar_status' = 0 /\ ar_bz' = FALSE
          /\ UNCHANGED proc
  /\ UNCHANGED <<dom, frame_addr, pair, mig_count, free, lru_list, migVars,
                 hotVars>>

\* The waiting cycles of stage 24 are over: both pages of a swap leave it.
\* The loop on the second page reads the pairs the first one has updated;
\* that changes nothing, for it writes the pair of ar_page_1 only.
ArComplete2 ==
  LET gone == {p \in {ar_page_1, ar_page_2} : Listed(remap_table, p)}
      other(p) == IF p = ar_page_1 THEN ar_page_2 ELSE ar_page_1
  IN /\ proc = "run" /\ ~ ar_bz /\ ar_status = 24
     /\ IF \E p \in gone : pair[p] # other(p)
        THEN /\ proc' = "exit"   \* "Problem found on two way completion!"
             /\ UNCHANGED <<pair, already_migrated, remap_table, arVars>>
        ELSE /\ pair' = Unpaired(gone) /\ already_migrated' = Unflagged(gone)
             /\ remap_table' = Erased(Erased(remap_table, ar_page_1), ar_page_2)
             /\ ar_page_1' = NoPage /\ ar_page_2' = NoPage
             /\ ar_status' = 0 /\ ar_bz' = FALSE
             /\ UNCHANGED proc
     /\ UNCHANGED <<dom, frame_addr, mig_count, free, lru_list, migVars, hotVars>>

(***************************************************************************)
(* Migration: what the tick does after its AR part, which returns early    *)
(* while an AR stage is busy and when a new AR starts.                     *)
(***************************************************************************)
MigTick == proc = "run" /\ ~ ar_bz /\ ~ (ar_status = 0 /\ ArWanted)

\* Room for the two entries of a swap.
RoomForOne == Len(remap_table) <= RemapMax - 1                    \* mutant
Room == Len(remap_table) <= RemapMax - 2

\* The early returns of hma_onfly_opt_hotcold_check_and_init that leave the
\* state alone are this guard.
Selecting == /\ MigTick /\ mig_status = 0
             /\ Room
             /\ next_hot_pg_num # NoPage
             /\ next_hot_pg_num \notin ArPages

\* The next hot page is already in the remap table: overhead, no migration,
\* and it stays the next hot page.
SelectAgain ==
  /\ Selecting /\ already_migrated[next_hot_pg_num]
  /\ mig_status' = 201
  /\ UNCHANGED <<pageVars, lru_list, remap_table, mig_type, hot_pg_num,
                 hot_frame_addr, cold_pg_num, cold_frame_addr, hotVars, arVars,
                 proc>>

\* The end of a successful selection of the hot page p.
SelectedResetToZero(p) ==                                         \* mutant
  /\ hot_pg_num' = p /\ hot_frame_addr' = frame_addr[p]
  /\ mig_count' = [mig_count EXCEPT ![p] = 0]
  /\ highest_l2m_hotness' = 0 /\ next_hot_pg_num' = NoPage
  /\ mig_status' = 203
Selected(p) ==
  /\ hot_pg_num' = p /\ hot_frame_addr' = frame_addr[p]
  /\ mig_count' = [mig_count EXCEPT ![p] = 0]
  /\ highest_l2m_hotness' = Thold /\ next_hot_pg_num' = NoPage
  /\ mig_status' = 203

\* l1m has a free frame: the hot page will move there.  Page number 0 is
\* written as the cold page, though a page of that number may exist.
SelectOneWay ==
  LET p == next_hot_pg_num
  IN /\ Selecting /\ ~ already_migrated[p] /\ dom[p] = "l2m"
     /\ Selected(p)
     /\ mig_type' = 1
     /\ \E f \in free["l1m"] :
          /\ cold_pg_num' = Page0 /\ cold_frame_addr' = f
          /\ free' = Taken("l1m", f)
     /\ pair' = [pair EXCEPT ![p] = NoPage]
     /\ already_migrated' = [already_migrated EXCEPT ![p] = TRUE]
     /\ UNCHANGED <<dom, frame_addr, lru_list, remap_table, arVars, proc>>

\* l1m is full: the hot page is to be swapped with a page of the LRU list.
SwapWanted == /\ Selecting /\ ~ already_migrated[next_hot_pg_num]
              /\ dom[next_hot_pg_num] = "l2m" /\ free["l1m"] = {}

\* hma_get_lru_page dereferences the second element of the list.
SelectSegv ==
  /\ SwapWanted /\ Len(lru_list) < 2
  /\ proc' = "segv"
  /\ UNCHANGED <<pageVars, lru_list, remap_table, migVars, hotVars, arVars>>

BadVictimNever(q) == FALSE                                        \* mutant
BadVictimArOnly(q) == q \in ArPages                               \* mutant
BadVictim(q) == q \in ArPages \/ already_migrated[q]

\* The two oldest pages are looked at; a page that will not do goes to the
\* other end of the list.
SelectTwoWay ==
  LET p == next_hot_pg_num
      rest == IF BadVictim(Head(lru_list)) THEN Rotated(lru_list) ELSE lru_list
      q == Head(rest)
  IN /\ SwapWanted /\ Len(lru_list) >= 2
     /\ ~ BadVictim(q)
     /\ lru_list' = Tail(rest)
     /\ Selected(p)
     /\ mig_type' = 2
     /\ cold_pg_num' = q /\ cold_frame_addr' = frame_addr[q]
     /\ pair' = [pair EXCEPT ![p] = q, ![q] = p]
     /\ already_migrated' = [already_migrated EXCEPT ![p] = TRUE, ![q] = TRUE]
     /\ UNCHANGED <<dom, frame_addr, free, remap_table, arVars, proc>>

\* Neither of the two oldest pages will do.
SelectNoVictim ==
  /\ SwapWanted /\ Len(lru_list) >= 2
  /\ BadVictim(Head(lru_list)) /\ BadVictim(Head(Rotated(lru_list)))
  /\ lru_list' = Rotated(Rotated(lru_list))
  /\ mig_status' = 202
  /\ UNCHANGED <<pageVars, remap_table, mig_type, hot_pg_num, hot_frame_addr,
                 cold_pg_num, cold_frame_addr, hotVars, arVars, proc>>

\* The overhead cycles of the remap-table lookup, and of the OS for 203, end.
OverheadOver ==
  /\ MigTick /\ mig_status \in {201, 202, 203}
  /\ mig_status' = IF mig_status = 203 THEN 100 ELSE 0
  /\ UNCHANGED <<pageVars, lru_list, remap_table, mig_type, hot_pg_num,
                 hot_frame_addr, cold_pg_num, cold_frame_addr, hotVars, arVars,
                 proc>>

\* onfly_fill_mig_stage_q: the pages get their remap entries, under their
\* frames to be.  `pending` says whether a demand read of them is in flight.
onfly_fill_mig_stage_q(pending) ==
  LET hotEntry  == [pg |-> hot_pg_num, fr |-> cold_frame_addr, busy |-> TRUE]
      coldEntry == [pg |-> cold_pg_num, fr |-> hot_frame_addr, busy |-> TRUE]
  IN /\ MigTick /\ mig_status = 100
     /\ mig_status' = IF pending THEN 2 ELSE 1
     \* "Found new migration in rmap table ...exiting"
     /\ IF \/ Listed(remap_table, hot_pg_num)
           \/ mig_type = 2 /\ Listed(Append(remap_table, hotEntry), cold_pg_num)
        THEN proc' = "exit" /\ UNCHANGED remap_table
        ELSE /\ remap_table' = IF mig_type = 2
                               THEN Append(Append(remap_table, hotEntry), coldEntry)
                               ELSE Append(remap_table, hotEntry)
             /\ UNCHANGED proc
     /\ UNCHANGED <<pageVars, lru_list, mig_type, hot_pg_num, hot_frame_addr,
                    cold_pg_num, cold_frame_addr, hotVars, arVars>>

\* Demand reads drained (2 to 1), all lines requested (1 to 3), all received
\* (3 to 4), all written (4 to 5).
MigAdvanceNoDrain ==                                              \* mutant
  /\ MigTick /\ mig_status \in {1, 3, 4}
  /\ mig_status' = IF mig_status = 1 THEN 3 ELSE mig_status + 1
  /\ UNCHANGED <<pageVars, lru_list, remap_table, mig_type, hot_pg_num,
                 hot_frame_addr, cold_pg_num, cold_frame_addr, hotVars, arVars,
                 proc>>
MigAdvance ==
  /\ MigTick /\ mig_status \in {1, 2, 3, 4}
  /\ mig_status' = CASE mig_status = 2 -> 1 [] mig_status = 1 -> 3
                     [] mig_status = 3 -> 4 [] mig_status = 4 -> 5
  /\ UNCHANGED <<pageVars, lru_list, remap_table, mig_type, hot_pg_num,
                 hot_frame_addr, cold_pg_num, cold_frame_addr, hotVars, arVars,
                 proc>>

\* The remap entries once the pages hot and cold have the frames fr.
SettledHotOnly(t, hot, cold, fr) ==                               \* mutant
  [i \in 1..Len(t) |-> IF t[i].pg = hot
                       THEN [t[i] EXCEPT !.busy = FALSE, !.fr = fr[hot]]
                       ELSE t[i]]
Settled(t, hot, cold, fr) ==
  [i \in 1..Len(t) |-> IF t[i].pg \in {hot, cold}
                       THEN [t[i] EXCEPT !.busy = FALSE, !.fr = fr[t[i].pg]]
                       ELSE t[i]]

\* The frames once hot has moved, or hot and cold have changed places.
MovedHotOnly(hot, cold, swap) ==                                  \* mutant
  [frame_addr EXCEPT ![hot] = cold_frame_addr]
Moved(hot, cold, swap) ==
  IF swap THEN [frame_addr EXCEPT ![hot] = cold_frame_addr, ![cold] = hot_frame_addr]
          ELSE [frame_addr EXCEPT ![hot] = cold_frame_addr]

\* onfly_mig_completion.  The old l2m frame of a one-way migration is not
\* given back to the free list.
onfly_mig_completion ==
  LET p == hot_pg_num
      q == cold_pg_num
      swap == mig_type = 2
  IN /\ MigTick /\ mig_status = 5
     \* " q->domain == 1 , it is incorrect", "p->domain == 0 , it is incorrect"
     /\ IF dom[p] = "l1m" \/ (swap /\ dom[q] # "l1m")
        THEN /\ proc' = "exit"
             /\ UNCHANGED <<dom, frame_addr, mig_count, lru_list, remap_table,
                            migVars>>
        ELSE /\ dom' = IF swap THEN [dom EXCEPT ![p] = "l1m", ![q] = "l2m"]
                               ELSE [dom EXCEPT ![p] = "l1m"]
             /\ frame_addr' = Moved(p, q, swap)
             /\ mig_count' = IF swap THEN [mig_count EXCEPT ![p] = 0, ![q] = 0]
                                     ELSE [mig_count EXCEPT ![p] = 0]
             /\ lru_list' = Touched(lru_list, p)
             /\ remap_table' = Settled(remap_table, p, q, frame_addr')
             /\ hot_pg_num' = NoPage /\ hot_frame_addr' = NoFrame
             /\ cold_pg_num' = NoPage /\ cold_frame_addr' = NoFrame
             /\ mig_status' = 0
             /\ UNCHANGED <<mig_type, proc>>
     /\ UNCHANGED <<pair, already_migrated, free, hotVars, arVars>>

(***************************************************************************)
(* The specification.                                                      *)
(***************************************************************************)
CacheStep ==
  \/ \E p \in Pages, m \in Mems : hma_handler(p, m)
  \/ \E p \in Pages, m \in Mems : hma_onfly_count_keeper(p, m)

ArStep == onfly_ar_init \/ ArBusyOver \/ ArNextStage \/ ArComplete1 \/ ArComplete2

SelectStep == \/ SelectAgain \/ SelectOneWay \/ SelectSegv
              \/ SelectTwoWay \/ SelectNoVictim

MigStep == \/ OverheadOver
           \/ \E pending \in BOOLEAN : onfly_fill_mig_stage_q(pending)
           \/ MigAdvance
           \/ onfly_mig_completion

\* The process has ended.
Ended == proc # "run" /\ UNCHANGED vars

Next == CacheStep \/ ArStep \/ SelectStep \/ MigStep \/ Ended

\* The controller ticks for ever: its timers expire, and the memory answers.
\* A tick runs both of its parts, so each of them is fair by itself.
Fairness == WF_vars(ArStep) /\ WF_vars(SelectStep \/ MigStep)

Spec == Init /\ [][Next]_vars /\ Fairness
(***************************************************************************)
(* Safety.                                                                 *)
(***************************************************************************)
Mapped == {p \in Pages : dom[p] # "none"}
Loc(p) == <<dom[p], frame_addr[p]>>
Active == mig_status \notin {0, 201, 202}
\* The pages whose data is being moved (page 0 only stands in for one).
Moving == IF ~ Active THEN {}
          ELSE IF mig_type = 2 THEN {hot_pg_num, cold_pg_num} ELSE {hot_pg_num}

\* No two pages ever own the same frame of the same memory, no owned frame is
\* on a free list, and the l1m frame a one-way migration has reserved is
\* neither: allocation, selection and completion write these three places at
\* different times.
NoAliasing ==
  /\ \A p, q \in Mapped : Loc(p) = Loc(q) => p = q
  /\ \A p \in Mapped : frame_addr[p] \in Frames(dom[p]) \ free[dom[p]]
  /\ Active /\ mig_type = 1 =>
       /\ cold_frame_addr \in L1Frames \ free["l1m"]
       /\ \A p \in Mapped : Loc(p) # <<"l1m", cold_frame_addr>>

\* The flag already_migrated, the only thing the selection looks at, says
\* exactly which pages are in the remap table or are about to be put there,
\* and no page has two entries ("Found new migration in rmap table").
RemapMatchesFlags ==
  /\ OneEntryEach(remap_table)
  /\ \A p \in Pages :
       already_migrated[p] <=> \/ Listed(remap_table, p)
                               \/ mig_status \in {203, 100} /\ p \in Moving

\* The remap table never outgrows REMAP_TABLE_MAX_SIZE although the check for
\* room is made long before the entries are added.
RemapBounded == Len(remap_table) <= RemapMax

\* A busy remap entry belongs to a page being moved and holds its frame to be;
\* every other entry holds the frame its page really has, whichever
\* migrations and reconciliations have gone by since it was made.
RemapFrames ==
  \A i \in 1..Len(remap_table) :
    LET e == remap_table[i]
    IN IF e.busy
       THEN /\ e.pg \in Moving
            /\ e.fr = IF e.pg = hot_pg_num THEN cold_frame_addr ELSE hot_frame_addr
       ELSE e.pg \notin Moving /\ e.fr = frame_addr[e.pg]

\* Swapped pages name each other until both leave the remap table, so AR never
\* takes one half of a swap.
PairSymmetric ==
  \A p \in Pages : pair[p] # NoPage =>
    /\ pair[p] # p /\ pair[pair[p]] = p
    /\ already_migrated[p] /\ already_migrated[pair[p]]

\* Reconciliation and migration run at the same time, but never on the same
\* page, and a page under reconciliation stays in the remap table until the
\* end.
ArExclusive ==
  \A p \in ArPages \ {NoPage} : p \notin Moving /\ Listed(remap_table, p)

\* The LRU list, from which victims are taken without a look at their domain,
\* holds pages of l1m only, none of them twice, and not the victim in flight.
LruSound ==
  /\ NoRepeats(lru_list)
  /\ \A i \in 1..Len(lru_list) :
       dom[lru_list[i]] = "l1m" /\ lru_list[i] \notin Moving

\* The next hot page is remembered across the end of a migration, yet it is
\* still in l2m when it is used ("page domain wrong in onfly_hotcold").
NextHotInSlow ==
  next_hot_pg_num # NoPage =>
    dom[next_hot_pg_num] = "l2m" /\ next_hot_pg_num \notin Moving

\* None of the sanity checks that end the process ever fails.
NoExit == proc # "exit"

(***************************************************************************)
(* What a step may never do.                                               *)
(***************************************************************************)
\* A page stays where it is, and stays paired, as long as it is being
\* reconciled: the lines AR invalidates are those of its final frame.
ArPagesStay ==
  [][\A p \in ArPages \ {NoPage} :
       /\ dom'[p] = dom[p] /\ frame_addr'[p] = frame_addr[p]
       /\ ar_status' # 0 => pair'[p] = pair[p] /\ already_migrated'[p]]_vars

\* Once filled, the remap table is never empty again: the adaptive threshold
\* block reads remap_table[0] after the first migration without a check.
RemapStaysFilled == [][remap_table # <<>> => remap_table' # <<>>]_vars

(***************************************************************************)
(* Liveness.                                                               *)
(***************************************************************************)
\* A selected migration is carried through, whatever reconciliations come
\* between its steps.
MigrationEnds == (mig_status = 203) ~> (mig_status = 0 \/ proc # "run")

\* A reconciliation that has started completes.
ArEnds == (ar_status # 0) ~> (ar_status = 0 \/ proc # "run")
=============================================================================
