# On-the-fly hybrid memory management: models and proofs

This directory holds TLA+ models of `src/`, a trace-driven simulator of a
hybrid memory derived from Ramulator: a small fast memory (HBM, called *l1m*,
memory 0) beside a large slow one (PCM, *l2m*, memory 1), and a migration
controller that moves hot pages to the fast one while the program runs
(`--mode=hma_onfly`, the mode `run.sh` starts). The repository has no tests;
what the code promises is in its README and its comments.

Lines below are those of `src/src/`.

## 1. The system

One clock (`Processor::hybrid_tick_hma_onfly`, Processor.cpp 249-275) runs the
migration controller, then the cache system, then each core; the two memories
tick beside it at their own rates. Nothing is multi-threaded. What makes the
system hard is that every operation is spread over many clocks, and that half a
dozen of them are under way at once, each reading state the others write.

| Component | State | Operations | Properties that make it correct |
|---|---|---|---|
| Page manager (hma.cpp, hma.h, mz_lru.h) | page table `ptable` (frame, domain, pair, `already_migrated`, `mig_count`), free frame queue of each memory, LRU list of l1m, `next_hot_pg_num`, `highest_l2m_hotness` | allocate at the first request, count an access, select a hot page and its victim | no frame has two owners; a victim is in l1m and the hot page in l2m; flags and remap table agree |
| Migration controller, life cycle and remap table (Processor.cpp 700-1711, 2277-2499) | `mig_status`, hot/cold page and frame, remap table, staging queues, window, buffers, migration queues | select, overhead, wait for demand reads, send reads, receive, send writes, complete | no line is lost, duplicated or read stale; a migration ends; remap entries hold the true frame |
| Address reconciliation, AR (Processor.cpp 1713-1775, 1955-2271) | `ar_status`, two pages, busy and waiting clocks, flags of the cores | reconcile the oldest remap entry and its pair: search mappings, stop cores, flush lines, update TLBs | never a page on the move; all lines flushed; every core stopped for its TLB update and released again |
| Core and window (Processor.cpp 480-700, Processor.h) | request to send next, bubble count, reorder window, `ar_flag`, `core_halt`, `os_halt_cycle` | dispatch, send, retire, halt | no core is halted for ever; in-order retirement |
| Caches (Cache.cpp, Cache.h) | lines, MSHR entries, wait list, hit list | lookup, allocate, evict, invalidate, forward to memory, hold or redirect requests of a page on the move | every miss is answered, with the last version written |
| Memory controller (Controller.h, Controller.cpp) | read, write, other and migration queues, pending lists, write mode | enqueue and forward, choose a queue, issue commands, complete | a read sees earlier writes; every request is served |
| Scheduler and row policy (Scheduler.h) | row table | pick a request, pick a row to close | only ready commands |
| DRAM tree and timing (DRAM.h, the standards) | state, open rows, history and next-allowed clock per command of each node | decode, check, update, row hit, row open | bursts never collide, data moves in open rows only, times of banks and windows are kept, every row can be reached |
| Refresh (Refresh.cpp, DSARP.cpp) | clocks and backlog of each rank and bank | inject refreshes | no bank is forgotten, backlog bounded |
| Memory front end (Memory.h, MemoryFactory.cpp) | page maps of l1m and l2m, free physical pages, address mapping | number the pages of the cores, map an address to channel/rank/bank/row | no two pages share a number |
| Epoch policy (hma.cpp 322-421, 555-862, 1453-1546) | page table, free frame queues, counts of the epoch, LRU list | allocate, count, move the hottest pages at the end of an epoch | frames neither shared nor lost; no page is evicted for a colder one |
| Trace front end, configuration (Main.cpp, Config.*) | files | read, construct | - |
| Statistics, gem5 glue, uthash | counters | count, print | - |

How they interact: a core sends a request down the caches (a call); the LLC
puts it in the wait list of the cache system; each clock `CacheSystem::
hybrid_tick_hma_onfly` allocates its page (`hma_handler`), lets
`onfly_mig_demand_check` hold it, answer it from a buffer or redirect it, sends
it to a memory, and counts the access (`hma_onfly_count_keeper`), which may name
the next hot page. The controller's tick reads that name, selects, and takes the
migration through its states; it looks into the LLC's MSHRs and into the wait
list, sends reads and writes to the memories, and gets the answers by a callback
(`mig_receive`). While the migration is in status 3 both memories serve
migration reads only. When the remap table is more than half full AR takes pages
off it, halts cores and invalidates LLC lines.

Three mechanisms that the names in the code suggest are switched off in this
commit, and so are not in the models: the adaptive threshold and the migration
pause (Processor.cpp 2303-2358 is commented out, so `thold` is constant and
`pause_migration` is never set; of that block only the read of `remap_table[0]`
at 2292 is left), and reverse migration (2368-2374).

## 2. The modules

| Module | Models | Uses |
|---|---|---|
| `PageLists` | operations on lists in the order of their last use (the LRU list, the lines of a cache) and on the remap table, as sequences | - |
| `HmaOnfly` | the page-level state machine: allocation, counting, LRU, selection, migration life cycle, remap table, AR | `PageLists` |
| `PageMap` | abstract: each page has one location; moves, swaps and reconciliations are single steps | - |
| `HmaOnflyRefines` | the refinement mapping from `HmaOnfly` to `PageMap` | both |
| `ArCores` | AR clock by clock, with the cores it halts, beside the OS work of a starting migration | - |
| `MigData` | a migration line by line, with the values of the lines, among demand requests | - |
| `MemController` | one channel of a memory: queues, scheduler, row table, banks, refresh, and the migration mode | - |
| `CacheHierarchy` | the L1s and the LLC with their MSHRs, the hit list and the wait list | `PageLists` |
| `DramTables` | the standards' tables: levels, speeds, timing entries, what a command needs and does | - |
| `DramTiming` | one DRAM channel: decoding, states, and the earliest clock of every command | `DramTables` |
| `FlatAllocator` | the flat address space: which page number a core's page gets | - |
| `EpochPolicy` | the mode `hma_epoch`: frames, counts and the policy at the end of an epoch | `FlatAllocator`, `PageLists` |
| `PageLists_proofs`, `HmaOnfly_proofs` | lemmas and theorems | `HmaOnflyRefines` |
| `EpochPolicy_proofs` | theorems on the page numbers, the frames and the policy | `EpochPolicy`, `PageLists_proofs` |
| `ArCores_proofs`, `MemController_proofs`, `CacheHierarchy_proofs` | theorems on the module of the name | the module |
| `MigData_proofs` | the coherence of migrations | `MigData`, `PageLists_proofs` |
| `DramTiming_proofs` | rows and times of the standards whose banks have one row buffer | `DramTiming` |
| `MCHmaOnfly`, `MCArCores`, `MCMigData`, `MCMemController`, `MCCacheHierarchy`, `MCDramTiming`, `MCEpochPolicy` | the instances for TLC | - |

The models look at one machine at several scales. `HmaOnfly` has every
page-level decision and none of the lines or clocks; `ArCores` refines what it
calls AR busy and waiting; `MigData` refines what it calls statuses 1 to 5;
`MemController` is the inside of one channel of the memories of `MigData`,
and `DramTiming` the timing that `MemController` leaves open. `EpochPolicy` is the
other hybrid mode; its `FlatAllocator` serves both.
`ArCores` and `MigData` leave open what `HmaOnfly` decides (which pages, when), so each
allows more than the real program does in that respect.

### HmaOnfly

*State.* One variable per field. The page table is one function per column
(`dom`, `frame_addr`, `pair`, `already_migrated`, `mig_count`); a free frame
queue is a set, since which frame is popped matters to nothing here; the LRU
list and the remap table are sequences because their order decides. Page number
0 (`Page0`) is an ordinary page which a one-way migration also writes into
`cold_pg_num` ("so cold_pg_num does not play any role", hma.cpp 1098), so what
the code does when the program really has a page 0 is in the model.

*Actions.*

| Action | Code |
|---|---|
| `hma_handler`, `hma_onfly_count_keeper` | the functions of these names (hma.cpp 864, 1480) |
| `onfly_ar_init`, `ArBusyOver`, `ArNextStage`, `ArComplete1`, `ArComplete2` | the AR part of the controller's tick (Processor.cpp 1713, 1955-2256) |
| `SelectAgain`, `SelectOneWay`, `SelectTwoWay`, `SelectNoVictim`, `SelectSegv` | the outcomes of `hma_onfly_opt_hotcold_check_and_init` (hma.cpp 1055-1190) that change state |
| `OverheadOver` | the end of statuses 201, 202, 203 |
| `onfly_fill_mig_stage_q` | the function; the remap entries are added here |
| `MigAdvance` | 2 to 1, 1 to 3, 3 to 4, 4 to 5 |
| `onfly_mig_completion` | the function |

A tick runs the AR part and then, unless it returned early, the migration part;
`MigTick` is that early return. In the code no access comes between the parts of
one tick, and status 100 is set and consumed in one tick; the model lets
accesses come between, which adds behaviours and removes none. A process that
calls `exit`, follows a null pointer (an LRU list of one page, hma.cpp 415) or
runs out of frames ends in `proc` = "exit", "segv", "oom".

### ArCores

`turn` walks through one clock: AR part, migration part, each core's tick.
Clocks until an event (`ar_left`, `half_left`, `migp_left`) stand for the
difference between `ar_next_free_clk` and its kin and `mig_clk`. `lines_1`
and `lines_2` count the lines of each page invalidated. In the code stages 13
and 23 have 64 and 128 busy clocks (Processor.h) and a page has 32 lines (2KB)
or 64 (4KB); the instances scale 64 clocks to 4 or 2 for pages of 2 lines.

### MigData

The simulator moves addresses, not data. The model adds what each frame, queue,
buffer and cache line would hold: the value of a line is the number of its last
write-back, so a read of the wrong frame, or of the right one too early or too
late, returns a wrong value. A read that finds a write of its address queued
takes the value from it, as `Controller::enqueue` does. A frame that no page has
been in holds `Junk`.

An address is a line and an offset. A demand request has the offset of the trace
(`Core::tick` sends what it read, 604 and 616, and `page_allocator` keeps the bits
below the page; the L1's miss, Cache.cpp 270, and the write-back of a line's stored
address, 185, pass it on), so two requests of one line may differ in it. A migration
request is for a whole line, offset 0 (Processor.cpp 842-850). The MSHRs, the window
and the cores compare lines; the write queues and the buffers compare addresses
(`Queued`, `HitsBuffer`). `crossed` records the lines one of whose requests was
served past another it did not match: a demand read sent, or a migration read, while
the last queued write of the line has another offset (`Misses`), or a request that
takes its turn before an earlier one of its line under another offset (`Passes`).
`crossed` guards no action; it is there for the properties to name.

The AR part is left out,
and so is the LLC's inside: a line is missed, answered and written back at any
time. Writes of different lines may be reordered by the scheduler; writes of one
line are not.

### MemController

One channel as a hybrid configuration builds it (HBM or PCM, one rank, scheduler
FRFCFS_PriorHit, row policy Opened). A line is a tuple of bank, row and column,
and its value again the number of its last write. A request is for a line and an
offset in it: bank, row and column come from the line, and forwarding compares both.
`latest` is the last write accepted of a line, `written` that of an address.

*State.* The read, write and migration queues and the two pending lists are
sequences in the order of arrival, so "the earlier `arrive`" is the lower index;
refresh requests of the one rank are all alike and are counted. `row_state` is
that of the DRAM tree (a bank without open rows is Closed), `rowtable` the
scheduler's own copy of it. `asserts` turns FALSE when an `assert` of
`RowTable::update` would fail.

*Actions.* `enqueue` and `enqueue_mig` are the functions; `MigStatus` stands for
the migration controller, which sends the reads of a page one by one (status 1),
has them served when all are queued (3) and goes on when all are answered. `tick`
is the whole of `tick_onfly_migration`: answer, refresh, mode, choice of a queue,
`get_head`, and one command. The timing table is a free choice at each tick: of
the commands the served queue wants, any set may be ready; the oldest answer may
be due or not; the refresh interval may be over or not.

### CacheHierarchy

The caches of a hybrid configuration: an L1 per core and a shared LLC (called L3
in the code). Cores have disjoint addresses (translation Flat).

*State.* A cache is a record: `order`, one sequence of lines, least recently used
first (the lines of a set are a subsequence of it), and the sets of lines whose
`lock` and `dirty` bits are on. An MSHR entry is the line it is for; that its
iterator is good is the invariant `MshrsSound`. `hit_list` has, for each answer to a
hit, the clocks left to it (two answers of one line at one clock are one: answers
are matched by their address). `wait_list` counts the requests of each kind
for each line; the time they spend there and in a memory is a free choice, and a
memory may refuse a request. `asserts` turns FALSE when the assertion of
`need_eviction` (Cache.cpp 437) or `evictline` (281, 286) fails. `loads` are the addresses not ready in the cores'
windows; `unsaved` is a history variable.

*Actions.* In a cycle the cache system ticks and then each core once, in order
(`turn`); in its tick a core has a request accepted or not. `L1Miss` is the whole
of a miss in both levels: the L1's eviction (`evictline` in the LLC), its
allocation, and the LLC's `send` with an eviction and back-invalidation of its
own. A request that the L1 refuses changes nothing and is tried again;
that the LLC's refusal is ignored is in `LlcSend`.

`invalidate` reads the dirty bit of a line it has just erased (Cache.cpp 330).
The model takes the value it had: nothing is allocated in between, and the
allocator overwrites only the first words of a freed node.

### DramTables and DramTiming

`DramTables` gives each standard as data: a set of timing entries (level,
from, to, distance, cycles, sibling) as `init_timing` builds it from the speed of
its configuration file, and per level the rule that `init_prereq` and
`init_lambda` install for a command, by name ("row", "opened", "closeBelow").
Commands nobody issues are left out: RDA and WRA (row policy Opened names no
victim), power-down, self-refresh. SALP comes in its three types, so there are
fifteen entries in `Standard`.

`DramTiming` is `DRAM.h` over one of them. A node of the tree is the sequence of
ids that leads to it. *State:* `bank` has the state and the rows of each node
that has any, `log` the commands issued with their clocks; `prev` and `next` of
the code follow from the log and are read from it (`Futures`, `Earliest`).
*Actions:* `Write`, `Read`, `ReadAsMigration` (what TLDRAM's tick makes of a read
after it has checked it as a read, Controller.cpp 128), `Refresh` and `CoolDown`
(the first refresh switches ALDRAM to the cold table). Each issues one command,
the one `decode` asks for, at the earliest clock that `check` allows. Requests
come in every order; issuing as early as allowed is what strains the timing most.

Its properties do not read the tables but say, of the log alone, what a device
needs: so a value missing at one level, looked up at the wrong node or lost by a
history shows, and a wrong speed does not.

### FlatAllocator and EpochPolicy

`FlatAllocator` is `flat_allocate_va_to_pa`: chunks of pages from either memory
in turns until the fast one is full. `map[k] = map.size()` evaluates its sides in
an order C++11 leaves open, so `first` (0 or 1) is chosen once.

`EpochPolicy` puts it in front of the epoch mode. Which pages are requested, in
which order, and whether the memory's queue accepts is left open: `hma_handler`
is the turn of a page's first request, `hma_epoch_count_keeper` that of any
request that is sent. `hma_policy_invoker` is the whole end of an epoch: sorting,
bumping the top hot pages in the LRU list, moving or swapping page by page with
the free lists and the LRU list changing on the way, and the reset of counts. The
order of pages with equal counts is open. The two loops over the top hot pages
(`Bumped`, `AllPlaced`) are functions of the number of rounds, each defined by
the round before.

## 3. What is checked

No run takes more than about three minutes. All bounds are CONSTANTS of the `.cfg`.

| Run | Instance | Shows |
|---|---|---|
| `hma_onfly` | 4 pages, 2+3 frames, remap table of 5, threshold 1, counter saturating at 2 (509,122 states) | `NoAliasing`, `RemapMatchesFlags`, `RemapFrames`, `PairSymmetric`, `ArExclusive`, `LruSound`, `NoExit`, and `ArPagesStay` as an action property |
| `hma_onfly_steps` | 4 pages, 2+2 frames, remap table of 3, threshold 0, no symmetry (189,433 states) | `RemapBounded` (with room for just one swap the early check decides), `ImplementsPageMap`, `MigrationEnds`, `ArEnds` |
| `cache_hierarchy` | 2 cores, 4 lines of one set, 1 way in an L1 and 2 in the LLC, 5 requests, 1 invalidation (299,966 states) | `Inclusive`, `MshrsSound`, `WritesKept`, `LoadsUnderWay` |
| `ar_cores_2k` | 2 cores, 3 pages (one core has two), 4 busy clocks for 2 lines | `AllLinesFlushed`, `HaltSound`, `OsHaltInTime`, `TlbUpdated`, `CoresRun` |
| `ar_cores_4k` | the same with 2 busy clocks | `AllLinesFlushed` fails (finding 2) |
| `migration` | 2 pages, 2 migrations: swaps of pages of 1 line, there and back, with 4 demand requests; or one-way migrations of pages of 2 lines, with 4 migrations and requests together; the line of the one-line page in fast memory under two offsets; unfilled write queues (169,469 states) | `CacheCoherent`, `PagesWhole`, `DemandServed`, `MigrationEnds` |
| `mig_mixed` | 3 pages, one free l1m frame, a one-way migration and a swap | `StageQueuesOwnFrames` fails (finding 1) |
| `mig_pending` | 2 pages of 2 lines, 1 swap, 2 misses | `SentMustWait` fails (finding 3) |
| `mem_controller` | 2 banks, 3 lines (two in one bank, in different rows), one of them under two offsets, queues of 2, drain from 2 to 0 writes, 3 demand requests, a migration of 2 lines, a refresh (414,502 states) | `ReadsFresh`, `ServingExact`, `RowTableSound`, `HitsSpared`, `Drained` |
| `mig_full_writeq` | no migration, a write queue of 1 | `CacheCoherent` fails (finding 4) |
| `dram_timing` | each standard, 1 or 2 ranks, bank groups or subarrays of 2, up to 5 banks, 2 rows, 5 commands (SALP 6, ALDRAM and TLDRAM 4) (125,629 states) | `DataBusFree`, `ActsInWindow`, `RowsExclusive`, `BankTimesKept`, `RowsReachable`, `HitsAgree` |
| `epoch_policy` | 5 virtual pages, 2 frames in each memory, chunks of 1 page, threshold 1, at most 2 pages moved in an epoch, counts to 3 (323,539 states) | `FlatInjective`, `FramesPartitioned`, `EvictionsColder` |

*Why the bounds are enough.* `HmaOnfly`: with four pages and five frames there
are one-way migrations, swaps, pages that come back, victims that are passed over
because they are remapped or being reconciled, and a reconciliation of two pages
beside a migration of two others. The threshold of 1 with a counter of 2 lets
one hot page overtake another. `ArCores`: two cores cover the cases "both pages
of one core" and "of two cores". `MigData`: two lines per page make partial
states of a page (one line moved, one not); two migrations bring a page back to
a frame whose old writes may still be queued. `MemController`: three requests fill
a queue of two and leave one to be refused or to conflict; the three lines give a
row conflict in one bank beside work in the other, and the migration comes in
with demand requests in every state of progress. One line, which is in the page
that is migrated, has two offsets (`OneUnaligned`, also in `migration`): lines with
different offsets do not meet, and two offsets are enough to differ. The real queues hold 32 (HBM) or
64 and 256 (PCM), and drain from 80% to 20%. `CacheHierarchy`: conflicts arise
within a set only, so all lines are in one; two cores with one way each and an
LLC of two is the tightest case in which the LLC always finds a way (as with four
cores, 4 and 16 ways in the code), and with three cores it may not (observation below;
`EnoughWays` in section 5). An answer to
an L1 hit takes 2 clocks as in the code, one to an LLC hit 3 instead of 23.
`DramTiming`: five commands suffice for five activations in one window, in five
banks, for a row conflict with its precharge between two accesses, and for a
refresh with the rank's rows open; SALP's six for two open subarrays and a third
access that closes one. Nodes of one parent are alike and are touched first in
order of their ids (`MCNext`). `EpochPolicy`: five pages for four frames let the
process run out of memory, two frames each let a page be swapped in and out, and
chunks of one let the turns change within the run.

*What the bounds hide.* `migration` never fills a write queue. With a queue of 2
a migration's own writes fill it, and finding 4 then shows within a migration
too: a held-up write-back is overtaken. Nor does it swap pages of two lines, for
which finding 3 strikes, nor mix the two kinds of migration, which is finding 1.
It says that the protocol is coherent as long as none of the three strikes, for
the lines that are not crossed; it does not say that they never do. `CacheCoherent`
and `PagesWhole` speak of no line in `crossed`, though there are such lines in
the run: what becomes of them is in the observations. `dram_timing` leaves out of `ActsInWindow` and
`BankTimesKept` the standards whose tables fall short of them: see the
observations.

*Types.* Each older module states its variables' types in `TypeOK`. The run
`hma_onfly` checks that of `HmaOnfly`; the others hold in the same instances and
are not part of a run. Those of `HmaOnfly`, `MemController` and `CacheHierarchy` are
proved, and that of `MigData` is a part of its `IInv`.

*Fairness.* `HmaOnfly`: weak fairness of the AR part and of the migration part of
the tick, each by itself, since every tick runs both and the timers they wait
for expire. Accesses need not come. `ArCores`: the clock runs (weak fairness of
`Next`); everything else follows. `MigData`: weak fairness of the cache system's
tick, of the migration controller's tick, and of the serving of reads, writes
and migration reads by each memory. The last is what `Drained` shows of
`MemController`: whatever is queued is served once nothing new comes. There,
weak fairness of a tick at which all timing is met (a timing constraint is a
clock that passes), and of the migration controller. Refreshes are bounded:
nothing in the code keeps a channel from being refreshed so often that no request
is ever served; that the interval is long enough is a matter of the timing table.
`MigData` allows new requests for ever, `Drained` does not; a stream of reads
that keeps a write from being served is stopped by the fullness of the queue
only, so `MigData`'s assumption is the stronger one.

## 4. Findings

1. **Frame addresses left in the staging queue** (Processor.cpp 857; run
   `mig_mixed`). A one-way migration pushes the hot page's destination frames on
   the *cold* queue's `ms_fr_addr_q` too, and its own frames on the hot queue's
   `fr_backup`; neither is consumed in a one-way migration. The next swap appends
   behind them and takes from the front: it reads the victim from frames the
   previous migration filled, and would write it to the frames the previous hot
   page left. The comment at 1088 says the queue "always should hold addr of cold
   pages which must go to HBM".
2. **The last line of a page is not flushed with pages of 4KB** (Processor.cpp
   2019; run `ar_cores_4k`). One line is invalidated per busy clock, and the clock
   that ends the stage invalidates none; with 64 clocks for 64 lines one line
   stays ("send INV for one page ... when x lines are sent it will be false",
   2020-2021).
3. **A demand read in flight that is not waited for** (Cache.cpp 536-552; run
   `mig_pending`). `onfly_search_set_init` looks in the wait list for any request
   of the *page* of an MSHR entry; one waiting line makes all entries of the page
   count as not sent. The read of another line of the page, in the memory's queue
   already, is then not waited for ("already sent to mem, so must wait", 549). It
   is frozen through status 3 and may be served after its frame has been given to
   the other page.
4. **A held-up write-back is overtaken by a later read of its line**
   (Cache.cpp 1050-1051; run `mig_full_writeq`). When the write queue is full the
   walk over the wait list goes on, and the read finds no write to forward from,
   the check Controller.h calls "necessary for coherence" (362).
Observations for which no comment or test promises otherwise, or which no
configuration in the repository reaches:

- *A miss that the LLC refuses is dropped* (Cache.cpp 268). The L1 ignores that
  `lower_cache->send` fails and keeps its locked line. It takes more cores than
  LLC ways / L1 ways, that is more than 4; with three cores and two ways
  `CacheHierarchy` then reaches the failing assertion of `evictline` (286), and
  loads that nothing will ever answer. Up to 4 cores it is proved not to happen
  (section 5).
- *Forwarding goes by the program's address* (Controller.h 361-367, 388-392:
  `req.addr == wreq.addr`, not `phys_addr`). A write of a line may still be queued at
  the slow memory, for the frame its page had there, when the page has been to the
  fast memory and has come back to another frame. If a newer write of the line has
  been served meanwhile, a read takes the older one from the queue: writes are kept
  in order within a frame, not between two. It takes three pages, two slow frames and two
  swaps; with that instance, and the other three conditions of section 5 given, TLC finds
  `CacheCoherent` violated.
- *Write queues and buffers compare addresses to the byte* (Controller.h 364 and 390;
  Cache.cpp 840, 867, 893, 918), and the addresses of demand requests have the offset
  of the trace, those of migrations none (section 2). So requests of one line need
  not find each other:
  - a demand read of a line with a queued write-back under another offset is not
    forwarded and, as reads go first, is mostly served before the write;
  - a migration read finds no write-back but one whose offset is 0. It reads the old
    content of the frame, and the write-back, which goes there later, is lost with
    the frame;
  - of the requests for a page on the move only those of offset 0 are answered from
    the buffer, absorbed by it or redirected. All others are held until the migration
    is over, and one of offset 0 may overtake a write-back of its line that is held.

  Without the exception of the crossed lines TLC finds `CacheCoherent` violated in
  the instance of `migration` after 8 steps, without any migration, and `PagesWhole`
  after 18, by a migration read that misses the queued write-back of its line.
  Requests are answered and migrations end all the same (`DemandServed`,
  `MigrationEnds`, which make no exception).
- *ALDRAM's zeros* (ALDRAM.cpp 65, 75-110, 224). `init_timing` takes the rows of
  `speed_table`, in which nRRD, nFAW and nRFC are 0; `init_speed` stores what it
  derives in `speed_entry`. The channel keeps no activation window and waits for no
  refresh. `ALDRAM::init_rowopen` is declared and never defined.
- *TLDRAM* has no entry PREA to ACT nor WR to PREM; its four-activation window
  counts each kind of activation apart; the kind of a precharge is that of the
  next row, not of the open one; a read is checked for readiness as RD and issued
  as MIG.
- *SALP-1* has no nRP from PRE_OTHER to an activation; *SALP-2* no nRAS, nRTP and
  nWR before PRE_OTHER. `get_offending_subarray` falls back on subarray 0 when no
  other is open.
- *DSARP* gives REFPB the scope Bank, where the comment at DSARP.h 90 speaks of the
  subarray.
- *The flat allocator* hands out chunks of 8 pages whatever `chunk_size_in_pages`
  says (Memory.h 593, 611; 4 with pages of 4KB, 528). With the compiler of the
  Makefile the size counts the new entry, so numbers start at 1 and the last page of
  l1m has the address 1GB, which `CHECK_TARGET_MEM` takes for l2m.
- *The epoch mode's LRU list* has only pages whose request was sent. A page that
  was allocated while the queue was full is in l1m and not in the list: a hotter
  page may be evicted in its place, or the list may run out (a null pointer in
  `hma_get_lru_page`). `EvictionsColder` is therefore stated for states in which
  every page of l1m is listed (`AllListed`).

The simulator carries no data, so none of the four findings makes a simulation
compute a wrong result; they change which addresses and how many requests the
memories see, and they are wrong as a description of hardware.

## 5. What is proved

By TLAPS, for every value of the constants that the ASSUMEs of the modules allow:

| Theorem (module) | Says |
|---|---|
| **`HmaOnfly_proofs`**: `Invariance` | `Spec => []IInv` |
| `TypeCorrect`, `FramesNeverShared`, `RemapTableSound`, `RemapTableFits`, `RemapEntriesRight`, `PairsSymmetric`, `ReconciliationExclusive`, `CandidatesSound`, `NoSanityExit` | the type invariant and every safety invariant of the runs `hma_onfly` and `hma_onfly_steps` |
| `ReconciledPagesStay`, `RemapTableStaysFilled` | the action property `ArPagesStay`; `RemapStaysFilled`, for a remap table of at least four entries (the code's has 1024) |
| `PageMapImplemented` | `Spec => ImplementsPageMap`: the page-level state machine is an implementation of `PageMap` |
| **`ArCores_proofs`**: `Invariance`, `HaltsSound`, `OsHaltsInTime`, `TlbAlwaysUpdated` | `HaltSound`, `OsHaltInTime` and the action property `TlbUpdated` |
| `LinesFlushedExactly`, `EnoughCyclesFlushAll` | how many lines a reconciliation invalidates: one less than its busy cycles, or all if those are fewer; so `AllLinesFlushed` if `BzCycles[13] > LinesInPage` and `BzCycles[23] > 2 * LinesInPage` |
| **`MemController_proofs`**: `Invariance`, `TypeCorrect`, `ReadsAlwaysFresh`, `ServingCounted`, `RowTableAgrees`, `HitsAlwaysSpared` | the type invariant and all safety properties of the run `mem_controller` |
| **`CacheHierarchy_proofs`**: `Invariance`, `TypeCorrect`, `AlwaysInclusive`, `MshrsAlwaysSound`, `WritesAlwaysKept`, `LoadsAlwaysUnderWay` | the type invariant and all safety properties of the run `cache_hierarchy`, if `EnoughWays` |
| **`EpochPolicy_proofs`**: `PagesNumberedApart`, `EpochPagesApart` | `FlatInjective` of the allocator and of the whole epoch mode, for every number of pages, size of l1m and chunk |
| `FramesAlwaysPartitioned`, `VictimsAreColder` | `FramesPartitioned`, and the action property `EvictionsColder` if `L1MaxPages >= 2`: the policy at the end of an epoch, for any number of pages, frames and accesses |
| **`MigData_proofs`**: `MigrationInvariant`, `CacheIsCoherent`, `PagesAreWhole` | `Spec /\ []Benign => []IInv`, and from it `CacheCoherent` and `PagesWhole`: whatever the numbers of pages, frames, lines of a page, migrations and requests, and whatever the offsets, a line that goes wrong is one whose requests crossed, unless finding 1, 3 or 4 has struck or queued writes of a line are for two frames |
| `SwapsAreCoherent` | the same without the condition on the staging queues, if the fast memory is full at first |
| **`DramTiming_proofs`**: `RowsKeptApart`, `HitsAreReads`, `RowsCanBeRead`, `BankTimesAreKept`, `ActsKeepToWindow`, `BurstsKeptApart` | `RowsExclusive`, `HitsAgree`, `RowsReachable`, `BankTimesKept`, `ActsInWindow`, `DataBusFree`, all that the run `dram_timing` checks, for the ten standards of `RowPerBank` |

*Assumptions.* They are the named ASSUMEs of the modules, which TLC evaluates in
the runs. No finiteness of pages, frames, cores or lines is assumed, except that
cores and banks are numbered.

- `HmaOnfly`: -1 is no page and no frame, page 0 is a page, the sizes are natural
  numbers and the counter's bound exceeds the threshold.
- `ArCores`: no stage is without cycles, telling the cores takes two at least, and
  the work for two pages takes no less time than that for one (Processor.h 289-305).
- `MemController`: the lines of a page fit in the migration queue (the code
  waits for them all before it serves one, and has 64 places), 0 is an offset, and
  the watermarks are in order.
- `FlatAllocator`, `EpochPolicy`: the fast memory has a page, a turn takes one at
  least, and the hot threshold is not zero. `VictimsAreColder` has the hypothesis
  `L1MaxPages >= 2`; the sizes of the memories are megabytes and more.
- `MigData`: -1 is no page and no frame, a page has a line at least and no more
  than the migration queue takes, 0 is an offset, "no value" is none of the values.
  The theorems have hypotheses of their own, `[]Benign`; see below.
- `DramTiming`: nothing on the numbers of ranks, bank groups, banks, rows and
  commands. The theorems have the hypothesis `std \in RowPerBank`: DDR3, DDR4, LPDDR3,
  LPDDR4, GDDR5, HBM, WideIO, WideIO2, PCM and ALDRAM. The other five (the three
  types of SALP, DSARP, TLDRAM) have several row buffers in a bank, or several kinds of
  activations, and some fall short of their times (observations). `BurstsKeptApart`
  takes one rank for HBM, GDDR5 and WideIO, whose tables have no entries for a second;
  the code has no check that there is none.
- `CacheHierarchy`: an L1's MSHR entries times the cores do not exceed the
  LLC's (16, and 32 times the cores: Processor.h 134, 366, Processor.cpp 18). The theorems have
  a hypothesis of their own, `EnoughWays`: the LLC has at least as many ways as all
  L1s together, and lines of one LLC set are in one set of an L1. The second half
  holds in the code, where both indices are low bits of one address and the L1
  takes fewer; the first half up to four cores (4 ways in an L1, 16 in the LLC,
  Processor.h 131 and 364), not in the systems of 8 and 16 cores that the comments
  there speak of (358-362). The hypothesis cannot be spared: with `LlcAssoc = 1` in
  the run's instance TLC finds a miss that is dropped.

*The arguments.* None of the invariants is inductive alone; each module has an
`IInv`, which was checked by TLC before it was proved (but for that of `DramTiming`,
whose theorems are on properties TLC checks and whose invariant is stated for
records of any kind). The proofs have one lemma per action, and in it one step per
conjunct.

**HmaOnfly.** `IInv` adds what ties the phases of a migration together:

- `MigOk`: from the selection to the completion the hot page is in l2m, the frame
  recorded at the selection is still its frame, it is flagged, and in a swap the
  same holds of the cold page in l1m and the two name each other. Without it the
  completion could overwrite a frame somebody else has been given.
- `FreshOk` and `RoomOk`: from the selection until the entries are added, the
  pages of the migration have none, and there is room for two. AR only removes
  entries, and no second selection comes in between, so the check made at the
  selection is still good.
- `ArOk`: the AR status says which of the two pages there are and that they are
  partners. With `PairSymmetric` and `RemapMatchesFlags` (a partner is flagged,
  so it is in the table or on the move) this is why AR, which looks at
  `hot_pg_num` and `cold_pg_num` only when it picks a page, never meets the
  migration later: the selection refuses a page under reconciliation, and a
  flagged page.
- `MappedOk`, `FreeOk`: flagged pages have a frame; a free list holds frames of
  its own memory.

`PageLists_proofs` proves what the list operations keep: no page twice, and who
is in the list afterwards. `RemapStaysFilled` needs more than four places
because AR starts only above half of the table and takes at most two entries.

**The refinement.** `PageMap` has for each page a location and whether it is
remapped; a page is remapped there if it is flagged and not on the move, which
`RemapMatchesFlags` makes the same as having an entry that is not busy, so the
proof need not look at the table. The mapping hides a migration until
its completion: `StagesInvisible` and `SelectionInvisible` say that everything up to
there changes nothing that the page map shows, `CompletionRefines` that the
completion is one move, or one swap, to a place that was nobody's, and
`ReconcileRefines` that the end of a reconciliation takes a page together with its
partner or one that has none. `IInv` is enough for that but for `NowhereOk`, that
a page has a memory exactly if it has a frame.

**ArCores.** `StageInv` says what is true in each stage of the flags of the
cores, `FlushInv` how many lines have gone by the number of busy cycles left, and
`OsInv` that a core halted by the operating system sleeps no longer than what it
was halted for still takes, counted from its next tick, which may be of this clock
or the next. `OsHaltInTime` needs the last because a migration may halt a
core which a reconciliation has halted already, and the reverse.

**MemController.** `FreshInv` carries the sense of a read through the queues. A read
is queued only when no write of its address is, so the bank has at least what it wants
by then and never less later; the queued writes of a line, under all offsets, are in
order, newer than the bank's value, and the last of them is the last accepted; the last
of an address is the last accepted for it. What `ReadsFresh` does not say is that a read
returns the last write of its *line*: of one under another offset that is still queued
it returns nothing. That the scheduler,
which may pick any request, keeps the writes of one line in order is a lemma about
`get_head`: they hit the same row, and of equals it takes the oldest. `RowTableSound`
and `ServingExact` are inductive beside that; the second needs lemmas on how the
number of begun requests changes when a queue grows, loses an element, or has one
marked.

**CacheHierarchy.** A miss changes an L1, perhaps the LLC by `evictline`, then the
LLC and all L1s. `Sound` therefore speaks of caches given as arguments and holds at
every stage of a miss (`Midway`): bits belong to lines that are there, locked
lines are the awaited ones, what the LLC awaits the owner's L1 awaits, no set
overflows. The crucial lemmas say that the LLC never refuses a miss an L1
has accepted. `MshrFree`: the LLC's entries are among those of the L1s. `VictimThere`:
if all lines of a full LLC set were locked in some cache, the L1s would hold all of
them besides the new line, in one set each, which is more than their ways (a
pigeonhole argument, `Together`). From there `LoadsUnderWay` follows with
`AnswersInv`: an awaited line is in the hit list or the LLC awaits it from a
memory.

**FlatAllocator.** `FlatInjective` needs two facts beside it: each map numbers its
pages from `first` on without gaps or repeats (so the cardinality of the map is the
next number), and l1m's map has at most `L1MaxPages` pages, fewer while it may still
take one. A map number equal to l1m's size plus one is what the limit, tested
after the insertion, just excludes. Every step of `EpochPolicy` is a step of the
allocator or leaves its variables alone, which carries the theorem over.

**EpochPolicy.** `EInv` says that the pages' frames and the free lists divide the
frames of each memory among them (`FramesOk`) and that the LRU list holds pages of
the fast memory, none twice (`ListOk`). The end of an epoch is two loops. What they
keep is an invariant of their rounds, and `LoopInvariant` carries it to their end;
that the recursively defined functions exist at all is `LoopRuns`. Both are
inductions over the number of rounds, done with the well-foundedness of `<` on
the naturals (`WFMin`), since the library's induction theorems cannot be
instantiated. Lists are not recursed over, so what is needed of them are lemmas
on positions. `VictimsAreColder` rests on one count: when a page must be swapped in,
the fast memory has no free frame, so the list of its pages has `L1MaxPages` elements
(`FullList`), with the top hot ones at its end (`HotLast`). Were its head a top
page, all would be, besides the one that is to come in: more top pages than the
`L1MaxPages` there may be. With a single frame the statement would be false:
`hma_get_lru_page` looks at a second page of the list.

**MigData.** Coherence is false of the code in general, so the theorems say
under which conditions it is true, and of which lines: those that are not in
`crossed`, no request of which was served past one of another offset. That exception
is for a single line and is in the properties; `Benign` has four conditions on the
execution, each on a single state:

| Condition | Says | Where the code breaks it |
|---|---|---|
| `NeverRefused` | no write-back finds its queue full when it has its turn | finding 4 |
| `StagesEmptied` | when a swap fills the staging queues, the frame addresses of earlier migrations are gone | finding 1 |
| `SentMustWait` | while lines are being moved, no demand read is on its way to the frame a page leaves | finding 3 |
| `QueuedForOneFrame` | all queued writes of a line at one memory are for one frame | forwarding by program address, in the observations |

They restrict the executions and not the constants, because whether they hold is a
matter of what is in flight when a migration begins. None of them can be spared: with
any three of the four, TLC finds `CacheCoherent` or `PagesWhole` violated (in the
instances of `mig_mixed`, `mig_pending` with three requests and `mig_full_writeq`, and
in that of the observation). A fast memory that is full from the start needs no
`StagesEmptied`: `SwapInv` is inductive beside `IInv` and implies it.

The proof follows one notion, `Home(l)`: the value of line `l` that has got
furthest, which is in the buffer from the arrival of a migration read to the write
(so that a write-back absorbed there counts), and otherwise what a read of `l` sent
now would return: the last queued write of `l` at the memory its requests go to, or
the content of the frame they go to. `LineOk` says that this is the latest version
unless a write-back still waits in the LLC or the line is crossed, and that no write
of another line for this frame comes after the last of `l` (`QueueOk`), for then serving the writes in
any order the scheduler may choose does not change `Home`. A step is then of one of
four kinds: it leaves every `Home` alone (`DemandAlone`, `MigrationAlone`), it brings
a write-back (`WriteBackStep`, `BufferHitStep`, `SendDemandStep`), it carries a line
from a frame to the buffer (`StartStep`, with `WindowInv` and `MigqInv`: what a
migration read has returned, or will, is still `Home`, as the requests for its line
are held), or from the buffer to a queue (`LineWritten`). `StartStep` is where
`SentMustWait` is needed, `FillStep` where `StagesEmptied` is, `SendWriteStep` where
`QueuedForOneFrame` is. Where a read is sent, that its line does not become crossed
means that the last queued write of the line has its offset, or that none is queued;
then what it returns is `Home`, though the code compares addresses and `Home` looks at
lines. `Rest` gives the content of each staging queue by its length alone, so the k-th
line always meets the k-th line of the frame. The demand reads on their way
(`ReadInv`) of lines not crossed have the latest version, or go to the frame of the
line with no write of it queued; so they bring `Home`, and `CacheCoherent` follows.

**DramTiming.** The model keeps a log of the commands and, beside it, the state of
the banks as the code does. `RowsMatch` says that the two agree: a bank is open with
a row exactly if the log's last activation of it was of that row and no precharge
or refresh of the bank or its rank followed. The theorems on rows follow from this and
from what `decode` asks for in each state.

For the times, `TimesMatch` adds that every command was issued to a node of its
level, later than all before it, and with the table of the temperature of its time
(`LogOk`, `Warmth`), and that all pairs of commands kept their time (`PairsKept`). The tables
enter at one place only: for each of the ten, and for ALDRAM's two, a lemma shows that it
has an entry at least as long as each time of its speed (`RowsKept` for a bank, `BusKept`
and `RanksKept` for the bus, `WaitsFor` for the window); what else is in a table can
only delay a command further. `EarliestIs` says that a command goes no earlier than any
of the cycles computed for the nodes on its way, `WaitsAfter` and `WaitsAfterBeside` that
these are late enough for every earlier command and not only for the last one (the
history of a distance of one has the latest, and the log is in order). Two pairs have
no entry of their own: after an activation, the next activation of the bank
and the refresh of its rank are delayed by the precharge that must come in between, and
that there is one is `RowsExclusive` (`ClosedBetween`). Here ALDRAM differs: it may
cool down in between, so that the two parts come from two tables, and its entry for nRC is
used. For the window, had a rank more activations in it than allowed, there would be
four (two, for WideIO) before the newest, and `WaitsForWindow` delays the newest until
the window of the earliest of them is over. `ActsInWindow` says nothing of ALDRAM, which
keeps no window (observations).

*Only model-checked.*

- The liveness properties (`CoresRun`, `Drained`, `MigrationEnds`, `ArEnds`,
  `DemandServed`): out of the prover's reach.
- `CacheCoherent` and `PagesWhole` of `MigData` without the four conditions: they hold
  of the instance of `migration`, whose bounds keep the findings out. Of crossed lines
  they are false, and nothing is claimed.
- `DramTiming` with SALP, DSARP and TLDRAM: subarrays and the three
  kinds of activations need an argument of their own about which row buffer a
  command meets, and not all the properties hold of them.

## 6. What is not modelled, and the plan

Noted in the models, but under no property because nothing in the code claims
otherwise: the l2m frame a one-way migration leaves is not given back (hma.cpp
1112); a next hot page that is remapped is selected again and again, at the cost
of the overhead, until it is reconciled (1085-1088); a request fetched before
`ar_flag` was set is sent during the flush (Processor.cpp 635); page 0 is treated
as the cold page of every one-way migration.

Order of what comes next, the most important first:

1. `DsarpRefresh`: the backlog of per-bank refresh, early refreshes and write
   refresh parallelisation (Refresh.cpp 44-225), against a bound on the backlog.
   To look at there: `wrp` tests the second of a pair that holds the bank's index
   for the backlog (165-225), and `subarray_ref_counters` is sized by subarrays and
   indexed by banks.
2. `InstWindow`: the ring buffer of the reorder window against a queue.
3. The composition of `MemController` with `MigData` in place of that module's
   atomic memories, and its abstract specification, a register per address.
4. The Random translation (which keeps the old page's mapping when it replaces a
   page, Memory.h 656-662) and the address mapping, as operators against a
   reference definition.

Theorems planned: the backlog bound of `DsarpRefresh`;
the ring buffer.

Left out for good: configuration and trace files, statistics, the gem5 adapter,
the vendored hash table, SpeedyController (which serves standards that a hybrid
configuration never builds), and the commands that are never issued.
