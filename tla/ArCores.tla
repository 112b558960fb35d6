------------------------------- MODULE ArCores -------------------------------
(***************************************************************************)
(* Address reconciliation (AR) clock by clock: the busy and waiting cycles *)
(* of its stages, the cache lines it invalidates, and the cores it halts,  *)
(* together with the cores the OS work of a starting migration halts.      *)
(*                                                                         *)
(* A clock of Processor::hybrid_tick_hma_onfly is the controller's tick,   *)
(* in two steps here (its AR part, and its migration part unless the first *)
(* returns early), and then the tick of each core.  Which pages are        *)
(* reconciled and when a migration starts is HmaOnfly's subject and is     *)
(* left open here.                                                         *)
(***************************************************************************)
EXTENDS Integers, FiniteSets

CONSTANTS
  NumCores,        \* cores are numbered from 0
  Pages, NoPage,   \* page numbers, and the value -1
  CoreOf,          \* page -> th_id, the core it belongs to
  LinesInPage,     \* 32 lines in a page of 2KB, 64 in a page of 4KB
  BzCycles,        \* AR stage -> ar_stage_*_bz_cycle
  WaitCycles,      \* AR stage -> ar_stage_*_wait_cycle
  OverheadCycles,  \* mig_stage_203_bz_cycle
  OsCycles         \* mig_stage_203_wait_cycle

Cores == 0..(NumCores - 1)
OneWay == {11, 12, 13, 14}
TwoWay == {21, 22, 23, 24}
Stages == OneWay \cup TwoWay

ASSUME CoreAssumption == NumCores \in Nat \ {0} /\ CoreOf \in [Pages -> Cores]
ASSUME NoPageAssumption == NoPage \notin Pages
ASSUME CycleAssumption ==
  /\ LinesInPage \in Nat \ {0}
  /\ BzCycles \in [Stages -> Nat \ {0}] /\ WaitCycles \in [Stages -> Nat \ {0}]
  /\ OverheadCycles \in Nat \ {0} /\ OsCycles \in Nat \ {0}
  \* Two cycles at least: the cores are told in the first one.
  /\ BzCycles[12] > 1 /\ BzCycles[22] > 1
  \* The work for two pages takes the OS longer than that for one.
  /\ WaitCycles[11] <= WaitCycles[21] /\ WaitCycles[14] < WaitCycles[24]

VARIABLES
  turn,             \* "ar", "mig", or the core whose tick is next
  ar_status, ar_bz, ar_wait,
  ar_left,          \* ar_next_free_clk - mig_clk
  half_left,        \* ar_next_half_way_wait_clk - mig_clk, 0 when it is not set
  ar_page_1, ar_page_2,
  bz_process_flag,
  lines_1, lines_2, \* lines of the two pages invalidated so far in this AR
  migp,             \* "no", "bz", "wait" (203), "moving" (status 100 and on)
  migp_left,        \* migp_next_free_clk - mig_clk
  next_core_id,
  ar_flag, core_halt, os_halt_cycle,  \* of each core
  req               \* core -> page of the request it will send next

arVars   == <<ar_status, ar_bz, ar_wait, ar_left, half_left, ar_page_1,
              ar_page_2, bz_process_flag, lines_1, lines_2>>
migpVars == <<migp, migp_left, next_core_id>>
coreVars == <<ar_flag, core_halt, os_halt_cycle, req>>
vars     == <<turn, arVars, migpVars, coreVars>>

MaxOf(S) == CHOOSE x \in S : \A y \in S : y <= x
ArCycles == 0..MaxOf({BzCycles[s] : s \in Stages} \cup {WaitCycles[s] : s \in Stages})
MigCycles == 0..MaxOf({OverheadCycles, OsCycles})

TypeOK ==
  /\ turn \in ({"ar", "mig"} \X {0}) \cup ({"core"} \X Cores)
  /\ ar_status \in Stages \cup {0}
  /\ ar_bz \in BOOLEAN /\ ar_wait \in BOOLEAN
  /\ ar_left \in ArCycles /\ half_left \in ArCycles
  /\ ar_page_1 \in Pages \cup {NoPage} /\ ar_page_2 \in Pages \cup {NoPage}
  /\ bz_process_flag \in 0..(2 * LinesInPage)
  /\ lines_1 \in 0..LinesInPage /\ lines_2 \in 0..LinesInPage
  /\ migp \in {"no", "bz", "wait", "moving"}
  /\ migp_left \in MigCycles
  /\ next_core_id \in Cores
  /\ ar_flag \in [Cores -> BOOLEAN] /\ core_halt \in [Cores -> BOOLEAN]
  /\ os_halt_cycle \in [Cores -> ArCycles \cup MigCycles]
  /\ req \in [Cores -> Pages \cup {NoPage}]

\* A core asks for its own pages, or (NoPage) for one AR has no business with.
PagesOf(c) == {p \in Pages : CoreOf[p] = c} \cup {NoPage}

Init ==
  /\ turn = <<"ar", 0>>
  /\ ar_status = 0 /\ ar_bz = FALSE /\ ar_wait = FALSE /\ ar_left = 0 /\ half_left = 0
  /\ ar_page_1 = NoPage /\ ar_page_2 = NoPage
  /\ bz_process_flag = 0 /\ lines_1 = 0 /\ lines_2 = 0
  /\ migp = "no" /\ migp_left = 0 /\ next_core_id = 0
  /\ ar_flag = [c \in Cores |-> FALSE] /\ core_halt = [c \in Cores |-> FALSE]
  /\ os_halt_cycle = [c \in Cores |-> 0]
  /\ \E r \in [Cores -> Pages \cup {NoPage}] :
       /\ \A c \in Cores : r[c] \in PagesOf(c)
       /\ req = r

(***************************************************************************)
(* The AR part of the controller's tick.                                   *)
(***************************************************************************)
ArCores == {CoreOf[p] : p \in {ar_page_1, ar_page_2} \ {NoPage}}

Elapsed(n) == IF n = 0 THEN 0 ELSE n - 1
ArExpired == Elapsed(ar_left) = 0

\* The tick goes on with the migration part, or returns.
GoOn   == turn' = <<"mig", 0>> /\ migp_left' = Elapsed(migp_left)
Return == turn' = <<"core", 0>> /\ migp_left' = Elapsed(migp_left)

SameMig == UNCHANGED <<migp, next_core_id, req>>

\* onfly_ar_init has found nothing to reconcile.
ArIdle == /\ turn = <<"ar", 0>> /\ ar_status = 0
          /\ GoOn
          /\ UNCHANGED <<arVars, ar_flag, core_halt, os_halt_cycle>>
          /\ SameMig

\* onfly_ar_init has found page p, or page p and its pair q.
onfly_ar_init(p, q) ==
  /\ turn = <<"ar", 0>> /\ ar_status = 0 /\ p # q
  /\ ar_page_1' = p /\ ar_page_2' = q
  /\ ar_status' = IF q = NoPage THEN 11 ELSE 21
  /\ ar_left' = BzCycles[ar_status']
  /\ ar_bz' = TRUE /\ ar_wait' = FALSE
  /\ lines_1' = 0 /\ lines_2' = 0
  /\ Return
  /\ UNCHANGED <<half_left, bz_process_flag, ar_flag, core_halt, os_halt_cycle>>
  /\ SameMig

\* A busy cycle of stage 12 or 22: in the first one the cores are told to stop.
TellCores == IF bz_process_flag = 0
             THEN /\ ar_flag' = [c \in Cores |-> ar_flag[c] \/ c \in ArCores]
                  /\ bz_process_flag' = 1
             ELSE UNCHANGED <<ar_flag, bz_process_flag>>

\* A busy cycle of stage 13 or 23: one line is invalidated in the LLC, until
\* all lines of the first page and then of the second have been.
FlushLine ==
  /\ bz_process_flag' = IF bz_process_flag < (IF ar_status = 23 THEN 2 ELSE 1) * LinesInPage
                        THEN bz_process_flag + 1 ELSE bz_process_flag
  /\ lines_1' = IF bz_process_flag < LinesInPage THEN lines_1 + 1 ELSE lines_1
  /\ lines_2' = IF ar_status = 23 /\ bz_process_flag \in LinesInPage..(2 * LinesInPage - 1)
                THEN lines_2 + 1 ELSE lines_2

ArBusy ==
  /\ turn = <<"ar", 0>> /\ ar_bz /\ ~ ArExpired
  /\ ar_left' = Elapsed(ar_left)
  /\ CASE ar_status \in {12, 22} -> TellCores /\ UNCHANGED <<lines_1, lines_2>>
       [] ar_status \in {13, 23} -> FlushLine /\ UNCHANGED ar_flag
       [] OTHER -> UNCHANGED <<ar_flag, bz_process_flag, lines_1, lines_2>>
  /\ Return
  /\ UNCHANGED <<ar_status, ar_bz, ar_wait, half_left, ar_page_1, ar_page_2,
                 core_halt, os_halt_cycle>>
  /\ SameMig

\* The OS searches the mappings of the pages: their cores stop meanwhile, for
\* the time of one page each, or of two pages if it is the same core.
OsHaltSwapped(s) ==                                               \* mutant
  [c \in Cores |-> IF c \notin ArCores THEN os_halt_cycle[c]
                   ELSE IF Cardinality(ArCores) = 1
                        THEN WaitCycles[IF s = 11 THEN 21 ELSE 11]
                        ELSE WaitCycles[11]]
OsHalt(s) ==
  [c \in Cores |-> IF c \notin ArCores THEN os_halt_cycle[c]
                   ELSE IF Cardinality(ArCores) = 1 THEN WaitCycles[s]
                        ELSE WaitCycles[11]]

\* Where the count of a stage's busy cycles starts from in the next stage.
FlagKept == IF ar_status \in {13, 23} THEN 0 ELSE bz_process_flag  \* mutant
FlagReset == IF ar_status \in {12, 13, 22, 23} THEN 0 ELSE bz_process_flag

\* The busy cycles of the stage are over; in stage 14, and in stage 24 if both
\* pages belong to one core, that core is halted for its TLB update, and two
\* cores are halted half way.
ArBusyOver ==
  /\ turn = <<"ar", 0>> /\ ar_bz /\ ArExpired
  /\ ar_bz' = FALSE /\ ar_wait' = TRUE
  /\ ar_left' = WaitCycles[ar_status]
  /\ bz_process_flag' = FlagReset
  /\ os_halt_cycle' = IF ar_status \in {11, 21} THEN OsHalt(ar_status) ELSE os_halt_cycle
  /\ core_halt' = IF ar_status \in {14, 24} /\ Cardinality(ArCores) = 1
                  THEN [c \in Cores |-> core_halt[c] \/ c \in ArCores]
                  ELSE core_halt
  /\ half_left' = IF ar_status = 24 /\ Cardinality(ArCores) = 2
                  THEN WaitCycles[14] ELSE half_left
  /\ GoOn
  /\ UNCHANGED <<ar_status, ar_page_1, ar_page_2, lines_1, lines_2, ar_flag>>
  /\ SameMig

\* Half the waiting cycles of stage 24 are over: the two cores are halted.
HalfHalt == ar_wait /\ half_left > 0 /\ Elapsed(half_left) = 0
HaltedFirst == [c \in Cores |-> core_halt[c] \/ c = CoreOf[ar_page_1]]  \* mutant
HaltedBoth == [c \in Cores |-> core_halt[c] \/ c \in ArCores]

ArWaiting ==
  /\ turn = <<"ar", 0>> /\ ar_wait /\ ~ ArExpired
  /\ ar_left' = Elapsed(ar_left)
  /\ half_left' = Elapsed(half_left)
  /\ core_halt' = IF HalfHalt THEN HaltedBoth ELSE core_halt
  /\ GoOn
  /\ UNCHANGED <<ar_status, ar_bz, ar_wait, ar_page_1, ar_page_2,
                 bz_process_flag, lines_1, lines_2, ar_flag, os_halt_cycle>>
  /\ SameMig

\* The waiting cycles of stage 1, 2 or 3 are over: on to the next stage.
ArNextStage ==
  /\ turn = <<"ar", 0>> /\ ar_wait /\ ArExpired /\ ar_status \notin {14, 24}
  /\ ar_bz' = TRUE /\ ar_wait' = FALSE
  /\ ar_status' = ar_status + 1
  /\ ar_left' = BzCycles[ar_status + 1]
  /\ os_halt_cycle' = IF ar_status \in {11, 21}
                      THEN [c \in Cores |-> IF c \in ArCores THEN 0 ELSE os_halt_cycle[c]]
                      ELSE os_halt_cycle
  /\ GoOn
  /\ UNCHANGED <<half_left, ar_page_1, ar_page_2, bz_process_flag, lines_1,
                 lines_2, ar_flag, core_halt>>
  /\ SameMig

\* AR is complete: its cores run again.
ReleasedFirst(f) == [f EXCEPT ![CoreOf[ar_page_1]] = FALSE]       \* mutant
Released(f) == [c \in Cores |-> f[c] /\ c \notin ArCores]

ArComplete ==
  /\ turn = <<"ar", 0>> /\ ar_wait /\ ArExpired /\ ar_status \in {14, 24}
  /\ ar_flag' = Released(ar_flag) /\ core_halt' = Released(core_halt)
  /\ os_halt_cycle' = [c \in Cores |-> IF c \in ArCores THEN 0 ELSE os_halt_cycle[c]]
  /\ ar_page_1' = NoPage /\ ar_page_2' = NoPage /\ ar_status' = 0
  /\ ar_left' = 0 /\ half_left' = 0 /\ ar_bz' = FALSE /\ ar_wait' = FALSE
  /\ bz_process_flag' = 0
  \* The same tick looks for the next page to reconcile.
  /\ turn' = turn /\ UNCHANGED migp_left
  /\ UNCHANGED <<lines_1, lines_2>>
  /\ SameMig

(***************************************************************************)
(* The migration part: the overhead of status 203.                         *)
(***************************************************************************)
\* The cores the OS borrows for a starting migration: the next two, in turn,
\* that are not under AR; from CoreAt(1) round to CoreAt(NumCores).
CoreAt(k) == (next_core_id + k - 1) % NumCores
FreeAt == {k \in 1..NumCores : CoreAt(k) \notin ArCores}
Borrowed == {k \in FreeAt : Cardinality({j \in FreeAt : j <= k}) <= 2}

MigIdle == /\ turn = <<"mig", 0>> /\ migp \in {"no", "moving"}
           /\ migp' \in {"no", migp}   \* a moving page arrives some time
           /\ UNCHANGED <<migp_left, next_core_id, os_halt_cycle>>

MigSelect == /\ turn = <<"mig", 0>> /\ migp = "no"
             /\ migp' = "bz" /\ migp_left' = OverheadCycles
             /\ UNCHANGED <<next_core_id, os_halt_cycle>>

MigOverhead == /\ turn = <<"mig", 0>> /\ migp \in {"bz", "wait"} /\ migp_left > 0
               /\ UNCHANGED <<migpVars, os_halt_cycle>>

MigBusyOver ==
  /\ turn = <<"mig", 0>> /\ migp = "bz" /\ migp_left = 0
  /\ migp' = "wait" /\ migp_left' = OsCycles
  /\ os_halt_cycle' = [c \in Cores |-> IF \E k \in Borrowed : CoreAt(k) = c
                                       THEN OsCycles ELSE os_halt_cycle[c]]
  /\ next_core_id' = IF Cardinality(Borrowed) = 2
                     THEN CoreAt(MaxOf(Borrowed) + 1) ELSE next_core_id

MigWaitOver == /\ turn = <<"mig", 0>> /\ migp = "wait" /\ migp_left = 0
               /\ migp' = "moving"
               /\ UNCHANGED <<migp_left, next_core_id, os_halt_cycle>>

MigPart == /\ MigIdle \/ MigSelect \/ MigOverhead \/ MigBusyOver \/ MigWaitOver
           /\ turn' = <<"core", 0>>
           /\ UNCHANGED <<arVars, ar_flag, core_halt, req>>

(***************************************************************************)
(* The tick of a core.                                                     *)
(***************************************************************************)
NextTurn(c) == turn' = IF c + 1 < NumCores THEN <<"core", c + 1>> ELSE <<"ar", 0>>
Halted(c) == os_halt_cycle[c] > 0 \/ (ar_flag[c] /\ core_halt[c])

CoreHalted(c) ==
  /\ turn = <<"core", c>> /\ Halted(c)
  /\ os_halt_cycle' = [os_halt_cycle EXCEPT ![c] = Elapsed(@)]
  /\ NextTurn(c)
  /\ UNCHANGED <<arVars, migpVars, ar_flag, core_halt, req>>

\* The request is not sent: bubbles come before it, the window is full, or the
\* cache has no room.
CoreStalls(c) ==
  /\ turn = <<"core", c>> /\ ~ Halted(c)
  /\ NextTurn(c)
  /\ UNCHANGED <<arVars, migpVars, coreVars>>

\* The request is sent and the next one fetched, whose page is looked at.
CoreSends(c) ==
  /\ turn = <<"core", c>> /\ ~ Halted(c)
  /\ \E p \in PagesOf(c) :
       /\ req' = [req EXCEPT ![c] = p]
       /\ core_halt' = [core_halt EXCEPT ![c] =
                          @ \/ (ar_flag[c] /\ p \in {ar_page_1, ar_page_2} \ {NoPage})]
  /\ NextTurn(c)
  /\ UNCHANGED <<arVars, migpVars, ar_flag, os_halt_cycle>>

ArPart == \/ ArIdle \/ ArBusy \/ ArBusyOver \/ ArWaiting \/ ArNextStage \/ ArComplete
          \/ \E p \in Pages, q \in Pages \cup {NoPage} : onfly_ar_init(p, q)

CoreTick(c) == CoreHalted(c) \/ CoreStalls(c) \/ CoreSends(c)

Next == ArPart \/ MigPart \/ \E c \in Cores : CoreTick(c)

\* The clock runs for ever.
Spec == Init /\ [][Next]_vars /\ WF_vars(Next)

(***************************************************************************)
(* Properties.                                                             *)
(***************************************************************************)
Flushing == ar_status \in {13, 23}

\* When the busy cycles of stage 13 or 23 are over, every line of every page
\* under reconciliation has been invalidated.
AllLinesFlushed ==
  ar_status \in {14, 24} \/ (Flushing /\ ar_wait) =>
    /\ lines_1 = LinesInPage
    /\ ar_page_2 # NoPage => lines_2 = LinesInPage

\* AR stops only the cores its pages belong to, from the first busy cycle of
\* stage 12 or 22 to its completion, and none of them is forgotten when two
\* pages of different cores are reconciled.
HaltSound ==
  /\ \A c \in Cores : core_halt[c] => ar_flag[c]
  /\ \A c \in Cores : ar_flag[c] => c \in ArCores /\ ar_status \notin {0, 11, 21}
  /\ ar_status \in {13, 14, 23, 24} => \A c \in ArCores : ar_flag[c]

\* Whoever halts a core for the OS, it sleeps no longer than that work takes:
\* the mapping search of AR, or the query of a migration that has started.
OsHaltInTime ==
  turn = <<"ar", 0>> =>
    \A c \in Cores : os_halt_cycle[c] > 0 =>
      \/ c \in ArCores /\ ar_status \in {11, 21} /\ ar_wait /\ os_halt_cycle[c] < ar_left
      \/ migp = "wait" /\ os_halt_cycle[c] < migp_left

\* Every core of a reconciled page has been stopped for its TLB update when AR
\* completes, at the same time or half way as it may be.
TlbUpdated ==
  [][\A c \in ArCores :
       ar_status \in {14, 24} /\ ar_status' = 0 => core_halt[c]]_vars

\* No core is halted for ever, whatever reconciliations and migrations follow
\* each other.
CoresRun == \A c \in Cores : []<>(turn = <<"core", c>> /\ ~ Halted(c))
=============================================================================
