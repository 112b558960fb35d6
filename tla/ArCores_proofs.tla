--------------------------- MODULE ArCores_proofs ---------------------------
(***************************************************************************)
(* The safety of address reconciliation clock by clock, for every number   *)
(* of cores, every assignment of pages to cores, every size of a page and  *)
(* every length of the stages that ArCores allows.                         *)
(***************************************************************************)
EXTENDS ArCores, FiniteSetTheorems, TLAPS

Turns == ({"ar", "mig"} \X {0}) \cup ({"core"} \X Cores)

TypeInv ==
  /\ turn \in Turns
  /\ ar_status \in Stages \cup {0}
  /\ ar_bz \in BOOLEAN /\ ar_wait \in BOOLEAN
  /\ ar_left \in Nat /\ half_left \in Nat
  /\ bz_process_flag \in Nat /\ lines_1 \in Nat /\ lines_2 \in Nat
  /\ migp \in {"no", "bz", "wait", "moving"} /\ migp_left \in Nat
  /\ ar_flag \in [Cores -> BOOLEAN] /\ core_halt \in [Cores -> BOOLEAN]
  /\ os_halt_cycle \in [Cores -> Nat]

\* One page is reconciled in the stages 1x, two in the stages 2x.
StageInv ==
  /\ ar_status = 0 => ~ ar_bz /\ ~ ar_wait /\ ar_page_1 = NoPage /\ ar_page_2 = NoPage
  /\ ar_status # 0 => (ar_bz <=> ~ ar_wait) /\ ar_page_1 \in Pages
  /\ ar_status \in OneWay => ar_page_2 = NoPage
  /\ ar_status \in TwoWay => ar_page_2 \in Pages
  /\ ar_bz => ar_left <= BzCycles[ar_status]

Lesser(a, b) == IF a <= b THEN a ELSE b
Total(s) == IF s \in TwoWay THEN 2 * LinesInPage ELSE LinesInPage
\* The lines that are invalidated in all the busy cycles of stage 13 or 23.
Flushed(s) == Lesser(BzCycles[s] - 1, Total(s))
FlushStage == IF ar_status \in TwoWay THEN 23 ELSE 13

\* A line is invalidated in each busy cycle of stage 13 or 23 but the last, until
\* all have been, those of the first page first.
FlushInv ==
  /\ ar_status \in {0, 11, 21} => bz_process_flag = 0
  /\ ar_status \in {11, 12, 21, 22} => lines_1 + lines_2 = 0
  /\ Flushing /\ ar_bz =>
       /\ ar_left >= 1
       /\ bz_process_flag = lines_1 + lines_2
       /\ lines_1 + lines_2 = Lesser(BzCycles[ar_status] - ar_left, Total(ar_status))
  /\ ar_wait => bz_process_flag = 0
  /\ ar_status \in {14, 24} => bz_process_flag = 0
  /\ ar_status \in {14, 24} \/ (Flushing /\ ar_wait) =>
       lines_1 + lines_2 = Flushed(FlushStage)
  /\ lines_1 = Lesser(lines_1 + lines_2, LinesInPage)
  
\* In stage 12 or 22 the cores have been told to stop once a busy cycle has passed.
HaltInv ==
  /\ HaltSound
  /\ ar_status \in {12, 22} /\ ar_bz /\ bz_process_flag = 0 =>
       ar_left = BzCycles[ar_status]
  /\ ar_status \in {12, 22} /\ (ar_wait \/ bz_process_flag # 0) =>
       \A c \in ArCores : ar_flag[c]

\* The cores of the pages are halted for their TLB update when stage 14 or 24
\* waits, but for two cores in the first half of stage 24.
TlbInv ==
  /\ half_left > 0 => ar_status = 24 /\ ar_wait
  /\ ar_status \in {14, 24} /\ ar_wait =>
       \/ \A c \in ArCores : core_halt[c]
       \/ ar_status = 24 /\ half_left > 0 /\ half_left < ar_left

\* A core that has not had its tick of this clock sleeps one cycle longer.
Ticked(c) == IF turn[1] = "mig" \/ (turn[1] = "core" /\ turn[2] <= c) THEN 0 ELSE 1
OsInv ==
  \A c \in Cores : os_halt_cycle[c] > 0 =>
    \/ c \in ArCores /\ ar_status \in {11, 21} /\ ar_wait
         /\ os_halt_cycle[c] + Ticked(c) <= ar_left
    \/ migp = "wait" /\ os_halt_cycle[c] + Ticked(c) <= migp_left

\* The inductive invariant.
IInv == TypeInv /\ StageInv /\ FlushInv /\ HaltInv /\ TlbInv /\ OsInv

(***************************************************************************)
(* The constants, and the cores of the pages under reconciliation.         *)
(***************************************************************************)
LEMMA Cycles ==
  /\ NumCores \in Nat \ {0} /\ LinesInPage \in Nat \ {0} /\ NoPage \notin Pages
  /\ OverheadCycles \in Nat \ {0} /\ OsCycles \in Nat \ {0}
  /\ \A s \in {11, 12, 13, 14, 21, 22, 23, 24} :
       s \in Stages /\ BzCycles[s] \in Nat \ {0} /\ WaitCycles[s] \in Nat \ {0}
  /\ BzCycles[12] > 1 /\ BzCycles[22] > 1
  /\ WaitCycles[11] <= WaitCycles[21] /\ WaitCycles[14] < WaitCycles[24]
BY CoreAssumption, CycleAssumption, NoPageAssumption DEF Stages, OneWay, TwoWay

\* An elapsing count stays a natural number.
LEMMA ElapsedType == \A n \in Nat : Elapsed(n) \in Nat /\ (n > 0 => Elapsed(n) = n - 1)
BY DEF Elapsed

\* A set of two values has one or two elements.
LEMMA PairCardinality ==
  ASSUME NEW a, NEW b
  PROVE  Cardinality({a, b}) = IF a = b THEN 1 ELSE 2
<1>1. IsFiniteSet({a}) /\ Cardinality({a}) = 1
  BY FS_Singleton
<1>2. Cardinality({a} \cup {b}) = IF b \in {a} THEN 1 ELSE 2
  BY <1>1, FS_AddElement
<1>3. {a} \cup {b} = {a, b}
  OBVIOUS
<1>4. QED
  BY <1>2, <1>3

\* They are cores.
LEMMA ArCoresType ==
  ASSUME TypeInv, StageInv
  PROVE  ArCores \subseteq Cores
<1>1. {ar_page_1, ar_page_2} \ {NoPage} \subseteq Pages
  BY DEF TypeInv, StageInv, Stages
<1>2. QED
  BY <1>1, CoreAssumption DEF ArCores

\* One core, or one or two when two pages are reconciled.
LEMMA ArCoresOf ==
  ASSUME TypeInv, StageInv
  PROVE  /\ ar_status = 0 => ArCores = {}
         /\ ar_status \in OneWay => ArCores = {CoreOf[ar_page_1]} /\ Cardinality(ArCores) = 1
         /\ ar_status \in TwoWay =>
              /\ ArCores = {CoreOf[ar_page_1], CoreOf[ar_page_2]}
              /\ Cardinality(ArCores) \in {1, 2}
<1>1. CASE ar_status = 0
  BY <1>1 DEF StageInv, ArCores, OneWay, TwoWay
<1>2. CASE ar_status \in OneWay
  <2>1. ar_page_1 \in Pages /\ ar_page_2 = NoPage /\ NoPage \notin Pages
    BY <1>2, Cycles DEF StageInv, OneWay
  <2>2. {ar_page_1, ar_page_2} \ {NoPage} = {ar_page_1}
    BY <2>1
  <2>3. ArCores = {CoreOf[ar_page_1]}
    BY <2>2 DEF ArCores
  <2>4. Cardinality(ArCores) = 1
    BY <2>3, FS_Singleton
  <2>5. QED
    BY <1>2, <2>3, <2>4 DEF OneWay, TwoWay
<1>3. CASE ar_status \in TwoWay
  <2>1. ar_page_1 \in Pages /\ ar_page_2 \in Pages /\ NoPage \notin Pages
    BY <1>3, Cycles DEF StageInv, TwoWay
  <2>2. {ar_page_1, ar_page_2} \ {NoPage} = {ar_page_1, ar_page_2}
    BY <2>1
  <2>3. ArCores = {CoreOf[ar_page_1], CoreOf[ar_page_2]}
    BY <2>2 DEF ArCores
  <2>4. Cardinality(ArCores) \in {1, 2}
    BY <2>3, PairCardinality
  <2>5. QED
    BY <1>3, <2>3, <2>4 DEF OneWay, TwoWay
<1>4. QED
  BY <1>1, <1>2, <1>3 DEF TypeInv, Stages

\* What a busy cycle does in each stage.
LEMMA BusyCycle ==
  ASSUME ArBusy
  PROVE  /\ turn = <<"ar", 0>> /\ turn' = <<"core", 0>>
         /\ ar_bz /\ ~ ArExpired /\ ar_left' = Elapsed(ar_left)
         /\ ar_status \in {12, 22} => TellCores /\ UNCHANGED <<lines_1, lines_2>>
         /\ ar_status \in {13, 23} => FlushLine /\ UNCHANGED ar_flag
         /\ ar_status \notin {12, 13, 22, 23} =>
              UNCHANGED <<ar_flag, bz_process_flag, lines_1, lines_2>>
         /\ migp_left' = Elapsed(migp_left)
         /\ UNCHANGED <<ar_status, ar_bz, ar_wait, half_left, ar_page_1, ar_page_2,
                        core_halt, os_halt_cycle, migp, next_core_id, req>>
<1>1. CASE ar_status \in {12, 22}
  BY <1>1 DEF ArBusy, Return, SameMig
<1>2. CASE ar_status \in {13, 23}
  BY <1>2 DEF ArBusy, Return, SameMig
<1>3. CASE ar_status \notin {12, 13, 22, 23}
  BY <1>3 DEF ArBusy, Return, SameMig
<1>4. QED
  BY <1>1, <1>2, <1>3

\* Who is told to stop in a busy cycle of stage 12 or 22.
LEMMA CoresTold ==
  ASSUME TypeInv, TellCores
  PROVE  /\ ar_flag' \in [Cores -> BOOLEAN] /\ bz_process_flag' \in Nat
         /\ \A c \in Cores :
              ar_flag'[c] <=> ar_flag[c] \/ (bz_process_flag = 0 /\ c \in ArCores)
         /\ bz_process_flag' # 0
<1>1. ar_flag \in [Cores -> BOOLEAN] /\ bz_process_flag \in Nat
  BY DEF TypeInv
<1>2. CASE bz_process_flag = 0
  <2>1. ar_flag' = [c \in Cores |-> ar_flag[c] \/ c \in ArCores] /\ bz_process_flag' = 1
    BY <1>2 DEF TellCores
  <2>2. \A c \in Cores : (ar_flag[c] \/ c \in ArCores) \in BOOLEAN
    OBVIOUS
  <2>3. ar_flag' \in [Cores -> BOOLEAN]
    BY <2>1, <2>2, Zenon
  <2>4. \A c \in Cores : ar_flag'[c] <=> ar_flag[c] \/ c \in ArCores
    BY <2>1, Zenon
  <2>5. QED
    BY <1>2, <2>1, <2>3, <2>4
<1>3. CASE bz_process_flag # 0
  BY <1>1, <1>3 DEF TellCores
<1>4. QED
  BY <1>2, <1>3

(***************************************************************************)
(* The initial states.                                                     *)
(***************************************************************************)
LEMMA InitInv == Init => IInv
<1> SUFFICES ASSUME Init PROVE IInv
  OBVIOUS
<1> USE Cycles DEF Init
<1>1. TypeInv
  BY DEF TypeInv, Turns, Cores
<1>2. StageInv
  BY DEF StageInv, OneWay, TwoWay
<1>3. FlushInv
  BY DEF FlushInv, Flushing, Lesser
<1>4. HaltInv
  BY DEF HaltInv, HaltSound
<1>5. TlbInv /\ OsInv
  BY DEF TlbInv, OsInv
<1>6. QED
  BY <1>1, <1>2, <1>3, <1>4, <1>5 DEF IInv

(***************************************************************************)
(* Types.                                                                  *)
(***************************************************************************)
LEMMA NextTypes ==
  ASSUME TypeInv, StageInv, [Next]_vars
  PROVE  TypeInv'
<1> USE Cycles DEF TypeInv
<1>t. /\ <<"ar", 0>> \in Turns /\ <<"mig", 0>> \in Turns /\ <<"core", 0>> \in Turns
      /\ \A c \in Cores : NextTurn(c) => turn' \in Turns
  <2>1. <<"ar", 0>> \in Turns /\ <<"mig", 0>> \in Turns
    BY DEF Turns
  <2>2. \A c \in Cores : <<"core", c>> \in Turns
    BY DEF Turns
  <2>3. 0 \in Cores
    BY DEF Cores
  <2>4. \A c \in Cores : c + 1 < NumCores => c + 1 \in Cores
    BY DEF Cores
  <2>5. QED
    BY <2>1, <2>2, <2>3, <2>4 DEF NextTurn
<1>e. \A n \in Nat : Elapsed(n) \in Nat
  BY ElapsedType
<1>1. CASE UNCHANGED vars
  BY <1>1 DEF vars, arVars, migpVars, coreVars
<1>2. CASE ArIdle
  BY <1>2, <1>t, <1>e DEF ArIdle, GoOn, SameMig, arVars
<1>3. ASSUME NEW p \in Pages, NEW q \in Pages \cup {NoPage}, onfly_ar_init(p, q)
      PROVE  TypeInv'
  BY <1>3, <1>t, <1>e DEF onfly_ar_init, Return, SameMig
<1>4. CASE ArBusy
  <2>1. ar_flag' \in [Cores -> BOOLEAN] /\ bz_process_flag' \in Nat
        /\ lines_1' \in Nat /\ lines_2' \in Nat
    <3>1. CASE ar_status \in {12, 22}
      BY <1>4, <3>1, BusyCycle, CoresTold
    <3>2. CASE ar_status \in {13, 23}
      BY <1>4, <3>2, BusyCycle DEF FlushLine
    <3>3. CASE ar_status \notin {12, 13, 22, 23}
      BY <1>4, <3>3, BusyCycle
    <3>4. QED
      BY <3>1, <3>2, <3>3
  <2>2. QED
    BY <1>4, <2>1, BusyCycle, <1>t, <1>e
<1>5. CASE ArBusyOver
  <2>1. ar_status \in Stages
    BY <1>5 DEF ArBusyOver, StageInv
  <2>2. ar_left' \in Nat /\ half_left' \in Nat /\ bz_process_flag' \in Nat
    BY <1>5, <2>1 DEF ArBusyOver, FlagReset, Stages, OneWay, TwoWay
  <2>3. os_halt_cycle' \in [Cores -> Nat]
    BY <1>5 DEF ArBusyOver, OsHalt, Stages, OneWay, TwoWay
  <2>4. core_halt' \in [Cores -> BOOLEAN]
    BY <1>5 DEF ArBusyOver
  <2>5. turn' \in Turns /\ migp_left' \in Nat
    BY <1>5, <1>t, <1>e DEF ArBusyOver, GoOn
  <2>6. /\ ar_bz' \in BOOLEAN /\ ar_wait' \in BOOLEAN
        /\ UNCHANGED <<ar_status, lines_1, lines_2, ar_flag, migp>>
    BY <1>5 DEF ArBusyOver, SameMig
  <2>7. QED
    BY <2>2, <2>3, <2>4, <2>5, <2>6
<1>6. CASE ArWaiting
  BY <1>6, <1>t, <1>e DEF ArWaiting, GoOn, SameMig, HaltedBoth
<1>7. CASE ArNextStage
  <2>1. ar_status \in {11, 12, 13, 21, 22, 23}
    BY <1>7 DEF ArNextStage, StageInv, Stages, OneWay, TwoWay
  <2>2. ar_status + 1 \in {12, 13, 14, 22, 23, 24}
    BY <2>1
  <2>3. ar_status' \in Stages /\ ar_left' \in Nat
    BY <1>7, <2>2 DEF ArNextStage
  <2>4. os_halt_cycle' \in [Cores -> Nat]
    BY <1>7 DEF ArNextStage
  <2>5. QED
    BY <1>7, <2>3, <2>4, <1>t, <1>e DEF ArNextStage, GoOn, SameMig
<1>8. CASE ArComplete
  BY <1>8 DEF ArComplete, SameMig, Released
<1>9. CASE MigPart
  <2>1. migp' \in {"no", "bz", "wait", "moving"} /\ migp_left' \in Nat
        /\ os_halt_cycle' \in [Cores -> Nat]
    BY <1>9 DEF MigPart, MigIdle, MigSelect, MigOverhead, MigBusyOver, MigWaitOver, migpVars
  <2>2. QED
    BY <1>9, <2>1, <1>t DEF MigPart, arVars
<1>10. ASSUME NEW c \in Cores, CoreTick(c)
       PROVE  TypeInv'
  BY <1>10, <1>t, <1>e DEF CoreTick, CoreHalted, CoreStalls, CoreSends, arVars, migpVars, coreVars
<1>11. QED
  BY <1>1, <1>2, <1>3, <1>4, <1>5, <1>6, <1>7, <1>8, <1>9, <1>10 DEF Next, ArPart

\* The steps that are no step of AR leave its state alone.
LEMMA OtherSteps ==
  ASSUME UNCHANGED vars \/ ArIdle \/ MigPart \/ \E c \in Cores : CoreTick(c)
  PROVE  UNCHANGED <<ar_status, ar_bz, ar_wait, ar_left, half_left, ar_page_1, ar_page_2,
                     bz_process_flag, lines_1, lines_2, ar_flag>>
BY DEF vars, arVars, coreVars, ArIdle, MigPart, CoreTick, CoreHalted, CoreStalls, CoreSends

(***************************************************************************)
(* The stages.                                                             *)
(***************************************************************************)
LEMMA NextStageInv ==
  ASSUME TypeInv, StageInv, [Next]_vars
  PROVE  StageInv'
<1> USE Cycles
<1>1. CASE UNCHANGED vars \/ ArIdle \/ MigPart \/ \E c \in Cores : CoreTick(c)
  BY <1>1, OtherSteps DEF StageInv
<1>2. ASSUME NEW p \in Pages, NEW q \in Pages \cup {NoPage}, onfly_ar_init(p, q)
      PROVE  StageInv'
  <2>1. CASE q = NoPage
    BY <1>2, <2>1 DEF onfly_ar_init, StageInv, OneWay, TwoWay
  <2>2. CASE q # NoPage
    BY <1>2, <2>2 DEF onfly_ar_init, StageInv, OneWay, TwoWay
  <2>3. QED
    BY <2>1, <2>2
<1>3. CASE ArBusy
  <2>1. ar_left' <= ar_left
    BY <1>3, BusyCycle, ElapsedType DEF TypeInv, Elapsed
  <2>2. ar_status \in Stages /\ BzCycles[ar_status] \in Nat /\ ar_left' \in Nat /\ ar_left \in Nat
    BY <1>3, BusyCycle, ElapsedType DEF TypeInv, StageInv, Stages, OneWay, TwoWay
  <2>3. QED
    BY <1>3, <2>1, <2>2, BusyCycle DEF StageInv
<1>4. CASE ArBusyOver
  BY <1>4 DEF ArBusyOver, StageInv
<1>5. CASE ArWaiting
  BY <1>5 DEF ArWaiting, StageInv, TypeInv
<1>6. CASE ArNextStage
  <2>1. ar_status \in {11, 12, 13, 21, 22, 23}
    BY <1>6 DEF ArNextStage, StageInv, TypeInv, Stages, OneWay, TwoWay
  <2>2. /\ ar_status \in OneWay <=> ar_status' \in OneWay
        /\ ar_status \in TwoWay <=> ar_status' \in TwoWay
        /\ ar_status' # 0
    BY <1>6, <2>1 DEF ArNextStage, OneWay, TwoWay
  <2>3. ar_left' = BzCycles[ar_status'] /\ BzCycles[ar_status'] \in Nat
    BY <1>6, <2>1 DEF ArNextStage
  <2>4. QED
    BY <1>6, <2>2, <2>3 DEF ArNextStage, StageInv, OneWay, TwoWay
<1>7. CASE ArComplete
  BY <1>7 DEF ArComplete, StageInv, OneWay, TwoWay
<1>8. QED
  BY <1>1, <1>2, <1>3, <1>4, <1>5, <1>6, <1>7 DEF Next, ArPart

(***************************************************************************)
(* The lines invalidated.                                                  *)
(***************************************************************************)
LEMMA NextFlushInv ==
  ASSUME TypeInv, StageInv, FlushInv, [Next]_vars
  PROVE  FlushInv'
<1> USE Cycles
<1>s. ar_status \in {0, 11, 12, 13, 14, 21, 22, 23, 24}
  BY DEF TypeInv, Stages, OneWay, TwoWay
<1>1. CASE UNCHANGED vars \/ ArIdle \/ MigPart \/ \E c \in Cores : CoreTick(c)
  BY <1>1, OtherSteps DEF FlushInv, Flushing, FlushStage
<1>2. ASSUME NEW p \in Pages, NEW q \in Pages \cup {NoPage}, onfly_ar_init(p, q)
      PROVE  FlushInv'
  BY <1>2 DEF onfly_ar_init, FlushInv, Flushing, FlushStage, Lesser
<1>3. CASE ArBusy
  <2>1. CASE Flushing
    <3>1. FlushLine /\ ar_left' = Elapsed(ar_left) /\ Elapsed(ar_left) # 0
      BY <1>3, <2>1, BusyCycle DEF Flushing, ArExpired
    <3>2. /\ ar_left \in Nat /\ ar_left' = ar_left - 1 /\ ar_left' >= 1
          /\ ar_left <= BzCycles[ar_status] /\ BzCycles[ar_status] \in Nat
      BY <1>3, <2>1, <3>1, BusyCycle DEF TypeInv, StageInv, Elapsed, Flushing
    <3>3. /\ bz_process_flag = lines_1 + lines_2
          /\ lines_1 + lines_2 = Lesser(BzCycles[ar_status] - ar_left, Total(ar_status))
          /\ lines_1 = Lesser(lines_1 + lines_2, LinesInPage)
          /\ lines_1 \in Nat /\ lines_2 \in Nat
      BY <1>3, <2>1, BusyCycle DEF FlushInv, TypeInv
    <3>4. Total(ar_status) = IF ar_status = 23 THEN 2 * LinesInPage ELSE LinesInPage
      BY <2>1 DEF Flushing, Total, TwoWay
    <3>5. /\ bz_process_flag' = lines_1' + lines_2'
          /\ lines_1' + lines_2' = Lesser(BzCycles[ar_status] - ar_left', Total(ar_status))
          /\ lines_1' = Lesser(lines_1' + lines_2', LinesInPage)
      <4>1. CASE ar_status = 23
        BY <3>1, <3>2, <3>3, <3>4, <4>1 DEF FlushLine, Lesser
      <4>2. CASE ar_status = 13
        BY <3>1, <3>2, <3>3, <3>4, <4>2 DEF FlushLine, Lesser
      <4>3. QED
        BY <2>1, <4>1, <4>2 DEF Flushing
    <3>6. UNCHANGED <<ar_status, ar_bz, ar_wait>> /\ ~ ar_wait
      BY <1>3, <2>1, BusyCycle DEF Flushing, StageInv
    <3>7. QED
      BY <2>1, <3>2, <3>5, <3>6 DEF FlushInv, Flushing
  <2>2. CASE ~ Flushing
    <3>1. UNCHANGED <<ar_status, lines_1, lines_2, ar_bz, ar_wait>> /\ ~ ar_wait
      BY <1>3, <2>2, BusyCycle DEF Flushing, StageInv
    <3>2. ar_status \notin {12, 22} => UNCHANGED bz_process_flag
      BY <1>3, <2>2, BusyCycle DEF Flushing
    <3>3. QED
      BY <2>2, <3>1, <3>2 DEF FlushInv, Flushing, FlushStage
  <2>3. QED
    BY <2>1, <2>2
<1>4. CASE ArBusyOver
  <2>1. UNCHANGED <<ar_status, lines_1, lines_2>> /\ ar_wait' /\ ~ ar_bz' /\ ar_bz
    BY <1>4 DEF ArBusyOver
  <2>2. bz_process_flag' = FlagReset
    BY <1>4 DEF ArBusyOver
  <2>3. CASE Flushing
    <3>1. ar_left = 1
      BY <1>4, <2>1, <2>3 DEF ArBusyOver, ArExpired, Elapsed, FlushInv, TypeInv
    <3>2. lines_1 + lines_2 = Lesser(BzCycles[ar_status] - 1, Total(ar_status))
      BY <2>1, <2>3, <3>1 DEF FlushInv
    <3>3. lines_1 + lines_2 = Flushed(FlushStage)
      BY <2>3, <3>2 DEF Flushing, Flushed, FlushStage, Total, OneWay, TwoWay
    <3>4. QED
      BY <2>1, <2>2, <2>3, <3>3 DEF FlushInv, Flushing, FlagReset, FlushStage
  <2>4. CASE ~ Flushing
    BY <1>s, <2>1, <2>2, <2>4 DEF FlushInv, Flushing, FlagReset, FlushStage
  <2>5. QED
    BY <2>3, <2>4
<1>5. CASE ArWaiting
  <2>1. UNCHANGED <<ar_status, ar_bz, ar_wait, bz_process_flag, lines_1, lines_2>> /\ ~ ar_bz
    BY <1>5 DEF ArWaiting, StageInv
  <2>2. QED
    BY <2>1 DEF FlushInv, Flushing, FlushStage
<1>6. CASE ArNextStage
  <2>1. ar_status \in {11, 12, 13, 21, 22, 23}
    BY <1>6, <1>s DEF ArNextStage, StageInv
  <2>2. /\ ar_status' = ar_status + 1 /\ ar_wait /\ ar_bz' /\ ~ ar_wait'
        /\ ar_left' = BzCycles[ar_status'] /\ UNCHANGED <<lines_1, lines_2, bz_process_flag>>
    BY <1>6 DEF ArNextStage
  <2>3. CASE ar_status \in {13, 23}
    BY <2>2, <2>3 DEF FlushInv, Flushing, FlushStage, TwoWay
  <2>4. CASE ar_status \in {12, 22}
    BY <2>2, <2>4 DEF FlushInv, Flushing, FlushStage, TwoWay, Lesser, Total
  <2>5. CASE ar_status \in {11, 21}
    BY <2>2, <2>5 DEF FlushInv, Flushing
  <2>6. QED
    BY <2>1, <2>3, <2>4, <2>5
<1>7. CASE ArComplete
  BY <1>7 DEF ArComplete, FlushInv, Flushing, FlushStage
<1>8. QED
  BY <1>1, <1>2, <1>3, <1>4, <1>5, <1>6, <1>7 DEF Next, ArPart

\* The cores under reconciliation change with the pages alone.
LEMMA ArCoresSame ==
  ASSUME UNCHANGED <<ar_page_1, ar_page_2>>
  PROVE  ArCores' = ArCores
BY DEF ArCores

(***************************************************************************)
(* Which cores AR stops.                                                   *)
(***************************************************************************)
LEMMA NextHaltInv ==
  ASSUME IInv, [Next]_vars
  PROVE  HaltInv'
<1> USE Cycles
<1>s. ar_status \in {0, 11, 12, 13, 14, 21, 22, 23, 24}
  BY DEF IInv, TypeInv, Stages, OneWay, TwoWay
<1>t. /\ ar_flag \in [Cores -> BOOLEAN] /\ core_halt \in [Cores -> BOOLEAN]
      /\ ar_left \in Nat /\ half_left \in Nat
      /\ ArCores \subseteq Cores
  BY ArCoresType DEF IInv, TypeInv
<1>h. HaltInv /\ StageInv /\ HaltSound
  BY DEF IInv, HaltInv
<1>1. CASE UNCHANGED vars \/ ArIdle \/ MigPart \/ \E c \in Cores : CoreTick(c)
  <2>1. UNCHANGED <<ar_status, ar_bz, ar_wait, ar_left, bz_process_flag, ar_flag>>
        /\ ArCores' = ArCores
    BY <1>1, OtherSteps, ArCoresSame
  <2>2. \A c \in Cores : core_halt'[c] => core_halt[c] \/ ar_flag[c]
    BY <1>1, <1>t DEF vars, arVars, coreVars, ArIdle, MigPart, CoreTick, CoreHalted,
                      CoreStalls, CoreSends
  <2>3. QED
    BY <1>h, <2>1, <2>2 DEF HaltInv, HaltSound
<1>2. ASSUME NEW p \in Pages, NEW q \in Pages \cup {NoPage}, onfly_ar_init(p, q)
      PROVE  HaltInv'
  <2>1. ar_status = 0 /\ ar_status' \in {11, 21} /\ UNCHANGED <<ar_flag, core_halt>>
    BY <1>2 DEF onfly_ar_init
  <2>2. \A c \in Cores : ~ ar_flag[c] /\ ~ core_halt[c]
    BY <1>h, <2>1 DEF HaltSound
  <2>3. QED
    BY <2>1, <2>2 DEF HaltInv, HaltSound
<1>3. CASE ArBusy
  <2>1. UNCHANGED <<ar_status, ar_bz, ar_wait, core_halt>> /\ ArCores' = ArCores
        /\ ar_bz /\ ar_status # 0 /\ ~ ar_wait
    BY <1>3, <1>h, BusyCycle, ArCoresSame DEF StageInv
  <2>2. CASE ar_status \in {12, 22}
    <3>1. /\ \A c \in Cores :
               ar_flag'[c] <=> ar_flag[c] \/ (bz_process_flag = 0 /\ c \in ArCores)
          /\ bz_process_flag' # 0
      BY <1>3, <2>2, BusyCycle, CoresTold DEF IInv
    <3>2. \A c \in ArCores : ar_flag'[c]
      BY <1>h, <1>t, <2>2, <3>1 DEF HaltInv
    <3>3. QED
      BY <1>h, <2>1, <2>2, <3>1, <3>2 DEF HaltInv, HaltSound
  <2>3. CASE ar_status \notin {12, 22}
    <3>1. UNCHANGED ar_flag
      BY <1>3, <2>3, BusyCycle
    <3>2. QED
      BY <1>h, <2>1, <2>3, <3>1 DEF HaltInv, HaltSound
  <2>4. QED
    BY <2>2, <2>3
<1>4. CASE ArBusyOver
  <2>1. /\ UNCHANGED <<ar_status, ar_flag>> /\ ArCores' = ArCores
        /\ ar_bz /\ ~ ar_bz' /\ ar_wait' /\ ar_left <= 1
    BY <1>4, <1>t, ArCoresSame DEF ArBusyOver, ArExpired, Elapsed
  <2>2. \A c \in Cores : core_halt'[c] =>
          core_halt[c] \/ (ar_status \in {14, 24} /\ c \in ArCores)
    BY <1>4, <1>t DEF ArBusyOver
  <2>3. \A c \in Cores : core_halt'[c] => ar_flag[c]
    BY <1>h, <2>2 DEF HaltSound
  <2>4. ar_status \in {12, 22} => \A c \in ArCores : ar_flag[c]
    BY <1>h, <1>t, <2>1 DEF HaltInv
  <2>5. QED
    BY <1>h, <2>1, <2>3, <2>4 DEF HaltInv, HaltSound
<1>5. CASE ArWaiting
  <2>1. /\ UNCHANGED <<ar_status, ar_bz, ar_wait, ar_flag>> /\ ArCores' = ArCores
        /\ ~ ar_bz
    BY <1>5, <1>h, ArCoresSame DEF ArWaiting, StageInv
  <2>2. \A c \in Cores : core_halt'[c] =>
          core_halt[c] \/ (ar_status = 24 /\ c \in ArCores)
    BY <1>5, <1>t DEF ArWaiting, HalfHalt, HaltedBoth, IInv, TlbInv
  <2>3. \A c \in Cores : core_halt'[c] => ar_flag[c]
    BY <1>h, <2>2 DEF HaltSound
  <2>4. ar_status \in {12, 22} => \A c \in ArCores : ar_flag[c]
    BY <1>5, <1>h DEF HaltInv, ArWaiting
  <2>5. QED
    BY <1>h, <2>1, <2>3, <2>4 DEF HaltInv, HaltSound
<1>6. CASE ArNextStage
  <2>1. /\ UNCHANGED <<core_halt, ar_flag, bz_process_flag>> /\ ArCores' = ArCores
        /\ ar_wait /\ ~ ar_wait' /\ ar_status' = ar_status + 1
        /\ ar_left' = BzCycles[ar_status']
    BY <1>6, ArCoresSame DEF ArNextStage
  <2>2. ar_status \in {11, 12, 13, 21, 22, 23}
    BY <1>6, <1>s, <1>h DEF ArNextStage, StageInv
  <2>3. bz_process_flag = 0
    BY <2>1 DEF IInv, FlushInv
  <2>4. ar_status \in {12, 13, 22, 23} => \A c \in ArCores : ar_flag[c]
    BY <1>h, <2>1 DEF HaltInv, HaltSound
  <2>5. ar_status' \in {13, 14, 23, 24} <=> ar_status \in {12, 13, 22, 23}
    BY <2>1, <2>2
  <2>6. ar_status' \notin {0, 11, 21}
    BY <2>1, <2>2
  <2>7. QED
    BY <1>h, <2>1, <2>3, <2>4, <2>5, <2>6 DEF HaltInv, HaltSound
<1>7. CASE ArComplete
  <2>1. \A c \in Cores : ~ ar_flag'[c] /\ ~ core_halt'[c]
    BY <1>7, <1>h, <1>t DEF ArComplete, Released, HaltSound
  <2>2. ar_status' = 0
    BY <1>7 DEF ArComplete
  <2>3. QED
    BY <2>1, <2>2 DEF HaltInv, HaltSound
<1>8. QED
  BY <1>1, <1>2, <1>3, <1>4, <1>5, <1>6, <1>7 DEF Next, ArPart

(***************************************************************************)
(* The halt for the TLB update.                                            *)
(***************************************************************************)
LEMMA NextTlbInv ==
  ASSUME IInv, [Next]_vars
  PROVE  TlbInv'
<1> USE Cycles
<1>s. ar_status \in {0, 11, 12, 13, 14, 21, 22, 23, 24}
  BY DEF IInv, TypeInv, Stages, OneWay, TwoWay
<1>t. /\ core_halt \in [Cores -> BOOLEAN] /\ ar_left \in Nat /\ half_left \in Nat
      /\ ArCores \subseteq Cores /\ \A n \in Nat : Elapsed(n) \in Nat
  BY ArCoresType, ElapsedType DEF IInv, TypeInv
<1>h. TlbInv /\ StageInv
  BY DEF IInv
<1>1. CASE UNCHANGED vars \/ ArIdle \/ MigPart \/ \E c \in Cores : CoreTick(c)
  <2>1. UNCHANGED <<ar_status, ar_wait, ar_left, half_left>> /\ ArCores' = ArCores
    BY <1>1, OtherSteps, ArCoresSame
  <2>2. \A c \in Cores : core_halt[c] => core_halt'[c]
    BY <1>1, <1>t DEF vars, arVars, coreVars, ArIdle, MigPart, CoreTick, CoreHalted,
                      CoreStalls, CoreSends
  <2>3. QED
    BY <1>h, <1>t, <2>1, <2>2 DEF TlbInv
<1>2. ASSUME NEW p \in Pages, NEW q \in Pages \cup {NoPage}, onfly_ar_init(p, q)
      PROVE  TlbInv'
  BY <1>2, <1>h DEF onfly_ar_init, TlbInv
<1>3. CASE ArBusy
  <2>1. ~ ar_wait /\ UNCHANGED <<ar_wait, half_left, ar_status>>
    BY <1>3, <1>h, BusyCycle DEF StageInv
  <2>2. QED
    BY <1>h, <2>1 DEF TlbInv
<1>4. CASE ArBusyOver
  <2>1. /\ UNCHANGED ar_status /\ ArCores' = ArCores /\ ar_wait' /\ ~ ar_wait
        /\ ar_left' = WaitCycles[ar_status]
    BY <1>4, <1>h, ArCoresSame DEF ArBusyOver, StageInv
  <2>2. half_left = 0
    BY <1>h, <1>t, <2>1 DEF TlbInv
  <2>3. CASE ar_status \in {14, 24} /\ Cardinality(ArCores) = 1
    <3>1. \A c \in ArCores : core_halt'[c]
      BY <1>4, <1>t, <2>3 DEF ArBusyOver
    <3>2. half_left' = half_left
      BY <1>4, <2>3 DEF ArBusyOver
    <3>3. QED
      BY <2>1, <2>2, <3>1, <3>2 DEF TlbInv
  <2>4. CASE ar_status = 24 /\ Cardinality(ArCores) # 1
    <3>1. Cardinality(ArCores) = 2
      BY <2>4, ArCoresOf DEF IInv, TwoWay
    <3>2. half_left' = WaitCycles[14] /\ ar_left' = WaitCycles[24]
      BY <1>4, <2>4, <3>1 DEF ArBusyOver
    <3>3. QED
      BY <2>1, <2>4, <3>2 DEF TlbInv
  <2>5. CASE ar_status = 14 /\ Cardinality(ArCores) # 1
    BY <2>5, ArCoresOf DEF IInv, OneWay
  <2>6. CASE ar_status \notin {14, 24}
    BY <1>4, <2>1, <2>2, <2>6 DEF ArBusyOver, TlbInv
  <2>7. QED
    BY <2>3, <2>4, <2>5, <2>6
<1>5. CASE ArWaiting
  <2>1. /\ UNCHANGED <<ar_status, ar_wait>> /\ ArCores' = ArCores /\ ar_wait
        /\ ar_left' = Elapsed(ar_left) /\ half_left' = Elapsed(half_left)
    BY <1>5, ArCoresSame DEF ArWaiting
  <2>2. half_left' > 0 => half_left > 0 /\ half_left' = half_left - 1
    BY <1>t, <2>1 DEF Elapsed
  <2>3. half_left > 0 /\ half_left < ar_left /\ half_left' > 0 => half_left' < ar_left'
    BY <1>t, <2>1 DEF Elapsed
  <2>4. half_left > 0 /\ ~ (half_left' > 0) => \A c \in ArCores : core_halt'[c]
    <3>1. half_left > 0 /\ ~ (half_left' > 0) => HalfHalt
      BY <1>t, <2>1 DEF HalfHalt, Elapsed
    <3>2. QED
      BY <1>5, <1>t, <3>1 DEF ArWaiting, HaltedBoth
  <2>5. \A c \in Cores : core_halt[c] => core_halt'[c]
    BY <1>5, <1>t DEF ArWaiting, HaltedBoth
  <2>6. QED
    BY <1>h, <1>t, <2>1, <2>2, <2>3, <2>4, <2>5 DEF TlbInv
<1>6. CASE ArNextStage
  <2>1. ~ ar_wait' /\ UNCHANGED half_left /\ ar_status # 24
    BY <1>6 DEF ArNextStage
  <2>2. QED
    BY <1>h, <2>1 DEF TlbInv
<1>7. CASE ArComplete
  BY <1>7 DEF ArComplete, TlbInv
<1>8. QED
  BY <1>1, <1>2, <1>3, <1>4, <1>5, <1>6, <1>7 DEF Next, ArPart

(***************************************************************************)
(* The halt for the OS.                                                    *)
(***************************************************************************)
LEMMA TickedTurns ==
  ASSUME NEW c \in Cores
  PROVE  /\ turn = <<"ar", 0>> => Ticked(c) = 1
         /\ turn = <<"mig", 0>> => Ticked(c) = 0
         /\ \A d \in Cores : turn = <<"core", d>> => Ticked(c) = IF d <= c THEN 0 ELSE 1
BY DEF Ticked

\* A tick of the controller takes a cycle off the halt's bound, and a core that
\* sleeps takes its own off in the same clock.
LEMMA TickOfController ==
  ASSUME TypeInv, turn = <<"ar", 0>>, GoOn \/ Return, NEW c \in Cores
  PROVE  /\ Ticked(c) = 1 /\ Ticked(c)' = 0
         /\ migp_left \in Nat /\ migp_left' \in Nat
         /\ migp_left > 0 => migp_left' = migp_left - 1
<1>1. 0 \in Cores /\ 0 <= c
  BY Cycles DEF Cores
<1>2. Ticked(c)' = 0
  BY <1>1 DEF Ticked, GoOn, Return
<1>3. migp_left' = Elapsed(migp_left) /\ migp_left \in Nat
  BY DEF GoOn, Return, TypeInv
<1>4. QED
  BY <1>2, <1>3, ElapsedType, TickedTurns

\* A core the operating system halts is released before what halts it is over.
LEMMA NextOsInv ==
  ASSUME IInv, [Next]_vars
  PROVE  OsInv'
<1> USE Cycles
<1> DEFINE ByAr(c) == c \in ArCores /\ ar_status \in {11, 21} /\ ar_wait
                        /\ os_halt_cycle[c] + Ticked(c) <= ar_left
           ByMig(c) == migp = "wait" /\ os_halt_cycle[c] + Ticked(c) <= migp_left
<1>t. /\ os_halt_cycle \in [Cores -> Nat] /\ ar_left \in Nat /\ migp_left \in Nat
      /\ ArCores \subseteq Cores /\ \A c \in Cores : Ticked(c) \in {0, 1}
  BY ArCoresType DEF IInv, TypeInv, Ticked
<1>h. /\ \A c \in Cores : os_halt_cycle[c] > 0 => ByAr(c) \/ ByMig(c)
      /\ TypeInv /\ StageInv
  BY DEF IInv, OsInv
<1> SUFFICES ASSUME NEW c \in Cores, os_halt_cycle'[c] > 0
             PROVE  ByAr(c)' \/ ByMig(c)'
  BY DEF OsInv
<1>1. CASE UNCHANGED vars
  BY <1>1, <1>h DEF vars, arVars, migpVars, coreVars, ArCores, Ticked
<1>2. CASE ArIdle
  <2>1. turn = <<"ar", 0>> /\ GoOn /\ ar_status = 0 /\ UNCHANGED <<os_halt_cycle, migp>>
    BY <1>2 DEF ArIdle, SameMig
  <2>2. QED
    BY <1>h, <1>t, <2>1, TickOfController
<1>3. ASSUME NEW p \in Pages, NEW q \in Pages \cup {NoPage}, onfly_ar_init(p, q)
      PROVE  ByMig(c)'
  <2>1. turn = <<"ar", 0>> /\ Return /\ ar_status = 0 /\ UNCHANGED <<os_halt_cycle, migp>>
    BY <1>3 DEF onfly_ar_init, SameMig
  <2>2. QED
    BY <1>h, <1>t, <2>1, TickOfController
<1>4. CASE ArBusy
  <2>1. /\ turn = <<"ar", 0>> /\ Return /\ ~ ar_wait
        /\ UNCHANGED <<os_halt_cycle, migp>>
    BY <1>4, <1>h, BusyCycle DEF StageInv, Return
  <2>2. QED
    BY <1>h, <1>t, <2>1, TickOfController
<1>5. CASE ArBusyOver
  <2>1. /\ turn = <<"ar", 0>> /\ GoOn /\ ~ ar_wait /\ ar_wait' /\ ArCores' = ArCores
        /\ ar_left' = WaitCycles[ar_status] /\ UNCHANGED <<migp, ar_status>>
    BY <1>5, <1>h, ArCoresSame DEF ArBusyOver, SameMig, StageInv
  <2>2. CASE ar_status \in {11, 21} /\ c \in ArCores
    <3>1. os_halt_cycle'[c] = IF Cardinality(ArCores) = 1 THEN WaitCycles[ar_status]
                              ELSE WaitCycles[11]
      BY <1>5, <2>2 DEF ArBusyOver, OsHalt
    <3>2. WaitCycles[11] <= WaitCycles[ar_status] /\ WaitCycles[ar_status] \in Nat
      BY <2>2
    <3>3. os_halt_cycle'[c] <= ar_left'
      BY <2>1, <3>1, <3>2
    <3>4. Ticked(c)' = 0
      BY <1>h, <2>1, TickOfController
    <3>5. QED
      BY <1>t, <2>1, <2>2, <3>1, <3>2, <3>3, <3>4
  <2>3. CASE ~ (ar_status \in {11, 21} /\ c \in ArCores)
    <3>1. os_halt_cycle'[c] = os_halt_cycle[c]
      BY <1>5, <2>3 DEF ArBusyOver, OsHalt
    <3>2. QED
      BY <1>h, <1>t, <2>1, <3>1, TickOfController
  <2>4. QED
    BY <2>2, <2>3
<1>6. CASE ArWaiting
  <2>1. /\ turn = <<"ar", 0>> /\ GoOn /\ UNCHANGED <<os_halt_cycle, migp, ar_status, ar_wait>>
        /\ ArCores' = ArCores /\ ar_left' = Elapsed(ar_left)
    BY <1>6, ArCoresSame DEF ArWaiting, SameMig
  <2>2. ar_left > 0 => ar_left' = ar_left - 1
    BY <1>t, <2>1, ElapsedType
  <2>3. QED
    BY <1>h, <1>t, <2>1, <2>2, TickOfController
<1>7. CASE ArNextStage
  <2>1. turn = <<"ar", 0>> /\ GoOn /\ UNCHANGED migp
    BY <1>7 DEF ArNextStage, SameMig
  <2>2. /\ os_halt_cycle'[c] = os_halt_cycle[c]
        /\ ~ (c \in ArCores /\ ar_status \in {11, 21})
    BY <1>7, <1>t DEF ArNextStage
  <2>3. QED
    BY <1>h, <1>t, <2>1, <2>2, TickOfController
<1>8. CASE ArComplete
  <2>1. UNCHANGED <<turn, migp, migp_left>> /\ ar_status \in {14, 24}
    BY <1>8 DEF ArComplete, SameMig
  <2>2. os_halt_cycle'[c] = os_halt_cycle[c]
    BY <1>8, <1>t DEF ArComplete
  <2>3. QED
    BY <1>h, <2>1, <2>2 DEF Ticked
<1>9. CASE MigPart
  <2>1. /\ turn = <<"mig", 0>> /\ turn' = <<"core", 0>> /\ ArCores' = ArCores
        /\ UNCHANGED <<ar_status, ar_wait, ar_left>>
    BY <1>9, ArCoresSame DEF MigPart, arVars, MigIdle, MigSelect, MigOverhead,
                             MigBusyOver, MigWaitOver
  <2>2. Ticked(c) = 0 /\ Ticked(c)' = 0
    BY <2>1 DEF Ticked, Cores
  <2>3. CASE MigBusyOver
    <3>1. migp = "bz" /\ migp' = "wait" /\ migp_left' = OsCycles
      BY <2>3 DEF MigBusyOver
    <3>2. os_halt_cycle'[c] \in {OsCycles, os_halt_cycle[c]}
      BY <2>3 DEF MigBusyOver
    <3>3. QED
      BY <1>h, <1>t, <2>1, <2>2, <3>1, <3>2
  <2>4. CASE MigWaitOver
    BY <1>h, <1>t, <2>1, <2>2, <2>4 DEF MigWaitOver
  <2>5. CASE MigIdle \/ MigSelect \/ MigOverhead
    <3>1. UNCHANGED os_halt_cycle /\ (migp = "wait" => UNCHANGED <<migp, migp_left>>)
      BY <2>5 DEF MigIdle, MigSelect, MigOverhead, migpVars
    <3>2. QED
      BY <1>h, <1>t, <2>1, <2>2, <3>1
  <2>6. QED
    BY <1>9, <2>3, <2>4, <2>5 DEF MigPart
<1>10. ASSUME NEW d \in Cores, CoreTick(d)
       PROVE  ByAr(c)' \/ ByMig(c)'
  <2>1. /\ turn = <<"core", d>> /\ NextTurn(d) /\ ArCores' = ArCores
        /\ UNCHANGED <<ar_status, ar_wait, ar_left, migp, migp_left>>
    BY <1>10, ArCoresSame DEF CoreTick, CoreHalted, CoreStalls, CoreSends, arVars, migpVars
  <2>2. Ticked(c) = IF d <= c THEN 0 ELSE 1
    BY <2>1, TickedTurns
  <2>3. Ticked(c)' = IF d < c THEN 0 ELSE 1
    <3>1. CASE d + 1 < NumCores
      BY <2>1, <3>1 DEF NextTurn, Ticked, Cores
    <3>2. CASE ~ (d + 1 < NumCores)
      BY <2>1, <3>2 DEF NextTurn, Ticked, Cores
    <3>3. QED
      BY <3>1, <3>2
  <2>4. IF c = d THEN os_halt_cycle'[c] = os_halt_cycle[c] - 1 /\ os_halt_cycle[c] > 0
                 ELSE os_halt_cycle'[c] = os_halt_cycle[c]
    <3>1. CASE CoreHalted(d)
      BY <1>t, <3>1 DEF CoreHalted, Elapsed
    <3>2. CASE CoreStalls(d) \/ CoreSends(d)
      BY <1>t, <3>2 DEF CoreStalls, CoreSends, Halted, coreVars
    <3>3. QED
      BY <1>10, <3>1, <3>2 DEF CoreTick
  <2>5. c \in Nat /\ d \in Nat
    BY DEF Cores
  <2>6. os_halt_cycle'[c] + Ticked(c)' <= os_halt_cycle[c] + Ticked(c)
    BY <1>t, <2>2, <2>3, <2>4, <2>5
  <2>7. QED
    BY <1>h, <1>t, <2>1, <2>3, <2>4, <2>6
<1>11. QED
  BY <1>1, <1>2, <1>3, <1>4, <1>5, <1>6, <1>7, <1>8, <1>9, <1>10 DEF Next, ArPart

(***************************************************************************)
(* The invariant, and what follows from it.                                *)
(***************************************************************************)
LEMMA Preserved == IInv /\ [Next]_vars => IInv'
BY NextTypes, NextStageInv, NextFlushInv, NextHaltInv, NextTlbInv, NextOsInv DEF IInv

\* Every reachable state satisfies the inductive invariant.
THEOREM Invariance == Spec => []IInv
BY InitInv, Preserved, PTL DEF Spec

\* AR stops only the cores its pages belong to, from stage 12 or 22 to its
\* completion, and forgets none of them when it releases them.
THEOREM HaltsSound == Spec => []HaltSound
BY Invariance, PTL DEF IInv, HaltInv

\* A core halted for the mapping search of AR, or for the query of a starting
\* migration, is awake again when that work is over, however the two overlap.
THEOREM OsHaltsInTime == Spec => []OsHaltInTime
<1>1. IInv => OsHaltInTime
  <2> SUFFICES ASSUME IInv, turn = <<"ar", 0>>, NEW c \in Cores, os_halt_cycle[c] > 0
               PROVE  \/ c \in ArCores /\ ar_status \in {11, 21} /\ ar_wait
                           /\ os_halt_cycle[c] < ar_left
                      \/ migp = "wait" /\ os_halt_cycle[c] < migp_left
    BY DEF OsHaltInTime
  <2>1. Ticked(c) = 1
    BY TickedTurns
  <2>2. os_halt_cycle[c] \in Nat /\ ar_left \in Nat /\ migp_left \in Nat
    BY DEF IInv, TypeInv
  <2>3. QED
    BY <2>1, <2>2 DEF IInv, OsInv
<1>2. QED
  BY <1>1, Invariance, PTL

\* What the busy cycles of stage 13 or 23 invalidate: one line less than there
\* are cycles, or all the lines of the pages if that is fewer.
ExactlyFlushed ==
  ar_status \in {14, 24} \/ (Flushing /\ ar_wait) =>
    lines_1 + lines_2 = Flushed(FlushStage)

\* When the flushing stage is over, or waits, exactly so many lines have been sent
\* an invalidation: hybrid_tick_hma_onfly sends one in each busy cycle but the last.
THEOREM LinesFlushedExactly == Spec => []ExactlyFlushed
BY Invariance, PTL DEF IInv, FlushInv, ExactlyFlushed

\* All lines of the pages are invalidated if the busy cycles outnumber them,
\* as they do for pages of 2KB (and do not for pages of 4KB).
THEOREM EnoughCyclesFlushAll ==
  ASSUME BzCycles[13] > LinesInPage, BzCycles[23] > 2 * LinesInPage
  PROVE  Spec => []AllLinesFlushed
<1>1. IInv => AllLinesFlushed
  <2> SUFFICES ASSUME IInv, ar_status \in {14, 24} \/ (Flushing /\ ar_wait)
               PROVE  /\ lines_1 = LinesInPage
                      /\ ar_page_2 # NoPage => lines_2 = LinesInPage
    BY DEF AllLinesFlushed
  <2>1. /\ lines_1 + lines_2 = Flushed(FlushStage)
        /\ lines_1 = Lesser(lines_1 + lines_2, LinesInPage)
        /\ lines_1 \in Nat /\ lines_2 \in Nat
    BY DEF IInv, FlushInv, TypeInv
  <2>2. CASE ar_status \in {13, 14}
    <3>1. FlushStage = 13 /\ ar_page_2 = NoPage
      BY <2>2 DEF FlushStage, TwoWay, OneWay, IInv, StageInv
    <3>2. lines_1 + lines_2 = LinesInPage
      BY <2>1, <3>1, Cycles DEF Flushed, Lesser, Total, TwoWay
    <3>3. QED
      BY <2>1, <3>1, <3>2, Cycles DEF Lesser
  <2>3. CASE ar_status \in {23, 24}
    <3>1. FlushStage = 23
      BY <2>3 DEF FlushStage, TwoWay
    <3>2. lines_1 + lines_2 = 2 * LinesInPage
      BY <2>1, <3>1, Cycles DEF Flushed, Lesser, Total, TwoWay
    <3>3. QED
      BY <2>1, <3>2, Cycles DEF Lesser
  <2>4. QED
    BY <2>2, <2>3 DEF Flushing
<1>2. QED
  BY <1>1, Invariance, PTL

\* When AR completes, every core of its pages has been stopped for the update of
\* its TLB, also where two cores are stopped half way through stage 24.
THEOREM TlbAlwaysUpdated == Spec => TlbUpdated
<1> DEFINE Halted14 == \A c \in ArCores :
                         ar_status \in {14, 24} /\ ar_status' = 0 => core_halt[c]
<1>1. IInv /\ [Next]_vars => [Halted14]_vars
  <2> SUFFICES ASSUME IInv, [Next]_vars, ar_status \in {14, 24}, ar_status' = 0,
                      NEW c \in ArCores
               PROVE  core_halt[c]
    OBVIOUS
  <2>1. ArComplete
    <3>1. CASE UNCHANGED vars \/ ArIdle \/ MigPart \/ \E d \in Cores : CoreTick(d)
      BY <3>1, OtherSteps
    <3>2. ASSUME NEW p \in Pages, NEW q \in Pages \cup {NoPage}, onfly_ar_init(p, q)
          PROVE  FALSE
      BY <3>2 DEF onfly_ar_init
    <3>3. CASE ArBusy
      BY <3>3, BusyCycle
    <3>4. CASE ArBusyOver \/ ArWaiting \/ ArNextStage
      BY <3>4 DEF ArBusyOver, ArWaiting, ArNextStage
    <3>5. QED
      BY <3>1, <3>2, <3>3, <3>4 DEF Next, ArPart
  <2>2. ar_wait /\ Elapsed(ar_left) = 0 /\ ar_left \in Nat /\ half_left \in Nat
    BY <2>1 DEF ArComplete, ArExpired, IInv, TypeInv
  <2>3. ~ (half_left > 0 /\ half_left < ar_left)
    BY <2>2 DEF Elapsed
  <2>4. QED
    BY <2>2, <2>3 DEF IInv, TlbInv
<1>2. QED
  BY <1>1, Invariance, PTL DEF Spec, TlbUpdated
=============================================================================
