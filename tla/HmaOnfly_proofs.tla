--------------------------- MODULE HmaOnfly_proofs ---------------------------
(***************************************************************************)
(* The safety of HmaOnfly, for every set of pages and frames, every        *)
(* threshold and every size of the remap table.                            *)
(***************************************************************************)
EXTENDS HmaOnflyRefines, PageLists_proofs

FreeOk == \A m \in Mems : free[m] \subseteq Frames(m)

\* There is room for the two entries a selected migration will add.
RoomOk == mig_status \in {203, 100} => Room

\* The pages of a migration that has no remap entries yet have none at all.
FreshOk == mig_status \in {203, 100} => \A p \in Moving : ~ Listed(remap_table, p)

\* What the fields hot_* and cold_* say of the page table.
MigOk ==
  /\ Active <=> hot_pg_num # NoPage
  /\ ~ Active => cold_pg_num = NoPage
  /\ Active => /\ dom[hot_pg_num] = "l2m"
               /\ hot_frame_addr = frame_addr[hot_pg_num]
               /\ already_migrated[hot_pg_num]
               /\ mig_type \in {1, 2}
  /\ Active /\ mig_type = 1 => /\ cold_pg_num = Page0
                               /\ pair[hot_pg_num] = NoPage
  /\ Active /\ mig_type = 2 => /\ cold_pg_num \in Pages
                               /\ dom[cold_pg_num] = "l1m"
                               /\ cold_frame_addr = frame_addr[cold_pg_num]
                               /\ pair[hot_pg_num] = cold_pg_num

MappedOk == \A p \in Pages : already_migrated[p] => dom[p] # "none"

\* What the AR status says of the pages under reconciliation.
ArOk ==
  /\ ar_status = 0 <=> ar_page_1 = NoPage
  /\ ar_status = 0 => ar_page_2 = NoPage /\ ~ ar_bz
  /\ ar_status \in {11, 12, 13, 14} => /\ ar_page_2 = NoPage
                                       /\ pair[ar_page_1] = NoPage
  /\ ar_status \in {21, 22, 23, 24} => /\ ar_page_2 # NoPage
                                       /\ pair[ar_page_1] = ar_page_2

\* The inductive invariant.
IInv ==
  /\ TypeOK /\ FreeOk /\ NoAliasing
  /\ RemapMatchesFlags /\ RemapBounded /\ RoomOk /\ FreshOk
  /\ RemapFrames /\ PairSymmetric /\ ArOk /\ ArExclusive
  /\ LruSound /\ NextHotInSlow /\ MigOk /\ MappedOk
  /\ NoExit

\* The invariant holds at the start: no page is in use.
LEMMA InitInv ==
  ASSUME Init
  PROVE  IInv
<1> USE DEF Init
<1> USE PageAssumption, FrameAssumption, SizeAssumption
<1>1. TypeOK
  <2>1. /\ dom \in [Pages -> Mems \cup {"none"}]
        /\ frame_addr \in [Pages -> L1Frames \cup L2Frames \cup {NoFrame}]
        /\ pair \in [Pages -> Pages \cup {NoPage}]
        /\ already_migrated \in [Pages -> BOOLEAN]
        /\ mig_count \in [Pages -> 0..MaxCount]
    BY DEF Mems
  <2>2. free \in [Mems -> SUBSET (L1Frames \cup L2Frames)]
    BY DEF Mems, Frames
  <2>3. lru_list \in Seq(Pages) /\ remap_table \in Seq(Entries)
    OBVIOUS
  <2>4. highest_l2m_hotness \in Thold..MaxCount
    OBVIOUS
  <2>5. ar_bz \in BOOLEAN
    OBVIOUS
  <2>6. /\ mig_status \in MigStatus /\ mig_type \in 0..2 /\ ar_status \in ArStatus
        /\ proc \in {"run", "exit", "segv", "oom"}
    BY DEF MigStatus, ArStatus
  <2> HIDE DEF Init
  <2> QED
    BY <2>1, <2>2, <2>3, <2>4, <2>5, <2>6 DEF TypeOK, Init
<1>2. FreeOk /\ NoAliasing
  BY DEF FreeOk, NoAliasing, Mapped, Active, Frames
<1>3. RemapMatchesFlags /\ RemapBounded /\ RoomOk /\ FreshOk /\ RemapFrames
  BY DEF RemapMatchesFlags, RemapBounded, RoomOk, FreshOk, RemapFrames, Moving, Active,
         Listed, OneEntryEach
<1>4. PairSymmetric /\ ArOk /\ ArExclusive
  BY DEF PairSymmetric, ArOk, ArExclusive, ArPages
<1>5. LruSound /\ NextHotInSlow /\ MigOk /\ MappedOk /\ NoExit
  BY DEF LruSound, NoRepeats, NextHotInSlow, MigOk, Active, MappedOk, NoExit
<1> QED
  BY <1>1, <1>2, <1>3, <1>4, <1>5 DEF IInv


\* The end of a stage's busy cycles keeps the invariant.
LEMMA ArBusyOverInv ==
  ASSUME IInv, ArBusyOver
  PROVE  IInv'
<1>1. TypeOK'
  <2>1. ar_bz' \in BOOLEAN
    BY DEF ArBusyOver
  <2> QED
    BY <2>1 DEF IInv, ArBusyOver, TypeOK, pageVars, migVars, hotVars
<1>2. FreeOk'
  BY DEF IInv, ArBusyOver, FreeOk, Mems, Frames, pageVars, migVars, hotVars, arVars
<1>3. NoAliasing'
  BY DEF IInv, ArBusyOver, NoAliasing, Mapped, Loc, Active, Frames, pageVars, migVars, hotVars, arVars
<1>4. RemapMatchesFlags'
  BY DEF IInv, ArBusyOver, RemapMatchesFlags, Moving, Active, Listed, OneEntryEach, pageVars, migVars, hotVars, arVars
<1>5. RemapBounded'
  BY DEF IInv, ArBusyOver, RemapBounded, pageVars, migVars, hotVars, arVars
<1>6. RoomOk'
  BY DEF IInv, ArBusyOver, RoomOk, Room, pageVars, migVars, hotVars, arVars
<1>7. FreshOk'
  BY DEF IInv, ArBusyOver, FreshOk, Moving, Active, Listed, pageVars, migVars, hotVars, arVars
<1>8. RemapFrames'
  BY DEF IInv, ArBusyOver, RemapFrames, Moving, Active, pageVars, migVars, hotVars, arVars
<1>9. PairSymmetric'
  BY DEF IInv, ArBusyOver, PairSymmetric, pageVars, migVars, hotVars, arVars
<1>10. ArOk'
  BY DEF IInv, ArBusyOver, ArOk, pageVars, migVars, hotVars, arVars
<1>11. ArExclusive'
  BY DEF IInv, ArBusyOver, ArExclusive, ArPages, Moving, Active, Listed, pageVars, migVars, hotVars, arVars
<1>12. LruSound'
  BY DEF IInv, ArBusyOver, LruSound, NoRepeats, Moving, Active, pageVars, migVars, hotVars, arVars
<1>13. NextHotInSlow'
  BY DEF IInv, ArBusyOver, NextHotInSlow, Moving, Active, pageVars, migVars, hotVars, arVars
<1>14. MigOk'
  BY DEF IInv, ArBusyOver, MigOk, Active, pageVars, migVars, hotVars, arVars
<1>15. MappedOk'
  BY DEF IInv, ArBusyOver, MappedOk, pageVars, migVars, hotVars, arVars
<1>16. NoExit'
  BY DEF IInv, ArBusyOver, NoExit, pageVars, migVars, hotVars, arVars
<1> QED
  BY <1>1, <1>2, <1>3, <1>4, <1>5, <1>6, <1>7, <1>8, <1>9, <1>10, <1>11, <1>12, <1>13, <1>14, <1>15, <1>16 DEF IInv

\* The step of reconciliation to its next stage keeps it.
LEMMA ArNextStageInv ==
  ASSUME IInv, ArNextStage
  PROVE  IInv'
<1>1. TypeOK'
  BY DEF IInv, ArNextStage, TypeOK, MigStatus, ArStatus, Mems, pageVars, migVars, hotVars, arVars
<1>2. FreeOk'
  BY DEF IInv, ArNextStage, FreeOk, Mems, Frames, pageVars, migVars, hotVars, arVars
<1>3. NoAliasing'
  BY DEF IInv, ArNextStage, NoAliasing, Mapped, Loc, Active, Frames, pageVars, migVars, hotVars, arVars
<1>4. RemapMatchesFlags'
  BY DEF IInv, ArNextStage, RemapMatchesFlags, Moving, Active, Listed, OneEntryEach, pageVars, migVars, hotVars, arVars
<1>5. RemapBounded'
  BY DEF IInv, ArNextStage, RemapBounded, pageVars, migVars, hotVars, arVars
<1>6. RoomOk'
  BY DEF IInv, ArNextStage, RoomOk, Room, pageVars, migVars, hotVars, arVars
<1>7. FreshOk'
  <2>1. Moving' = Moving
    BY DEF ArNextStage, Moving, Active, migVars
  <2>2. mig_status' = mig_status /\ remap_table' = remap_table
    BY DEF ArNextStage, migVars
  <2> QED
    BY <2>1, <2>2 DEF IInv, FreshOk, Listed
<1>8. RemapFrames'
  BY DEF IInv, ArNextStage, RemapFrames, Moving, Active, pageVars, migVars, hotVars, arVars
<1>9. PairSymmetric'
  BY DEF IInv, ArNextStage, PairSymmetric, pageVars, migVars, hotVars, arVars
<1>10. ArOk'
  BY DEF IInv, TypeOK, ArStatus, ArNextStage, ArOk, pageVars, migVars
<1>11. ArExclusive'
  BY DEF IInv, ArNextStage, ArExclusive, ArPages, Moving, Active, Listed, pageVars, migVars, hotVars, arVars
<1>12. LruSound'
  BY DEF IInv, ArNextStage, LruSound, NoRepeats, Moving, Active, pageVars, migVars, hotVars, arVars
<1>13. NextHotInSlow'
  BY DEF IInv, ArNextStage, NextHotInSlow, Moving, Active, pageVars, migVars, hotVars, arVars
<1>14. MigOk'
  BY DEF IInv, ArNextStage, MigOk, Active, pageVars, migVars, hotVars, arVars
<1>15. MappedOk'
  BY DEF IInv, ArNextStage, MappedOk, pageVars, migVars, hotVars, arVars
<1>16. NoExit'
  BY DEF IInv, ArNextStage, NoExit, pageVars, migVars, hotVars, arVars
<1> QED
  BY <1>1, <1>2, <1>3, <1>4, <1>5, <1>6, <1>7, <1>8, <1>9, <1>10, <1>11, <1>12, <1>13, <1>14, <1>15, <1>16 DEF IInv

\* A selection that finds its hot page in the remap table already keeps it.
LEMMA SelectAgainInv ==
  ASSUME IInv, SelectAgain
  PROVE  IInv'
<1>1. TypeOK'
  BY DEF IInv, SelectAgain, TypeOK, MigStatus, ArStatus, Mems, Selecting, pageVars, migVars, hotVars, arVars
<1>2. FreeOk'
  BY DEF IInv, SelectAgain, FreeOk, Mems, Frames, Selecting, pageVars, migVars, hotVars, arVars
<1>3. NoAliasing'
  BY DEF IInv, SelectAgain, NoAliasing, Mapped, Loc, Active, Frames, Selecting, pageVars, migVars, hotVars, arVars
<1>4. RemapMatchesFlags'
  BY DEF IInv, SelectAgain, RemapMatchesFlags, Moving, Active, Listed, OneEntryEach, Selecting, pageVars, migVars, hotVars, arVars
<1>5. RemapBounded'
  BY DEF IInv, SelectAgain, RemapBounded, Selecting, pageVars, migVars, hotVars, arVars
<1>6. RoomOk'
  BY DEF IInv, SelectAgain, RoomOk, Room, Selecting, pageVars, migVars, hotVars, arVars
<1>7. FreshOk'
  BY DEF IInv, SelectAgain, FreshOk, Moving, Active, Listed, Selecting, pageVars, migVars, hotVars, arVars
<1>8. RemapFrames'
  BY DEF IInv, SelectAgain, RemapFrames, Moving, Active, Selecting, pageVars, migVars, hotVars, arVars
<1>9. PairSymmetric'
  BY DEF IInv, SelectAgain, PairSymmetric, Selecting, pageVars, migVars, hotVars, arVars
<1>10. ArOk'
  BY DEF IInv, SelectAgain, ArOk, Selecting, pageVars, migVars, hotVars, arVars
<1>11. ArExclusive'
  BY DEF IInv, SelectAgain, ArExclusive, ArPages, Moving, Active, Listed, Selecting, pageVars, migVars, hotVars, arVars
<1>12. LruSound'
  BY DEF IInv, SelectAgain, LruSound, NoRepeats, Moving, Active, Selecting, pageVars, migVars, hotVars, arVars
<1>13. NextHotInSlow'
  BY DEF IInv, SelectAgain, NextHotInSlow, Moving, Active, Selecting, pageVars, migVars, hotVars, arVars
<1>14. MigOk'
  BY DEF IInv, SelectAgain, MigOk, Active, Selecting, pageVars, migVars, hotVars, arVars
<1>15. MappedOk'
  BY DEF IInv, SelectAgain, MappedOk, Selecting, pageVars, migVars, hotVars, arVars
<1>16. NoExit'
  BY DEF IInv, SelectAgain, NoExit, Selecting, pageVars, migVars, hotVars, arVars
<1> QED
  BY <1>1, <1>2, <1>3, <1>4, <1>5, <1>6, <1>7, <1>8, <1>9, <1>10, <1>11, <1>12, <1>13, <1>14, <1>15, <1>16 DEF IInv

\* A selection from an LRU list that is too short keeps it.
LEMMA SelectSegvInv ==
  ASSUME IInv, SelectSegv
  PROVE  IInv'
<1>1. TypeOK'
  BY DEF IInv, SelectSegv, TypeOK, MigStatus, ArStatus, Mems, pageVars, migVars, hotVars, arVars
<1>2. FreeOk'
  BY DEF IInv, SelectSegv, FreeOk, Mems, Frames, pageVars, migVars, hotVars, arVars
<1>3. NoAliasing'
  BY DEF IInv, SelectSegv, NoAliasing, Mapped, Loc, Active, Frames, pageVars, migVars, hotVars, arVars
<1>4. RemapMatchesFlags'
  BY DEF IInv, SelectSegv, RemapMatchesFlags, Moving, Active, Listed, OneEntryEach, pageVars, migVars, hotVars, arVars
<1>5. RemapBounded'
  BY DEF IInv, SelectSegv, RemapBounded, pageVars, migVars, hotVars, arVars
<1>6. RoomOk'
  BY DEF IInv, SelectSegv, RoomOk, Room, pageVars, migVars, hotVars, arVars
<1>7. FreshOk'
  BY DEF IInv, SelectSegv, FreshOk, Moving, Active, Listed, pageVars, migVars, hotVars, arVars
<1>8. RemapFrames'
  BY DEF IInv, SelectSegv, RemapFrames, Moving, Active, pageVars, migVars, hotVars, arVars
<1>9. PairSymmetric'
  BY DEF IInv, SelectSegv, PairSymmetric, pageVars, migVars, hotVars, arVars
<1>10. ArOk'
  BY DEF IInv, SelectSegv, ArOk, pageVars, migVars, hotVars, arVars
<1>11. ArExclusive'
  BY DEF IInv, SelectSegv, ArExclusive, ArPages, Moving, Active, Listed, pageVars, migVars, hotVars, arVars
<1>12. LruSound'
  BY DEF IInv, SelectSegv, LruSound, NoRepeats, Moving, Active, pageVars, migVars, hotVars, arVars
<1>13. NextHotInSlow'
  BY DEF IInv, SelectSegv, NextHotInSlow, Moving, Active, pageVars, migVars, hotVars, arVars
<1>14. MigOk'
  BY DEF IInv, SelectSegv, MigOk, Active, pageVars, migVars, hotVars, arVars
<1>15. MappedOk'
  BY DEF IInv, SelectSegv, MappedOk, pageVars, migVars, hotVars, arVars
<1>16. NoExit'
  BY DEF IInv, SelectSegv, NoExit, pageVars, migVars, hotVars, arVars
<1> QED
  BY <1>1, <1>2, <1>3, <1>4, <1>5, <1>6, <1>7, <1>8, <1>9, <1>10, <1>11, <1>12, <1>13, <1>14, <1>15, <1>16 DEF IInv

\* The end of the overhead cycles of a migration keeps it.
LEMMA OverheadOverInv ==
  ASSUME IInv, OverheadOver
  PROVE  IInv'
<1>1. TypeOK'
  BY DEF IInv, OverheadOver, TypeOK, MigStatus, ArStatus, Mems, pageVars, migVars, hotVars, arVars
<1>2. FreeOk'
  BY DEF IInv, OverheadOver, FreeOk, Mems, Frames, pageVars, migVars, hotVars, arVars
<1>3. NoAliasing'
  BY DEF IInv, OverheadOver, NoAliasing, Mapped, Loc, Active, Frames, pageVars, migVars, hotVars, arVars
<1>4. RemapMatchesFlags'
  BY DEF IInv, OverheadOver, RemapMatchesFlags, Moving, Active, Listed, OneEntryEach, pageVars, migVars, hotVars, arVars
<1>5. RemapBounded'
  BY DEF IInv, OverheadOver, RemapBounded, pageVars, migVars, hotVars, arVars
<1>6. RoomOk'
  BY DEF IInv, OverheadOver, RoomOk, Room, pageVars, migVars, hotVars, arVars
<1>7. FreshOk'
  BY DEF IInv, OverheadOver, FreshOk, Moving, Active, Listed, pageVars, migVars, hotVars, arVars
<1>8. RemapFrames'
  BY DEF IInv, OverheadOver, RemapFrames, Moving, Active, pageVars, migVars, hotVars, arVars
<1>9. PairSymmetric'
  BY DEF IInv, OverheadOver, PairSymmetric, pageVars, migVars, hotVars, arVars
<1>10. ArOk'
  BY DEF IInv, OverheadOver, ArOk, pageVars, migVars, hotVars, arVars
<1>11. ArExclusive'
  BY DEF IInv, OverheadOver, ArExclusive, ArPages, Moving, Active, Listed, pageVars, migVars, hotVars, arVars
<1>12. LruSound'
  BY DEF IInv, OverheadOver, LruSound, NoRepeats, Moving, Active, pageVars, migVars, hotVars, arVars
<1>13. NextHotInSlow'
  BY DEF IInv, OverheadOver, NextHotInSlow, Moving, Active, pageVars, migVars, hotVars, arVars
<1>14. MigOk'
  BY DEF IInv, OverheadOver, MigOk, Active, pageVars, migVars, hotVars, arVars
<1>15. MappedOk'
  BY DEF IInv, OverheadOver, MappedOk, pageVars, migVars, hotVars, arVars
<1>16. NoExit'
  BY DEF IInv, OverheadOver, NoExit, pageVars, migVars, hotVars, arVars
<1> QED
  BY <1>1, <1>2, <1>3, <1>4, <1>5, <1>6, <1>7, <1>8, <1>9, <1>10, <1>11, <1>12, <1>13, <1>14, <1>15, <1>16 DEF IInv

\* The migration's reads and writes, of which the page level sees the status, keep it.
LEMMA MigAdvanceInv ==
  ASSUME IInv, MigAdvance
  PROVE  IInv'
<1>1. TypeOK'
  BY DEF IInv, MigAdvance, TypeOK, MigStatus, ArStatus, Mems, pageVars, migVars, hotVars, arVars
<1>2. FreeOk'
  BY DEF IInv, MigAdvance, FreeOk, Mems, Frames, pageVars, migVars, hotVars, arVars
<1>3. NoAliasing'
  BY DEF IInv, MigAdvance, NoAliasing, Mapped, Loc, Active, Frames, pageVars, migVars, hotVars, arVars
<1>4. RemapMatchesFlags'
  BY DEF IInv, MigAdvance, RemapMatchesFlags, Moving, Active, Listed, OneEntryEach, pageVars, migVars, hotVars, arVars
<1>5. RemapBounded'
  BY DEF IInv, MigAdvance, RemapBounded, pageVars, migVars, hotVars, arVars
<1>6. RoomOk'
  BY DEF IInv, MigAdvance, RoomOk, Room, pageVars, migVars, hotVars, arVars
<1>7. FreshOk'
  BY DEF IInv, MigAdvance, FreshOk, Moving, Active, Listed, pageVars, migVars, hotVars, arVars
<1>8. RemapFrames'
  BY DEF IInv, MigAdvance, RemapFrames, Moving, Active, pageVars, migVars, hotVars, arVars
<1>9. PairSymmetric'
  BY DEF IInv, MigAdvance, PairSymmetric, pageVars, migVars, hotVars, arVars
<1>10. ArOk'
  BY DEF IInv, MigAdvance, ArOk, pageVars, migVars, hotVars, arVars
<1>11. ArExclusive'
  <2>1. Moving' = Moving
    BY DEF MigAdvance, Moving, Active
  <2> QED
    BY <2>1 DEF IInv, MigAdvance, ArExclusive, ArPages, Listed, arVars
<1>12. LruSound'
  BY DEF IInv, MigAdvance, LruSound, NoRepeats, Moving, Active, pageVars, migVars, hotVars, arVars
<1>13. NextHotInSlow'
  BY DEF IInv, MigAdvance, NextHotInSlow, Moving, Active, pageVars, migVars, hotVars, arVars
<1>14. MigOk'
  BY DEF IInv, MigAdvance, MigOk, Active, pageVars, migVars, hotVars, arVars
<1>15. MappedOk'
  BY DEF IInv, MigAdvance, MappedOk, pageVars, migVars, hotVars, arVars
<1>16. NoExit'
  BY DEF IInv, MigAdvance, NoExit, pageVars, migVars, hotVars, arVars
<1> QED
  BY <1>1, <1>2, <1>3, <1>4, <1>5, <1>6, <1>7, <1>8, <1>9, <1>10, <1>11, <1>12, <1>13, <1>14, <1>15, <1>16 DEF IInv

\* The start of a reconciliation keeps it: the candidate is not being moved.
LEMMA ArInitInv ==
  ASSUME IInv, onfly_ar_init
  PROVE  IInv'
<1>a. PICK i \in 1..Len(remap_table) :
        /\ ArCandidate(remap_table[i])
        /\ ar_page_1' = remap_table[i].pg
        /\ IF pair[remap_table[i].pg] # NoPage
           THEN ar_page_2' = pair[remap_table[i].pg] /\ ar_status' = 21
           ELSE UNCHANGED ar_page_2 /\ ar_status' = 11
        /\ ar_bz' = TRUE
  BY DEF onfly_ar_init
<1> DEFINE p == remap_table[i].pg
<1>b. /\ p \in Pages /\ pair[p] \in Pages \cup {NoPage} /\ ar_page_1' = p
      /\ ar_page_2 = NoPage /\ ar_status = 0 /\ ~ ar_bz
      /\ Listed(remap_table, p) /\ already_migrated[p]
  <2>1. remap_table[i] \in Entries
    BY DEF IInv, TypeOK
  <2>2. p \in Pages /\ Listed(remap_table, p)
    BY <2>1 DEF Entries, Listed
  <2>3. already_migrated[p]
    BY <2>2 DEF IInv, RemapMatchesFlags
  <2> QED
    BY <1>a, <2>2, <2>3 DEF IInv, TypeOK, ArOk, onfly_ar_init
<1>c. /\ p \notin Migrating
      /\ pair[p] # NoPage => pair[p] \notin Migrating
  BY <1>a DEF ArCandidate
<1>d. Moving \subseteq Migrating /\ Moving' = Moving
  BY DEF onfly_ar_init, Moving, Migrating, Active, migVars
<1>e. pair[p] # NoPage => Listed(remap_table, pair[p])
  BY <1>b, <1>c, <1>d DEF IInv, PairSymmetric, RemapMatchesFlags
<1> HIDE DEF p

<1>1. TypeOK'
  <2>1. ar_bz' \in BOOLEAN
    BY <1>a
  <2>2. ar_page_1' \in Pages \cup {NoPage} /\ ar_page_2' \in Pages \cup {NoPage}
        /\ ar_status' \in ArStatus
    BY <1>a, <1>b DEF p, ArStatus
  <2> QED
    BY <2>1, <2>2 DEF IInv, onfly_ar_init, TypeOK, pageVars, migVars, hotVars
<1>2. FreeOk'
  BY DEF IInv, onfly_ar_init, FreeOk, Mems, Frames, pageVars, migVars, hotVars, arVars
<1>3. NoAliasing'
  BY DEF IInv, onfly_ar_init, NoAliasing, Mapped, Loc, Active, Frames, pageVars, migVars, hotVars, arVars
<1>4. RemapMatchesFlags'
  BY DEF IInv, onfly_ar_init, RemapMatchesFlags, Moving, Active, Listed, OneEntryEach, pageVars, migVars, hotVars, arVars
<1>5. RemapBounded'
  BY DEF IInv, onfly_ar_init, RemapBounded, pageVars, migVars, hotVars, arVars
<1>6. RoomOk'
  BY DEF IInv, onfly_ar_init, RoomOk, Room, pageVars, migVars, hotVars, arVars
<1>7. FreshOk'
  BY DEF IInv, onfly_ar_init, FreshOk, Moving, Active, Listed, pageVars, migVars, hotVars, arVars
<1>8. RemapFrames'
  BY DEF IInv, onfly_ar_init, RemapFrames, Moving, Active, pageVars, migVars, hotVars, arVars
<1>9. PairSymmetric'
  BY DEF IInv, onfly_ar_init, PairSymmetric, pageVars, migVars, hotVars, arVars
<1>10. ArOk'
  BY <1>a, <1>b, PageAssumption DEF ArOk, p, onfly_ar_init, pageVars
<1>11. ArExclusive'
  <2>1. remap_table' = remap_table
    BY DEF onfly_ar_init
  <2> QED
    BY <1>a, <1>b, <1>c, <1>d, <1>e, <2>1 DEF ArExclusive, ArPages, p
<1>12. LruSound'
  BY DEF IInv, onfly_ar_init, LruSound, NoRepeats, Moving, Active, pageVars, migVars, hotVars, arVars
<1>13. NextHotInSlow'
  BY DEF IInv, onfly_ar_init, NextHotInSlow, Moving, Active, pageVars, migVars, hotVars, arVars
<1>14. MigOk'
  BY DEF IInv, onfly_ar_init, MigOk, Active, pageVars, migVars, hotVars, arVars
<1>15. MappedOk'
  BY DEF IInv, onfly_ar_init, MappedOk, pageVars, migVars, hotVars, arVars
<1>16. NoExit'
  BY DEF IInv, onfly_ar_init, NoExit, pageVars, migVars, hotVars, arVars
<1> QED
  BY <1>1, <1>2, <1>3, <1>4, <1>5, <1>6, <1>7, <1>8, <1>9, <1>10, <1>11, <1>12, <1>13, <1>14, <1>15, <1>16 DEF IInv

\* The end of reconciling one page keeps it: entry and flag go together.
LEMMA ArComplete1Inv ==
  ASSUME IInv, ArComplete1
  PROVE  IInv'
<1> DEFINE p == ar_page_1
           t == Erased(remap_table, p)
<1>a. /\ p \in Pages /\ pair[p] = NoPage /\ ar_page_2 = NoPage
      /\ p \notin Moving /\ Listed(remap_table, p)
  BY PageAssumption DEF IInv, TypeOK, ArOk, ArComplete1, ArExclusive, ArPages
<1>b. /\ already_migrated' = Unflagged({p}) /\ remap_table' = t
      /\ ar_page_1' = NoPage /\ ar_page_2' = NoPage
      /\ ar_status' = 0 /\ ar_bz' = FALSE /\ proc' = proc
  <2>1. {q \in {ar_page_1} : Listed(remap_table, q)} = {p}
    BY <1>a
  <2> QED
    BY <1>a, <2>1 DEF ArComplete1
<1>c. /\ t \in Seq(Entries) /\ OneEntryEach(t)
      /\ \A q : Listed(t, q) <=> Listed(remap_table, q) /\ q # p
      /\ \A i \in 1..Len(t) : \E j \in 1..Len(remap_table) : t[i] = remap_table[j]
      /\ Len(t) <= Len(remap_table) /\ Len(t) \in Nat
  <2>1. remap_table \in Seq(Entries) /\ OneEntryEach(remap_table)
    BY DEF IInv, TypeOK, RemapMatchesFlags
  <2> QED
    BY <2>1, ErasedProps
<1>d. \A q \in Pages : already_migrated'[q] <=> already_migrated[q] /\ q # p
  BY <1>b DEF Unflagged
<1>e. Moving' = Moving
  BY DEF ArComplete1, Moving, Active, migVars
<1> HIDE DEF t, p

<1>1. TypeOK'
  <2>1. ar_bz' \in BOOLEAN
    BY <1>b
  <2>2. already_migrated' \in [Pages -> BOOLEAN]
    BY <1>b DEF Unflagged, IInv, TypeOK
  <2> QED
    BY <1>b, <1>c, <2>1, <2>2
    DEF IInv, ArComplete1, TypeOK, ArStatus, migVars, hotVars
<1>2. FreeOk'
  BY DEF IInv, ArComplete1, FreeOk, Mems, Frames, pageVars, migVars, hotVars, arVars
<1>3. NoAliasing'
  BY DEF IInv, ArComplete1, NoAliasing, Mapped, Loc, Active, Frames, pageVars, migVars, hotVars, arVars
<1>4. RemapMatchesFlags'
  <2> SUFFICES ASSUME NEW q \in Pages
               PROVE  already_migrated'[q] <=>
                        \/ Listed(t, q)
                        \/ mig_status' \in {203, 100} /\ q \in Moving'
    BY <1>b, <1>c DEF RemapMatchesFlags
  <2> QED
    BY <1>a, <1>c, <1>d, <1>e DEF IInv, RemapMatchesFlags, ArComplete1, migVars
<1>5. RemapBounded'
  BY <1>b, <1>c, SizeAssumption DEF IInv, TypeOK, RemapBounded
<1>6. RoomOk'
  BY <1>b, <1>c, SizeAssumption DEF IInv, TypeOK, RoomOk, Room, ArComplete1, migVars
<1>7. FreshOk'
  BY <1>b, <1>c, <1>e DEF IInv, FreshOk, ArComplete1, migVars
<1>8. RemapFrames'
  <2> SUFFICES ASSUME NEW i \in 1..Len(t)
               PROVE  LET e == t[i]
                      IN IF e.busy
                         THEN /\ e.pg \in Moving
                              /\ e.fr = IF e.pg = hot_pg_num THEN cold_frame_addr
                                                             ELSE hot_frame_addr
                         ELSE e.pg \notin Moving /\ e.fr = frame_addr[e.pg]
    BY <1>b, <1>e DEF RemapFrames, ArComplete1, migVars
  <2> QED
    BY <1>c DEF IInv, RemapFrames
<1>9. PairSymmetric'
  <2> SUFFICES ASSUME NEW q \in Pages, pair[q] # NoPage
               PROVE  /\ pair[q] # q /\ pair[pair[q]] = q
                      /\ already_migrated'[q] /\ already_migrated'[pair[q]]
    BY DEF PairSymmetric, ArComplete1
  <2>1. /\ pair[q] \in Pages /\ pair[q] # q /\ pair[pair[q]] = q
        /\ already_migrated[q] /\ already_migrated[pair[q]]
    BY DEF IInv, PairSymmetric, TypeOK
  <2> QED
    BY <1>a, <1>d, <2>1, PageAssumption
<1>10. ArOk'
  BY <1>b DEF ArOk
<1>11. ArExclusive'
  BY <1>b DEF ArExclusive, ArPages
<1>12. LruSound'
  BY DEF IInv, ArComplete1, LruSound, NoRepeats, Moving, Active, pageVars, migVars, hotVars, arVars
<1>13. NextHotInSlow'
  BY DEF IInv, ArComplete1, NextHotInSlow, Moving, Active, pageVars, migVars, hotVars, arVars
<1>14. MigOk'
  <2>1. Active => hot_pg_num \in Pages /\ hot_pg_num # p
    BY <1>a DEF IInv, MigOk, TypeOK, Moving
  <2> QED
    BY <1>d, <2>1 DEF IInv, MigOk, Active, ArComplete1, migVars
<1>15. MappedOk'
  BY <1>d DEF IInv, MappedOk, ArComplete1
<1>16. NoExit'
  BY <1>b DEF IInv, NoExit
<1> QED
  BY <1>1, <1>2, <1>3, <1>4, <1>5, <1>6, <1>7, <1>8, <1>9, <1>10, <1>11, <1>12, <1>13, <1>14, <1>15, <1>16 DEF IInv

\* The end of reconciling two pages keeps it: they were each other's pair.
LEMMA ArComplete2Inv ==
  ASSUME IInv, ArComplete2
  PROVE  IInv'
<1> DEFINE p == ar_page_1
           q == ar_page_2
           t1 == Erased(remap_table, p)
           t == Erased(t1, q)
<1>a. /\ p \in Pages /\ q \in Pages /\ pair[p] = q /\ pair[q] = p
      /\ p \notin Moving /\ Listed(remap_table, p)
      /\ q \notin Moving /\ Listed(remap_table, q)
  BY PageAssumption
  DEF IInv, TypeOK, ArOk, ArComplete2, ArExclusive, ArPages, PairSymmetric
<1>b. /\ already_migrated' = Unflagged({p, q}) /\ pair' = Unpaired({p, q})
      /\ remap_table' = t
      /\ ar_page_1' = NoPage /\ ar_page_2' = NoPage
      /\ ar_status' = 0 /\ ar_bz' = FALSE /\ proc' = proc
  <2>1. {r \in {ar_page_1, ar_page_2} : Listed(remap_table, r)} = {p, q}
    BY <1>a
  <2>2. ~ \E r \in {p, q} : pair[r] # IF r = ar_page_1 THEN ar_page_2 ELSE ar_page_1
    BY <1>a
  <2> QED
    BY <2>1, <2>2 DEF ArComplete2
<1>c. /\ t \in Seq(Entries) /\ OneEntryEach(t)
      /\ \A r : Listed(t, r) <=> Listed(remap_table, r) /\ r # p /\ r # q
      /\ \A i \in 1..Len(t) : \E j \in 1..Len(remap_table) : t[i] = remap_table[j]
      /\ Len(t) <= Len(remap_table) /\ Len(t) \in Nat
  <2>1. remap_table \in Seq(Entries) /\ OneEntryEach(remap_table)
    BY DEF IInv, TypeOK, RemapMatchesFlags
  <2>2. /\ t1 \in Seq(Entries) /\ OneEntryEach(t1)
        /\ \A r : Listed(t1, r) <=> Listed(remap_table, r) /\ r # p
        /\ \A i \in 1..Len(t1) : \E j \in 1..Len(remap_table) : t1[i] = remap_table[j]
        /\ Len(t1) <= Len(remap_table) /\ Len(t1) \in Nat
    BY <2>1, ErasedProps
  <2> HIDE DEF t1
  <2>3. /\ t \in Seq(Entries) /\ OneEntryEach(t)
        /\ \A r : Listed(t, r) <=> Listed(t1, r) /\ r # q
        /\ \A i \in 1..Len(t) : \E j \in 1..Len(t1) : t[i] = t1[j]
        /\ Len(t) <= Len(t1) /\ Len(t) \in Nat
    BY <2>2, ErasedProps
  <2> HIDE DEF t
  <2>4. \A i \in 1..Len(t) : \E j \in 1..Len(remap_table) : t[i] = remap_table[j]
    BY <2>2, <2>3
  <2>5. Len(remap_table) \in Nat
    BY <2>1
  <2> QED
    BY <2>2, <2>3, <2>4, <2>5
<1>d. /\ \A r \in Pages : already_migrated'[r] <=> already_migrated[r] /\ r \notin {p, q}
      /\ \A r \in Pages : pair'[r] = IF r \in {p, q} THEN NoPage ELSE pair[r]
  BY <1>b DEF Unflagged, Unpaired
<1>e. Moving' = Moving
  BY DEF ArComplete2, Moving, Active, migVars
<1> HIDE DEF t1, t, p, q

<1>1. TypeOK'
  <2>1. ar_bz' \in BOOLEAN
    BY <1>b
  <2>2. already_migrated' \in [Pages -> BOOLEAN]
    BY <1>b DEF Unflagged, IInv, TypeOK
  <2>3. pair' \in [Pages -> Pages \cup {NoPage}]
    BY <1>b DEF Unpaired, IInv, TypeOK
  <2> QED
    BY <1>b, <1>c, <2>1, <2>2, <2>3
    DEF IInv, ArComplete2, TypeOK, ArStatus, migVars, hotVars
<1>2. FreeOk'
  BY DEF IInv, ArComplete2, FreeOk, Mems, Frames, pageVars, migVars, hotVars, arVars
<1>3. NoAliasing'
  BY DEF IInv, ArComplete2, NoAliasing, Mapped, Loc, Active, Frames, pageVars, migVars, hotVars, arVars
<1>4. RemapMatchesFlags'
  <2> SUFFICES ASSUME NEW r \in Pages
               PROVE  already_migrated'[r] <=>
                        \/ Listed(t, r)
                        \/ mig_status' \in {203, 100} /\ r \in Moving'
    BY <1>b, <1>c DEF RemapMatchesFlags
  <2> QED
    BY <1>a, <1>c, <1>d, <1>e DEF IInv, RemapMatchesFlags, ArComplete2, migVars
<1>5. RemapBounded'
  BY <1>b, <1>c, SizeAssumption DEF IInv, TypeOK, RemapBounded
<1>6. RoomOk'
  BY <1>b, <1>c, SizeAssumption DEF IInv, TypeOK, RoomOk, Room, ArComplete2, migVars
<1>7. FreshOk'
  BY <1>b, <1>c, <1>e DEF IInv, FreshOk, ArComplete2, migVars
<1>8. RemapFrames'
  <2> SUFFICES ASSUME NEW i \in 1..Len(t)
               PROVE  LET e == t[i]
                      IN IF e.busy
                         THEN /\ e.pg \in Moving
                              /\ e.fr = IF e.pg = hot_pg_num THEN cold_frame_addr
                                                             ELSE hot_frame_addr
                         ELSE e.pg \notin Moving /\ e.fr = frame_addr[e.pg]
    BY <1>b, <1>e DEF RemapFrames, ArComplete2, migVars
  <2> QED
    BY <1>c DEF IInv, RemapFrames
<1>9. PairSymmetric'
  <2> SUFFICES ASSUME NEW r \in Pages, pair'[r] # NoPage
               PROVE  /\ pair'[r] # r /\ pair'[pair'[r]] = r
                      /\ already_migrated'[r] /\ already_migrated'[pair'[r]]
    BY DEF PairSymmetric
  <2>1. r \notin {p, q} /\ pair'[r] = pair[r] /\ pair[r] # NoPage
    BY <1>d
  <2>2. /\ pair[r] \in Pages /\ pair[r] # r /\ pair[pair[r]] = r
        /\ already_migrated[r] /\ already_migrated[pair[r]]
    BY <2>1 DEF IInv, PairSymmetric, TypeOK
  <2>3. pair[r] \notin {p, q}
    BY <1>a, <2>1, <2>2
  <2> QED
    BY <1>d, <2>1, <2>2, <2>3
<1>10. ArOk'
  BY <1>b DEF ArOk
<1>11. ArExclusive'
  BY <1>b DEF ArExclusive, ArPages
<1>12. LruSound'
  BY DEF IInv, ArComplete2, LruSound, NoRepeats, Moving, Active, pageVars, migVars, hotVars, arVars
<1>13. NextHotInSlow'
  BY DEF IInv, ArComplete2, NextHotInSlow, Moving, Active, pageVars, migVars, hotVars, arVars
<1>14. MigOk'
  <2>1. Active => hot_pg_num \in Pages /\ hot_pg_num \notin {p, q}
    BY <1>a DEF IInv, MigOk, TypeOK, Moving
  <2>2. Active /\ mig_type = 2 => cold_pg_num \notin {p, q}
    BY <1>a DEF IInv, MigOk, TypeOK, Moving
  <2> QED
    BY <1>d, <2>1, <2>2 DEF IInv, MigOk, Active, ArComplete2, migVars
<1>15. MappedOk'
  BY <1>d DEF IInv, MappedOk, ArComplete2
<1>16. NoExit'
  BY <1>b DEF IInv, NoExit
<1> QED
  BY <1>1, <1>2, <1>3, <1>4, <1>5, <1>6, <1>7, <1>8, <1>9, <1>10, <1>11, <1>12, <1>13, <1>14, <1>15, <1>16 DEF IInv

\* The first access of a page, which takes a frame for it, keeps the invariant.
LEMMA AllocateInv ==
  ASSUME NEW p \in Pages, NEW mem \in Mems,
         IInv, hma_handler(p, mem), proc' = proc
  PROVE  IInv'
<1>a. PICK m \in Mems, f \in L1Frames \cup L2Frames :
        /\ f \in free[m]
        /\ dom' = [dom EXCEPT ![p] = m]
        /\ frame_addr' = [frame_addr EXCEPT ![p] = f]
        /\ free' = [free EXCEPT ![m] = @ \ {f}]
  <2> DEFINE target == IF free[mem] # {} THEN mem ELSE OtherMem(mem)
  <2>1. target \in Mems
    BY DEF OtherMem, Mems
  <2> QED
    BY <2>1 DEF hma_handler, Taken, IInv, TypeOK
<1>b. /\ dom[p] = "none" /\ ~ already_migrated[p] /\ proc = "run"
      /\ dom'[p] = m /\ frame_addr'[p] = f
      /\ \A q \in Pages : q # p => dom'[q] = dom[q] /\ frame_addr'[q] = frame_addr[q]
      /\ f \in free[m] /\ f \in Frames(m) /\ f \in L1Frames \cup L2Frames
      /\ \A k \in Mems : free'[k] = IF k = m THEN free[k] \ {f} ELSE free[k]
  BY <1>a DEF hma_handler, IInv, TypeOK, MappedOk, FreeOk, Frames, Mems
<1>c. /\ UNCHANGED <<pair, already_migrated, mig_count, lru_list, remap_table,
                     migVars, hotVars, arVars>>
      /\ Moving' = Moving /\ Active' = Active
  BY DEF hma_handler, Moving, Active, migVars
<1>d. p \notin Moving
  BY <1>b DEF IInv, MigOk, Moving, Mems

<1>1. TypeOK'
  <2>1. /\ dom' \in [Pages -> Mems \cup {"none"}]
        /\ frame_addr' \in [Pages -> L1Frames \cup L2Frames \cup {NoFrame}]
        /\ free' \in [Mems -> SUBSET (L1Frames \cup L2Frames)]
    BY <1>a, <1>b DEF IInv, TypeOK
  <2> QED
    BY <1>c, <2>1 DEF IInv, TypeOK, migVars, hotVars, arVars
<1>2. FreeOk'
  BY <1>b DEF IInv, FreeOk, Frames
<1>3. NoAliasing'
  <2>1. \A q \in Pages : q # p /\ dom[q] # "none" =>
           /\ dom[q] \in Mems /\ frame_addr[q] \in Frames(dom[q])
           /\ frame_addr[q] \notin free[dom[q]]
           /\ dom'[q] = dom[q] /\ frame_addr'[q] = frame_addr[q]
    BY <1>b DEF IInv, TypeOK, NoAliasing, Mapped
  <2>2. \A q, r \in Mapped' : Loc(q)' = Loc(r)' => q = r
    <3> SUFFICES ASSUME NEW q \in Pages, NEW r \in Pages, dom'[q] # "none",
                        dom'[r] # "none", q # r,
                        dom'[q] = dom'[r], frame_addr'[q] = frame_addr'[r]
                 PROVE  FALSE
      BY DEF Mapped, Loc
    <3>1. CASE q = p
      BY <1>b, <2>1, <3>1
    <3>2. CASE r = p
      BY <1>b, <2>1, <3>2
    <3>3. CASE q # p /\ r # p
      BY <2>1, <1>b, <3>3 DEF IInv, NoAliasing, Mapped, Loc
    <3> QED BY <3>1, <3>2, <3>3
  <2>3. \A q \in Mapped' : frame_addr'[q] \in Frames(dom'[q]) \ free'[dom'[q]]
    <3> SUFFICES ASSUME NEW q \in Pages, dom'[q] # "none"
                 PROVE  /\ frame_addr'[q] \in Frames(dom'[q])
                        /\ frame_addr'[q] \notin free'[dom'[q]]
      BY DEF Mapped
    <3>1. CASE q = p
      BY <1>b, <3>1
    <3>2. CASE q # p
      <4>1. /\ dom[q] \in Mems /\ frame_addr[q] \in Frames(dom[q])
            /\ frame_addr[q] \notin free[dom[q]]
            /\ dom'[q] = dom[q] /\ frame_addr'[q] = frame_addr[q]
        BY <1>b, <2>1, <3>2
      <4>2. free'[dom[q]] \subseteq free[dom[q]]
        BY <1>b, <4>1
      <4> QED
        BY <4>1, <4>2
    <3> QED BY <3>1, <3>2
  <2>4. Active /\ mig_type = 1 =>
          /\ cold_frame_addr \in L1Frames \ free'["l1m"]
          /\ \A q \in Mapped' : Loc(q)' # <<"l1m", cold_frame_addr>>
    <3> SUFFICES ASSUME Active, mig_type = 1
                 PROVE  /\ cold_frame_addr \in L1Frames
                        /\ cold_frame_addr \notin free'["l1m"]
                        /\ \A q \in Pages : dom'[q] = "l1m" =>
                             frame_addr'[q] # cold_frame_addr
      BY DEF Mapped, Loc
    <3>1. /\ cold_frame_addr \in L1Frames /\ cold_frame_addr \notin free["l1m"]
          /\ \A q \in Pages : dom[q] = "l1m" => frame_addr[q] # cold_frame_addr
      BY DEF IInv, NoAliasing, Mapped, Loc
    <3> QED BY <1>b, <3>1 DEF Mems
  <2> QED
    BY <1>c, <2>2, <2>3, <2>4 DEF NoAliasing, migVars
<1>4. RemapMatchesFlags'
  BY <1>c DEF IInv, RemapMatchesFlags, migVars
<1>5. RemapBounded'
  BY DEF IInv, hma_handler, RemapBounded, pageVars, migVars, hotVars, arVars
<1>6. RoomOk'
  BY <1>c DEF IInv, RoomOk, Room, migVars
<1>7. FreshOk'
  BY <1>c DEF IInv, FreshOk, migVars
<1>8. RemapFrames'
  <2> SUFFICES ASSUME NEW i \in 1..Len(remap_table)
               PROVE  frame_addr'[remap_table[i].pg] = frame_addr[remap_table[i].pg]
    BY <1>c DEF IInv, RemapFrames, migVars
  <2>0. remap_table[i] \in Entries
    BY DEF IInv, TypeOK
  <2>1. remap_table[i].pg \in Pages /\ Listed(remap_table, remap_table[i].pg)
    BY <2>0 DEF Entries, Listed
  <2>2. remap_table[i].pg # p
    BY <1>b, <2>1 DEF IInv, RemapMatchesFlags
  <2> QED
    BY <1>b, <2>1, <2>2
<1>9. PairSymmetric'
  BY DEF IInv, hma_handler, PairSymmetric, pageVars, migVars, hotVars, arVars
<1>10. ArOk'
  BY <1>c DEF IInv, ArOk, arVars
<1>11. ArExclusive'
  BY <1>c DEF IInv, ArExclusive, ArPages, arVars
<1>12. LruSound'
  BY <1>b, <1>c DEF IInv, TypeOK, LruSound
<1>13. NextHotInSlow'
  BY <1>b, <1>c DEF IInv, TypeOK, NextHotInSlow, hotVars
<1>14. MigOk'
  <2>1. Active => hot_pg_num \in Pages /\ hot_pg_num # p
    BY <1>d DEF IInv, TypeOK, MigOk, Moving
  <2>2. Active /\ mig_type = 2 => cold_pg_num \in Pages /\ cold_pg_num # p
    BY <1>d DEF IInv, MigOk, Moving
  <2> QED
    BY <1>b, <1>c, <2>1, <2>2 DEF IInv, MigOk, migVars
<1>15. MappedOk'
  BY <1>b, <1>c DEF IInv, MappedOk
<1>16. NoExit'
  BY DEF IInv, NoExit
<1> QED
  BY <1>1, <1>2, <1>3, <1>4, <1>5, <1>6, <1>7, <1>8, <1>9, <1>10, <1>11, <1>12, <1>13, <1>14, <1>15, <1>16 DEF IInv

\* An access of any page keeps it.
LEMMA HandlerInv ==
  ASSUME NEW p \in Pages, NEW m \in Mems, IInv, hma_handler(p, m)
  PROVE  IInv'
<1>1. CASE proc' = proc
  BY <1>1, AllocateInv
<1>2. CASE proc' # proc
  <2>1. UNCHANGED <<dom, frame_addr, free, pair, already_migrated, mig_count,
                    lru_list, remap_table, migVars, hotVars, arVars>>
    BY <1>2 DEF hma_handler
  <2>2. proc' = "oom"
    BY <1>2 DEF hma_handler
  <2>3. TypeOK' /\ FreeOk' /\ NoAliasing'
    BY <2>1, <2>2 DEF IInv, TypeOK, FreeOk, NoAliasing, Mapped, Loc, Active,
                      migVars, hotVars, arVars
  <2>4. RemapMatchesFlags' /\ RemapBounded' /\ RoomOk' /\ FreshOk' /\ RemapFrames'
    BY <2>1 DEF IInv, RemapMatchesFlags, RemapBounded, RoomOk, Room, FreshOk, RemapFrames,
                Moving, Active, migVars
  <2>5. PairSymmetric' /\ ArOk' /\ ArExclusive' /\ LruSound' /\ NextHotInSlow'
    BY <2>1 DEF IInv, PairSymmetric, ArOk, ArExclusive, ArPages, LruSound,
                NextHotInSlow, Moving, Active, migVars, hotVars, arVars
  <2>6. MigOk' /\ MappedOk' /\ NoExit'
    BY <2>1, <2>2 DEF IInv, MigOk, Active, MappedOk, NoExit, migVars
  <2> QED
    BY <2>3, <2>4, <2>5, <2>6 DEF IInv
<1> QED
  BY <1>1, <1>2


\* The counting of an access, which may change the next hot page or refresh the LRU
\* list, keeps it.
LEMMA CountKeeperInv ==
  ASSUME NEW p \in Pages, NEW m \in Mems,
         IInv, hma_onfly_count_keeper(p, m)
  PROVE  IInv'
<1> DEFINE count == IF mig_count[p] < MaxCount THEN mig_count[p] + 1 ELSE MaxCount
<1>a. /\ mig_count' = [mig_count EXCEPT ![p] = count]
      /\ lru_list' = IF UsesLru(p, m) THEN Touched(lru_list, p) ELSE lru_list
      /\ IF Hottest(p, count)
         THEN highest_l2m_hotness' = count /\ next_hot_pg_num' = p
         ELSE UNCHANGED hotVars
  BY DEF hma_onfly_count_keeper
<1>b. count \in 0..MaxCount
  BY SizeAssumption DEF IInv, TypeOK
<1>c. Moving' = Moving
  BY DEF hma_onfly_count_keeper, Moving, Active, migVars
<1>d. /\ Touched(lru_list, p) \in Seq(Pages)
      /\ NoRepeats(Touched(lru_list, p))
      /\ \A i \in 1..Len(Touched(lru_list, p)) :
           \/ Touched(lru_list, p)[i] = p
           \/ \E j \in 1..Len(lru_list) : Touched(lru_list, p)[i] = lru_list[j]
  <2>1. lru_list \in Seq(Pages) /\ NoRepeats(lru_list)
    BY DEF IInv, TypeOK, LruSound
  <2> QED
    BY <2>1, TouchedProps
<1> HIDE DEF count

<1>1. TypeOK'
  <2>1. lru_list' \in Seq(Pages)
    BY <1>a, <1>d DEF IInv, TypeOK
  <2>2. mig_count' \in [Pages -> 0..MaxCount]
    BY <1>a, <1>b DEF IInv, TypeOK
  <2>3. /\ highest_l2m_hotness' \in Thold..MaxCount
        /\ next_hot_pg_num' \in Pages \cup {NoPage}
    BY <1>a, <1>b, SizeAssumption DEF IInv, TypeOK, Hottest, hotVars
  <2> QED
    BY <2>1, <2>2, <2>3 DEF IInv, TypeOK, hma_onfly_count_keeper, migVars, arVars
<1>2. FreeOk'
  BY DEF IInv, hma_onfly_count_keeper, FreeOk, Mems, Frames, pageVars, migVars, hotVars, arVars
<1>3. NoAliasing'
  BY DEF IInv, hma_onfly_count_keeper, NoAliasing, Mapped, Loc, Active, Frames, pageVars, migVars, hotVars, arVars
<1>4. RemapMatchesFlags'
  BY DEF IInv, hma_onfly_count_keeper, RemapMatchesFlags, Moving, Active, Listed, OneEntryEach, pageVars, migVars, hotVars, arVars
<1>5. RemapBounded'
  BY DEF IInv, hma_onfly_count_keeper, RemapBounded, pageVars, migVars, hotVars, arVars
<1>6. RoomOk'
  BY DEF IInv, hma_onfly_count_keeper, RoomOk, Room, pageVars, migVars, hotVars, arVars
<1>7. FreshOk'
  BY DEF IInv, hma_onfly_count_keeper, FreshOk, Moving, Active, Listed, pageVars, migVars, hotVars, arVars
<1>8. RemapFrames'
  BY DEF IInv, hma_onfly_count_keeper, RemapFrames, Moving, Active, pageVars, migVars, hotVars, arVars
<1>9. PairSymmetric'
  BY DEF IInv, hma_onfly_count_keeper, PairSymmetric, pageVars, migVars, hotVars, arVars
<1>10. ArOk'
  BY DEF IInv, hma_onfly_count_keeper, ArOk, pageVars, migVars, hotVars, arVars
<1>11. ArExclusive'
  BY DEF IInv, hma_onfly_count_keeper, ArExclusive, ArPages, Moving, Active, Listed, pageVars, migVars, hotVars, arVars
<1>12. LruSound'
  <2>1. CASE UsesLru(p, m)
    <3>1. dom[p] = "l1m" /\ p \notin Moving
      BY <2>1 DEF UsesLru, IInv, MigOk, Moving
    <3>2. lru_list' = Touched(lru_list, p) /\ dom' = dom
      BY <1>a, <2>1 DEF hma_onfly_count_keeper
    <3>3. ASSUME NEW i \in 1..Len(lru_list')
          PROVE  dom'[lru_list'[i]] = "l1m" /\ lru_list'[i] \notin Moving'
      BY <1>c, <1>d, <3>1, <3>2 DEF IInv, LruSound
    <3> QED
      BY <1>d, <3>2, <3>3 DEF LruSound
  <2>2. CASE ~ UsesLru(p, m)
    BY <1>a, <1>c, <2>2 DEF IInv, LruSound, hma_onfly_count_keeper
  <2> QED BY <2>1, <2>2
<1>13. NextHotInSlow'
  <2>1. dom' = dom
    BY DEF hma_onfly_count_keeper
  <2>2. CASE Hottest(p, count)
    <3>1. dom[p] = "l2m" /\ p \notin Moving /\ next_hot_pg_num' = p
      BY <1>a, <2>2 DEF Hottest, Moving
    <3> QED
      BY <1>c, <2>1, <3>1 DEF NextHotInSlow
  <2>3. CASE ~ Hottest(p, count)
    BY <1>a, <1>c, <2>1, <2>3 DEF IInv, NextHotInSlow, hotVars
  <2> QED BY <2>2, <2>3
<1>14. MigOk'
  BY DEF IInv, hma_onfly_count_keeper, MigOk, Active, pageVars, migVars, hotVars, arVars
<1>15. MappedOk'
  BY DEF IInv, hma_onfly_count_keeper, MappedOk, pageVars, migVars, hotVars, arVars
<1>16. NoExit'
  BY DEF IInv, hma_onfly_count_keeper, NoExit, pageVars, migVars, hotVars, arVars
<1> QED
  BY <1>1, <1>2, <1>3, <1>4, <1>5, <1>6, <1>7, <1>8, <1>9, <1>10, <1>11, <1>12, <1>13, <1>14, <1>15, <1>16 DEF IInv

\* A selection that gives up for want of a victim keeps it.
LEMMA SelectNoVictimInv ==
  ASSUME IInv, SelectNoVictim
  PROVE  IInv'
<1> DEFINE r == Rotated(Rotated(lru_list))
<1>a. lru_list' = r /\ mig_status = 0 /\ mig_status' = 202
  BY DEF SelectNoVictim, SwapWanted, Selecting
<1>b. /\ r \in Seq(Pages) /\ NoRepeats(r)
      /\ \A i \in 1..Len(r) : \E j \in 1..Len(lru_list) : r[i] = lru_list[j]
  <2> DEFINE s == Rotated(lru_list)
  <2>1. lru_list \in Seq(Pages) /\ NoRepeats(lru_list) /\ Len(lru_list) >= 1
    BY DEF IInv, TypeOK, LruSound, SelectNoVictim
  <2>2. /\ s \in Seq(Pages) /\ Len(s) = Len(lru_list) /\ NoRepeats(s)
        /\ \A i \in 1..Len(s) : \E j \in 1..Len(lru_list) : s[i] = lru_list[j]
    BY <2>1, RotatedProps
  <2> HIDE DEF s
  <2>3. /\ Rotated(s) \in Seq(Pages) /\ NoRepeats(Rotated(s))
        /\ \A i \in 1..Len(Rotated(s)) : \E j \in 1..Len(s) : Rotated(s)[i] = s[j]
    BY <2>1, <2>2, RotatedProps
  <2> QED
    BY <2>2, <2>3 DEF s
<1> HIDE DEF r

<1>1. TypeOK'
  BY <1>a, <1>b DEF IInv, SelectNoVictim, TypeOK, MigStatus, pageVars, hotVars, arVars
<1>2. FreeOk'
  BY DEF IInv, SelectNoVictim, FreeOk, Mems, Frames, SwapWanted, Selecting, pageVars, migVars, hotVars, arVars
<1>3. NoAliasing'
  BY DEF IInv, SelectNoVictim, NoAliasing, Mapped, Loc, Active, Frames, SwapWanted, Selecting, pageVars, migVars, hotVars, arVars
<1>4. RemapMatchesFlags'
  BY DEF IInv, SelectNoVictim, RemapMatchesFlags, Moving, Active, Listed, OneEntryEach, SwapWanted, Selecting, pageVars, migVars, hotVars, arVars
<1>5. RemapBounded'
  BY DEF IInv, SelectNoVictim, RemapBounded, SwapWanted, Selecting, pageVars, migVars, hotVars, arVars
<1>6. RoomOk'
  BY DEF IInv, SelectNoVictim, RoomOk, Room, SwapWanted, Selecting, pageVars, migVars, hotVars, arVars
<1>7. FreshOk'
  BY <1>a DEF FreshOk
<1>8. RemapFrames'
  BY DEF IInv, SelectNoVictim, RemapFrames, Moving, Active, SwapWanted, Selecting, pageVars, migVars, hotVars, arVars
<1>9. PairSymmetric'
  BY DEF IInv, SelectNoVictim, PairSymmetric, SwapWanted, Selecting, pageVars, migVars, hotVars, arVars
<1>10. ArOk'
  BY DEF IInv, SelectNoVictim, ArOk, SwapWanted, Selecting, pageVars, migVars, hotVars, arVars
<1>11. ArExclusive'
  BY DEF IInv, SelectNoVictim, ArExclusive, ArPages, Moving, Active, Listed, SwapWanted, Selecting, pageVars, migVars, hotVars, arVars
<1>12. LruSound'
  <2>1. Moving = {} /\ Moving' = {} /\ dom' = dom
    BY <1>a DEF SelectNoVictim, Moving, Active, pageVars
  <2> QED
    BY <1>a, <1>b, <2>1 DEF IInv, LruSound
<1>13. NextHotInSlow'
  BY DEF IInv, SelectNoVictim, NextHotInSlow, Moving, Active, SwapWanted, Selecting, pageVars, migVars, hotVars, arVars
<1>14. MigOk'
  BY DEF IInv, SelectNoVictim, MigOk, Active, SwapWanted, Selecting, pageVars, migVars, hotVars, arVars
<1>15. MappedOk'
  BY DEF IInv, SelectNoVictim, MappedOk, SwapWanted, Selecting, pageVars, migVars, hotVars, arVars
<1>16. NoExit'
  BY DEF IInv, SelectNoVictim, NoExit, SwapWanted, Selecting, pageVars, migVars, hotVars, arVars
<1> QED
  BY <1>1, <1>2, <1>3, <1>4, <1>5, <1>6, <1>7, <1>8, <1>9, <1>10, <1>11, <1>12, <1>13, <1>14, <1>15, <1>16 DEF IInv

\* The selection of a page to move to a free frame keeps it.
LEMMA SelectOneWayInv ==
  ASSUME IInv, SelectOneWay
  PROVE  IInv'
<1> DEFINE p == next_hot_pg_num
<1>a. /\ mig_status = 0 /\ Room /\ p \in Pages /\ p \notin ArPages
      /\ ~ already_migrated[p] /\ dom[p] = "l2m" /\ proc = "run"
  BY DEF SelectOneWay, Selecting, MigTick, IInv, TypeOK
<1>b. /\ hot_pg_num' = p /\ hot_frame_addr' = frame_addr[p]
      /\ mig_count' = [mig_count EXCEPT ![p] = 0]
      /\ highest_l2m_hotness' = Thold /\ next_hot_pg_num' = NoPage
      /\ mig_status' = 203 /\ mig_type' = 1
      /\ pair' = [pair EXCEPT ![p] = NoPage]
      /\ already_migrated' = [already_migrated EXCEPT ![p] = TRUE]
      /\ UNCHANGED <<dom, frame_addr, lru_list, remap_table, arVars, proc>>
  BY DEF SelectOneWay, Selected
<1>c. PICK f \in free["l1m"] :
        /\ cold_pg_num' = Page0 /\ cold_frame_addr' = f
        /\ free' = [free EXCEPT !["l1m"] = @ \ {f}]
  BY DEF SelectOneWay, Taken
<1>d. /\ f \in L1Frames /\ Moving = {} /\ Moving' = {p} /\ Active'
      /\ pair[p] = NoPage /\ ~ Listed(remap_table, p)
  <2>1. free["l1m"] \subseteq L1Frames
    BY DEF IInv, FreeOk, Mems, Frames
  <2>2. pair[p] = NoPage /\ ~ Listed(remap_table, p)
    BY <1>a DEF IInv, PairSymmetric, RemapMatchesFlags
  <2> QED
    BY <1>a, <1>b, <2>1, <2>2 DEF Moving, Active
<1>e. /\ \A q \in Pages : already_migrated'[q] <=> already_migrated[q] \/ q = p
      /\ pair' = pair
  <2>1. pair' = pair
    BY <1>a, <1>b, <1>d DEF IInv, TypeOK
  <2> QED
    BY <1>a, <1>b, <2>1 DEF IInv, TypeOK
<1> HIDE DEF p

<1>1. TypeOK'
  <2>1. mig_count' \in [Pages -> 0..MaxCount] /\ highest_l2m_hotness' \in Thold..MaxCount
    <3>1. 0 \in 0..MaxCount /\ Thold \in Thold..MaxCount
      BY SizeAssumption
    <3>2. mig_count \in [Pages -> 0..MaxCount]
      BY DEF IInv, TypeOK
    <3> QED
      BY <1>b, <3>1, <3>2
  <2>2. free' \in [Mems -> SUBSET (L1Frames \cup L2Frames)]
    BY <1>c DEF IInv, TypeOK
  <2>3. already_migrated' \in [Pages -> BOOLEAN] /\ pair' \in [Pages -> Pages \cup {NoPage}]
    BY <1>b, <1>e DEF IInv, TypeOK
  <2>4. /\ hot_pg_num' \in Pages \cup {NoPage} /\ cold_pg_num' \in Pages \cup {NoPage}
        /\ hot_frame_addr' \in L1Frames \cup L2Frames \cup {NoFrame}
        /\ cold_frame_addr' \in L1Frames \cup L2Frames \cup {NoFrame}
    BY <1>a, <1>b, <1>c, <1>d, PageAssumption DEF IInv, TypeOK
  <2> QED
    BY <1>b, <2>1, <2>2, <2>3, <2>4 DEF IInv, TypeOK, MigStatus, arVars
<1>2. FreeOk'
  BY <1>c DEF IInv, TypeOK, FreeOk
<1>3. NoAliasing'
  <2>1. /\ \A m \in Mems : free'[m] \subseteq free[m]
        /\ f \in free["l1m"] /\ f \notin free'["l1m"]
    BY <1>c DEF IInv, TypeOK, Mems
  <2>2. /\ \A q, r \in Mapped' : Loc(q)' = Loc(r)' => q = r
        /\ \A q \in Mapped' : frame_addr'[q] \in Frames(dom'[q]) \ free'[dom'[q]]
    BY <1>b, <2>1 DEF IInv, TypeOK, NoAliasing, Mapped, Loc
  <2>3. \A q \in Mapped' : Loc(q)' # <<"l1m", f>>
    BY <1>b, <2>1 DEF IInv, NoAliasing, Mapped, Loc
  <2> QED
    BY <1>c, <1>d, <2>1, <2>2, <2>3 DEF NoAliasing
<1>4. RemapMatchesFlags'
  <2>1. \A q \in Pages : already_migrated[q] <=> Listed(remap_table, q)
    BY <1>a DEF IInv, RemapMatchesFlags
  <2>2. OneEntryEach(remap_table') /\ remap_table' = remap_table
    BY <1>b DEF IInv, RemapMatchesFlags
  <2> QED
    BY <1>b, <1>d, <1>e, <2>1, <2>2 DEF RemapMatchesFlags
<1>5. RemapBounded'
  BY <1>b DEF IInv, RemapBounded
<1>6. RoomOk'
  BY <1>a, <1>b DEF RoomOk, Room
<1>7. FreshOk'
  BY <1>b, <1>d DEF FreshOk
<1>8. RemapFrames'
  <2> SUFFICES ASSUME NEW i \in 1..Len(remap_table)
               PROVE  /\ ~ remap_table[i].busy
                      /\ remap_table[i].pg # p
                      /\ remap_table[i].fr = frame_addr[remap_table[i].pg]
    BY <1>b, <1>d DEF RemapFrames
  <2> QED
    BY <1>d DEF IInv, RemapFrames, Listed
<1>9. PairSymmetric'
  BY <1>e DEF IInv, TypeOK, PairSymmetric
<1>10. ArOk'
  BY <1>b, <1>e DEF IInv, ArOk, arVars
<1>11. ArExclusive'
  BY <1>a, <1>b, <1>d DEF IInv, ArExclusive, ArPages, arVars
<1>12. LruSound'
  <2>1. \A i \in 1..Len(lru_list) : lru_list[i] # p
    BY <1>a DEF IInv, LruSound
  <2> QED
    BY <1>b, <1>d, <2>1 DEF IInv, LruSound
<1>13. NextHotInSlow'
  BY <1>b DEF NextHotInSlow
<1>14. MigOk'
  <2>1. pair'[p] = NoPage /\ already_migrated'[p] /\ p # NoPage
    BY <1>a, <1>d, <1>e, PageAssumption
  <2> QED
    BY <1>a, <1>b, <1>c, <1>d, <2>1 DEF MigOk
<1>15. MappedOk'
  BY <1>a, <1>b, <1>e DEF IInv, MappedOk
<1>16. NoExit'
  BY <1>b DEF IInv, NoExit
<1> QED
  BY <1>1, <1>2, <1>3, <1>4, <1>5, <1>6, <1>7, <1>8, <1>9, <1>10, <1>11, <1>12, <1>13, <1>14, <1>15, <1>16 DEF IInv

\* The selection of a page and its victim keeps it.
LEMMA SelectTwoWayInv ==
  ASSUME IInv, SelectTwoWay
  PROVE  IInv'
<1> DEFINE p == next_hot_pg_num
           rest == IF BadVictim(Head(lru_list)) THEN Rotated(lru_list) ELSE lru_list
           q == Head(rest)
<1>a. /\ mig_status = 0 /\ Room /\ p \in Pages /\ p \notin ArPages
      /\ ~ already_migrated[p] /\ dom[p] = "l2m" /\ proc = "run"
      /\ q \notin ArPages /\ ~ already_migrated[q] /\ Len(lru_list) >= 2
  BY DEF SelectTwoWay, SwapWanted, Selecting, MigTick, IInv, TypeOK, BadVictim
<1>b. /\ hot_pg_num' = p /\ hot_frame_addr' = frame_addr[p]
      /\ mig_count' = [mig_count EXCEPT ![p] = 0]
      /\ highest_l2m_hotness' = Thold /\ next_hot_pg_num' = NoPage
      /\ mig_status' = 203 /\ mig_type' = 2
      /\ cold_pg_num' = q /\ cold_frame_addr' = frame_addr[q]
      /\ pair' = [pair EXCEPT ![p] = q, ![q] = p]
      /\ already_migrated' = [already_migrated EXCEPT ![p] = TRUE, ![q] = TRUE]
      /\ lru_list' = Tail(rest)
      /\ UNCHANGED <<dom, frame_addr, free, remap_table, arVars, proc>>
  BY DEF SelectTwoWay, Selected
<1>r. /\ rest \in Seq(Pages) /\ NoRepeats(rest) /\ Len(rest) >= 1
      /\ \A i \in 1..Len(rest) : \E j \in 1..Len(lru_list) : rest[i] = lru_list[j]
  <2>1. lru_list \in Seq(Pages) /\ NoRepeats(lru_list) /\ Len(lru_list) >= 1
        /\ Len(lru_list) \in Nat
    BY <1>a DEF IInv, TypeOK, LruSound
  <2>2. /\ Rotated(lru_list) \in Seq(Pages) /\ Len(Rotated(lru_list)) = Len(lru_list)
        /\ NoRepeats(Rotated(lru_list))
        /\ \A i \in 1..Len(Rotated(lru_list)) :
             \E j \in 1..Len(lru_list) : Rotated(lru_list)[i] = lru_list[j]
    BY <2>1, RotatedProps
  <2>3. CASE BadVictim(Head(lru_list))
    BY <2>1, <2>2, <2>3
  <2>4. CASE ~ BadVictim(Head(lru_list))
    BY <2>1, <2>4
  <2> QED BY <2>3, <2>4
<1> HIDE DEF rest
<1>t. /\ Tail(rest) \in Seq(Pages) /\ NoRepeats(Tail(rest))
      /\ q \in Pages /\ q = rest[1] /\ 1 \in 1..Len(rest)
      /\ \A i \in 1..Len(Tail(rest)) :
           Tail(rest)[i] # q /\ \E j \in 1..Len(lru_list) : Tail(rest)[i] = lru_list[j]
  <2>1. /\ Tail(rest) \in Seq(Pages) /\ q \in Pages /\ q = rest[1]
        /\ Len(Tail(rest)) = Len(rest) - 1 /\ NoRepeats(Tail(rest))
        /\ \A i \in 1..Len(Tail(rest)) : Tail(rest)[i] # q /\ i + 1 \in 1..Len(rest)
                                          /\ Tail(rest)[i] = rest[i + 1]
    BY <1>r, TailProps
  <2>2. Len(rest) \in Nat
    BY <1>r
  <2>3. \A i \in 1..Len(Tail(rest)) :
           \E j \in 1..Len(lru_list) : Tail(rest)[i] = lru_list[j]
    <3> TAKE i \in 1..Len(Tail(rest))
    <3>1. i + 1 \in 1..Len(rest) /\ Tail(rest)[i] = rest[i + 1]
      BY <2>1
    <3>2. \E j \in 1..Len(lru_list) : rest[i + 1] = lru_list[j]
      BY <1>r, <3>1
    <3> QED
      BY <3>1, <3>2
  <2> QED
    BY <1>r, <2>1, <2>2, <2>3
<1> HIDE DEF q
<1>c. /\ dom[q] = "l1m" /\ p # q /\ p # NoPage /\ q # NoPage
      /\ \A i \in 1..Len(Tail(rest)) : dom[Tail(rest)[i]] = "l1m"
  <2>1. dom[q] = "l1m"
    BY <1>r, <1>t DEF IInv, LruSound
  <2>2. \A i \in 1..Len(Tail(rest)) : dom[Tail(rest)[i]] = "l1m"
    BY <1>t DEF IInv, LruSound
  <2> QED
    BY <1>a, <1>t, <2>1, <2>2, PageAssumption
<1>d. /\ Moving = {} /\ Moving' = {p, q} /\ Active'
      /\ pair[p] = NoPage /\ ~ Listed(remap_table, p)
      /\ pair[q] = NoPage /\ ~ Listed(remap_table, q)
  <2>1. pair[p] = NoPage /\ ~ Listed(remap_table, p)
    BY <1>a DEF IInv, PairSymmetric, RemapMatchesFlags
  <2>2. pair[q] = NoPage /\ ~ Listed(remap_table, q)
    BY <1>a, <1>t DEF IInv, PairSymmetric, RemapMatchesFlags
  <2> QED
    BY <1>a, <1>b, <2>1, <2>2 DEF Moving, Active
<1>e. /\ \A r \in Pages : already_migrated'[r] <=> already_migrated[r] \/ r \in {p, q}
      /\ \A r \in Pages : pair'[r] = IF r = p THEN q ELSE IF r = q THEN p ELSE pair[r]
  BY <1>a, <1>b, <1>c, <1>t DEF IInv, TypeOK
<1> HIDE DEF p

<1>1. TypeOK'
  <2>1. mig_count' \in [Pages -> 0..MaxCount] /\ highest_l2m_hotness' \in Thold..MaxCount
    <3>1. 0 \in 0..MaxCount /\ Thold \in Thold..MaxCount
      BY SizeAssumption
    <3>2. mig_count \in [Pages -> 0..MaxCount]
      BY DEF IInv, TypeOK
    <3> QED
      BY <1>b, <3>1, <3>2
  <2>2. already_migrated' \in [Pages -> BOOLEAN] /\ pair' \in [Pages -> Pages \cup {NoPage}]
    BY <1>a, <1>b, <1>t DEF IInv, TypeOK
  <2>3. /\ hot_pg_num' \in Pages \cup {NoPage} /\ cold_pg_num' \in Pages \cup {NoPage}
        /\ hot_frame_addr' \in L1Frames \cup L2Frames \cup {NoFrame}
        /\ cold_frame_addr' \in L1Frames \cup L2Frames \cup {NoFrame}
    BY <1>a, <1>b, <1>t DEF IInv, TypeOK
  <2>4. lru_list' \in Seq(Pages)
    BY <1>b, <1>t
  <2>5. /\ UNCHANGED <<dom, frame_addr, free, remap_table, arVars, proc>>
        /\ mig_status' = 203 /\ mig_type' = 2 /\ next_hot_pg_num' = NoPage
    BY <1>b
  <2> QED
    BY <2>1, <2>2, <2>3, <2>4, <2>5, SMTT(60) DEF IInv, TypeOK, MigStatus, arVars
<1>2. FreeOk'
  BY <1>b DEF IInv, FreeOk
<1>3. NoAliasing'
  BY <1>b DEF IInv, NoAliasing, Mapped, Loc
<1>4. RemapMatchesFlags'
  <2>1. \A r \in Pages : already_migrated[r] <=> Listed(remap_table, r)
    BY <1>a DEF IInv, RemapMatchesFlags
  <2>2. OneEntryEach(remap_table') /\ remap_table' = remap_table
    BY <1>b DEF IInv, RemapMatchesFlags
  <2> QED
    BY <1>b, <1>d, <1>e, <2>1, <2>2 DEF RemapMatchesFlags
<1>5. RemapBounded'
  BY <1>b DEF IInv, RemapBounded
<1>6. RoomOk'
  BY <1>a, <1>b DEF RoomOk, Room
<1>7. FreshOk'
  BY <1>b, <1>d DEF FreshOk
<1>8. RemapFrames'
  <2> SUFFICES ASSUME NEW i \in 1..Len(remap_table)
               PROVE  /\ ~ remap_table[i].busy
                      /\ remap_table[i].pg \notin {p, q}
                      /\ remap_table[i].fr = frame_addr[remap_table[i].pg]
    BY <1>b, <1>d DEF RemapFrames
  <2> QED
    BY <1>d DEF IInv, RemapFrames, Listed
<1>9. PairSymmetric'
  <2> SUFFICES ASSUME NEW r \in Pages, pair'[r] # NoPage
               PROVE  /\ pair'[r] # r /\ pair'[pair'[r]] = r
                      /\ already_migrated'[r] /\ already_migrated'[pair'[r]]
    BY DEF PairSymmetric
  <2>1. CASE r \in {p, q}
    BY <1>a, <1>c, <1>e, <1>t, <2>1
  <2>2. CASE r \notin {p, q}
    <3>1. /\ pair[r] \in Pages /\ pair[r] # r /\ pair[pair[r]] = r
          /\ already_migrated[r] /\ already_migrated[pair[r]] /\ pair'[r] = pair[r]
      BY <1>e, <2>2 DEF IInv, PairSymmetric, TypeOK
    <3>2. pair[r] \notin {p, q}
      BY <1>a, <3>1
    <3> QED BY <1>e, <2>2, <3>1, <3>2
  <2> QED BY <2>1, <2>2
<1>10. ArOk'
  <2>1. ar_page_1 # NoPage => /\ ar_page_1 \in Pages /\ ar_page_1 \notin {p, q}
                             /\ pair'[ar_page_1] = pair[ar_page_1]
    BY <1>a, <1>e DEF IInv, TypeOK, ArPages
  <2>2. UNCHANGED arVars
    BY <1>b
  <2> QED
    BY <2>1, <2>2 DEF IInv, ArOk, arVars
<1>11. ArExclusive'
  <2>1. ArPages' = ArPages /\ remap_table' = remap_table
    BY <1>b DEF ArPages, arVars
  <2> QED
    BY <1>a, <1>d, <2>1 DEF IInv, ArExclusive
<1>12. LruSound'
  BY <1>a, <1>b, <1>c, <1>d, <1>t DEF LruSound
<1>13. NextHotInSlow'
  BY <1>b DEF NextHotInSlow
<1>14. MigOk'
  <2>1. pair'[p] = q /\ already_migrated'[p]
    BY <1>a, <1>e
  <2> QED
    BY <1>a, <1>b, <1>c, <1>d, <1>t, <2>1 DEF MigOk
<1>15. MappedOk'
  BY <1>a, <1>b, <1>c, <1>e, <1>t DEF IInv, MappedOk
<1>16. NoExit'
  BY <1>b DEF IInv, NoExit
<1> QED
  BY <1>1, <1>2, <1>3, <1>4, <1>5, <1>6, <1>7, <1>8, <1>9, <1>10, <1>11, <1>12, <1>13, <1>14, <1>15, <1>16 DEF IInv

\* The start of the copying, which enters the pages in the remap table, keeps it.
LEMMA FillInv ==
  ASSUME NEW pending \in BOOLEAN,
         IInv, onfly_fill_mig_stage_q(pending)
  PROVE  IInv'
<1> DEFINE p == hot_pg_num
           q == cold_pg_num
           hotEntry == [pg |-> p, fr |-> cold_frame_addr, busy |-> TRUE]
           coldEntry == [pg |-> q, fr |-> hot_frame_addr, busy |-> TRUE]
           t1 == Append(remap_table, hotEntry)
           t2 == Append(t1, coldEntry)
           t == IF mig_type = 2 THEN t2 ELSE t1
<1>a. /\ Active /\ p \in Moving /\ p \in Pages /\ dom[p] = "l2m"
      /\ ~ Listed(remap_table, p) /\ mig_status = 100 /\ Room
  <2>1. mig_status = 100 /\ Active /\ p \in Moving
    BY DEF onfly_fill_mig_stage_q, Active, Moving
  <2> QED
    BY <2>1 DEF IInv, TypeOK, MigOk, RoomOk, FreshOk
<1>b. mig_type = 2 => /\ q \in Moving /\ q \in Pages /\ q # p /\ dom[q] = "l1m"
                      /\ ~ Listed(remap_table, q)
  <2> SUFFICES ASSUME mig_type = 2
               PROVE  /\ q \in Moving /\ q \in Pages /\ q # p /\ dom[q] = "l1m"
                      /\ ~ Listed(remap_table, q)
    OBVIOUS
  <2>1. q \in Moving
    BY <1>a DEF Moving
  <2>2. q \in Pages /\ dom[q] = "l1m"
    BY <1>a DEF IInv, MigOk
  <2> QED
    BY <1>a, <2>1, <2>2 DEF IInv, FreshOk
<1>c. Moving = IF mig_type = 2 THEN {p, q} ELSE {p}
  BY <1>a DEF Moving
<1>d. hotEntry \in Entries /\ (mig_type = 2 => coldEntry \in Entries)
  <2>1. \A r \in Pages : dom[r] # "none" => frame_addr[r] \in L1Frames \cup L2Frames
    BY DEF IInv, NoAliasing, Mapped, Frames
  <2>2. hot_frame_addr \in L1Frames \cup L2Frames
    BY <1>a, <2>1 DEF IInv, MigOk
  <2>3. cold_frame_addr \in L1Frames \cup L2Frames
    <3>1. CASE mig_type = 1
      BY <1>a, <3>1 DEF IInv, NoAliasing
    <3>2. CASE mig_type = 2
      BY <1>a, <1>b, <2>1, <3>2 DEF IInv, MigOk
    <3> QED
      BY <1>a, <3>1, <3>2 DEF IInv, MigOk
  <2> QED
    BY <1>a, <1>b, <2>2, <2>3 DEF Entries
<1>t. /\ t1 \in Seq(Entries) /\ OneEntryEach(t1)
      /\ \A r : Listed(t1, r) <=> Listed(remap_table, r) \/ r = p
      /\ \A i \in 1..Len(t1) : t1[i] = IF i <= Len(remap_table) THEN remap_table[i]
                                                               ELSE hotEntry
      /\ Len(t1) = Len(remap_table) + 1
  <2>1. remap_table \in Seq(Entries) /\ OneEntryEach(remap_table)
    BY DEF IInv, TypeOK, RemapMatchesFlags
  <2>2. hotEntry.pg = p
    OBVIOUS
  <2> HIDE DEF hotEntry, p
  <2> QED
    BY <1>a, <1>d, <2>1, <2>2, AppendedProps
<1> HIDE DEF t1
<1>u. mig_type = 2 =>
      /\ t2 \in Seq(Entries) /\ OneEntryEach(t2)
      /\ \A r : Listed(t2, r) <=> Listed(t1, r) \/ r = q
      /\ \A i \in 1..Len(t2) : t2[i] = IF i <= Len(t1) THEN t1[i] ELSE coldEntry
      /\ Len(t2) = Len(t1) + 1
  <2>1. coldEntry.pg = q
    OBVIOUS
  <2>2. mig_type = 2 => ~ Listed(t1, q)
    BY <1>b, <1>t
  <2> HIDE DEF coldEntry, p, q
  <2> QED
    BY <1>d, <1>t, <2>1, <2>2, AppendedProps
<1> HIDE DEF t2
<1>v. /\ remap_table' = t /\ UNCHANGED proc
      /\ mig_status' \in {1, 2}
  <2>1. ~ (Listed(remap_table, p) \/ (mig_type = 2 /\ Listed(t1, q)))
    BY <1>a, <1>b, <1>t
  <2> QED
    BY <2>1 DEF onfly_fill_mig_stage_q, t1, t2
<1>w. /\ t \in Seq(Entries) /\ OneEntryEach(t)
      /\ \A r : Listed(t, r) <=> Listed(remap_table, r) \/ r \in Moving
      /\ Len(t) <= Len(remap_table) + 2 /\ Len(t) \in Nat
  <2>1. Len(remap_table) \in Nat
    BY DEF IInv, TypeOK
  <2>2. CASE mig_type = 2
    BY <1>c, <1>t, <1>u, <2>1, <2>2
  <2>3. CASE mig_type # 2
    BY <1>c, <1>t, <2>1, <2>3
  <2> QED BY <2>2, <2>3
<1>x. ASSUME NEW i \in 1..Len(t)
      PROVE  \/ \E j \in 1..Len(remap_table) : t[i] = remap_table[j]
             \/ t[i] = hotEntry
             \/ mig_type = 2 /\ t[i] = coldEntry
  <2>1. Len(remap_table) \in Nat
    BY DEF IInv, TypeOK
  <2>2. ASSUME NEW k \in 1..Len(t1)
        PROVE  \/ \E j \in 1..Len(remap_table) : t1[k] = remap_table[j]
               \/ t1[k] = hotEntry
    BY <1>t, <2>1, <2>2
  <2>3. CASE mig_type = 2
    <3>1. CASE i <= Len(t1)
      <4>1. i \in 1..Len(t1)
        BY <1>t, <1>w, <2>1, <3>1
      <4>2. t[i] = t1[i]
        BY <1>u, <2>3, <3>1
      <4> QED BY <2>2, <4>1, <4>2
    <3>2. CASE ~ (i <= Len(t1))
      BY <1>u, <2>3, <3>2
    <3> QED BY <3>1, <3>2
  <2>4. CASE mig_type # 2
    BY <2>2, <2>4
  <2> QED BY <2>3, <2>4
<1>y. /\ Moving' = Moving /\ Active /\ Active'
      /\ UNCHANGED <<pageVars, lru_list, mig_type, hot_pg_num, hot_frame_addr,
                     cold_pg_num, cold_frame_addr, hotVars, arVars>>
  BY <1>a, <1>v DEF onfly_fill_mig_stage_q, Moving, Active
<1> HIDE DEF t

<1>1. TypeOK'
  BY <1>v, <1>w, <1>y DEF IInv, TypeOK, MigStatus, pageVars, hotVars, arVars
<1>2. FreeOk'
  BY <1>y DEF IInv, FreeOk, pageVars
<1>3. NoAliasing'
  BY <1>y DEF IInv, NoAliasing, Mapped, Loc, pageVars
<1>4. RemapMatchesFlags'
  <2> SUFFICES ASSUME NEW r \in Pages
               PROVE  already_migrated[r] <=> Listed(t, r)
    BY <1>v, <1>w, <1>y DEF RemapMatchesFlags, pageVars
  <2> QED
    BY <1>a, <1>w DEF IInv, RemapMatchesFlags
<1>5. RemapBounded'
  BY <1>a, <1>v, <1>w, SizeAssumption DEF IInv, TypeOK, RemapBounded, Room
<1>6. RoomOk'
  BY <1>v DEF RoomOk
<1>7. FreshOk'
  BY <1>v DEF FreshOk
<1>8. RemapFrames'
  <2> SUFFICES ASSUME NEW i \in 1..Len(t)
               PROVE  LET e == t[i]
                      IN IF e.busy
                         THEN /\ e.pg \in Moving
                              /\ e.fr = IF e.pg = hot_pg_num THEN cold_frame_addr
                                                             ELSE hot_frame_addr
                         ELSE e.pg \notin Moving /\ e.fr = frame_addr[e.pg]
    BY <1>v, <1>y DEF RemapFrames, pageVars
  <2>1. CASE \E j \in 1..Len(remap_table) : t[i] = remap_table[j]
    BY <2>1 DEF IInv, RemapFrames
  <2>2. CASE t[i] = hotEntry
    BY <1>a, <2>2
  <2>3. CASE mig_type = 2 /\ t[i] = coldEntry
    BY <1>b, <2>3
  <2> QED BY <1>x, <2>1, <2>2, <2>3
<1>9. PairSymmetric'
  BY <1>y DEF IInv, PairSymmetric, pageVars
<1>10. ArOk'
  BY <1>y DEF IInv, ArOk, pageVars, arVars
<1>11. ArExclusive'
  BY <1>v, <1>w, <1>y DEF IInv, ArExclusive, ArPages, arVars
<1>12. LruSound'
  BY <1>y DEF IInv, LruSound, pageVars
<1>13. NextHotInSlow'
  BY <1>y DEF IInv, NextHotInSlow, pageVars, hotVars
<1>14. MigOk'
  BY <1>y DEF IInv, MigOk, pageVars
<1>15. MappedOk'
  BY <1>y DEF IInv, MappedOk, pageVars
<1>16. NoExit'
  BY <1>v DEF IInv, NoExit
<1> QED
  BY <1>1, <1>2, <1>3, <1>4, <1>5, <1>6, <1>7, <1>8, <1>9, <1>10, <1>11, <1>12, <1>13, <1>14, <1>15, <1>16 DEF IInv

\* The end of a migration, which gives the pages their new frames, keeps it.
LEMMA CompletionInv ==
  ASSUME IInv, onfly_mig_completion
  PROVE  IInv'
<1> DEFINE p == hot_pg_num
           q == cold_pg_num
           swap == mig_type = 2
           t == Settled(remap_table, p, q, frame_addr')
<1>a. /\ Active /\ mig_status = 5 /\ p \in Pages /\ dom[p] = "l2m" /\ p \in Moving
      /\ hot_frame_addr = frame_addr[p] /\ mig_type \in {1, 2}
      /\ swap => /\ q \in Pages /\ q # p /\ dom[q] = "l1m" /\ q \in Moving
                 /\ cold_frame_addr = frame_addr[q]
      /\ Moving \subseteq {p, q} /\ q \in Pages /\ (~ swap => Moving = {p})
  <2>1. mig_status = 5 /\ Active
    BY DEF onfly_mig_completion, Active
  <2> QED
    BY <2>1, PageAssumption DEF IInv, TypeOK, MigOk, Moving
<1>b. /\ dom' = IF swap THEN [dom EXCEPT ![p] = "l1m", ![q] = "l2m"]
                         ELSE [dom EXCEPT ![p] = "l1m"]
      /\ frame_addr' = Moved(p, q, swap)
      /\ mig_count' = IF swap THEN [mig_count EXCEPT ![p] = 0, ![q] = 0]
                              ELSE [mig_count EXCEPT ![p] = 0]
      /\ lru_list' = Touched(lru_list, p)
      /\ remap_table' = t
      /\ hot_pg_num' = NoPage /\ hot_frame_addr' = NoFrame
      /\ cold_pg_num' = NoPage /\ cold_frame_addr' = NoFrame
      /\ mig_status' = 0
      /\ UNCHANGED <<mig_type, proc, pair, already_migrated, free, hotVars, arVars>>
  BY <1>a DEF onfly_mig_completion
<1>c. /\ \A r \in Pages : dom'[r] = IF r = p THEN "l1m"
                                   ELSE IF swap /\ r = q THEN "l2m" ELSE dom[r]
      /\ \A r \in Pages : frame_addr'[r] =
           IF r = p THEN cold_frame_addr
           ELSE IF swap /\ r = q THEN hot_frame_addr ELSE frame_addr[r]
  <2>1. CASE swap
    BY <1>a, <1>b, <2>1 DEF Moved, IInv, TypeOK
  <2>2. CASE ~ swap
    BY <1>a, <1>b, <2>2 DEF Moved, IInv, TypeOK
  <2> QED BY <2>1, <2>2
<1>d. /\ dom' \in [Pages -> Mems \cup {"none"}]
      /\ frame_addr' \in [Pages -> L1Frames \cup L2Frames \cup {NoFrame}]
  BY <1>a, <1>b DEF Moved, IInv, TypeOK, Mems
<1>e. /\ cold_frame_addr \in L1Frames /\ cold_frame_addr \notin free["l1m"]
      /\ \A r \in Pages : dom[r] = "l1m" /\ ~ (swap /\ r = q) =>
                             frame_addr[r] # cold_frame_addr
      /\ hot_frame_addr \in L2Frames /\ hot_frame_addr \notin free["l2m"]
      /\ \A r \in Pages : dom[r] = "l2m" /\ r # p => frame_addr[r] # hot_frame_addr
  <2>1. /\ \A r, s \in Pages : dom[r] # "none" /\ dom[r] = dom[s]
                                /\ frame_addr[r] = frame_addr[s] => r = s
        /\ \A r \in Pages : dom[r] # "none" => /\ frame_addr[r] \in Frames(dom[r])
                                               /\ frame_addr[r] \notin free[dom[r]]
    BY DEF IInv, NoAliasing, Mapped, Loc
  <2>2. CASE swap
    BY <1>a, <2>1, <2>2 DEF Frames
  <2>3. CASE ~ swap
    <3>1. /\ cold_frame_addr \in L1Frames /\ cold_frame_addr \notin free["l1m"]
          /\ \A r \in Pages : dom[r] = "l1m" => frame_addr[r] # cold_frame_addr
      BY <1>a, <2>3 DEF IInv, NoAliasing, Mapped, Loc
    <3> QED
      BY <1>a, <2>1, <2>3, <3>1 DEF Frames
  <2> QED BY <2>2, <2>3
<1>f. Moving' = {} /\ ~ Active'
  BY <1>b DEF Moving, Active
<1>g. \A i \in 1..Len(remap_table) :
        /\ remap_table[i] \in Entries /\ remap_table[i].pg \in Pages
        /\ Listed(remap_table, remap_table[i].pg)
        /\ dom[remap_table[i].pg] # "none"
  <2> TAKE i \in 1..Len(remap_table)
  <2>1. remap_table[i] \in Entries
    BY DEF IInv, TypeOK
  <2>2. remap_table[i].pg \in Pages /\ Listed(remap_table, remap_table[i].pg)
    BY <2>1 DEF Entries, Listed
  <2> QED
    BY <2>1, <2>2 DEF IInv, RemapMatchesFlags, MappedOk
<1>h. /\ t \in Seq(Entries) /\ Len(t) = Len(remap_table)
      /\ \A i \in 1..Len(remap_table) :
           /\ t[i].pg = remap_table[i].pg
           /\ t[i].busy = IF remap_table[i].pg \in {p, q} THEN FALSE
                          ELSE remap_table[i].busy
           /\ t[i].fr = IF remap_table[i].pg \in {p, q}
                        THEN frame_addr'[remap_table[i].pg] ELSE remap_table[i].fr
  <2>1. remap_table \in Seq(Entries)
    BY DEF IInv, TypeOK
  <2>2. ASSUME NEW i \in 1..Len(remap_table)
        PROVE  frame_addr'[remap_table[i].pg] \in L1Frames \cup L2Frames
    <3>1. frame_addr[remap_table[i].pg] \in L1Frames \cup L2Frames
      BY <1>g DEF IInv, NoAliasing, Mapped, Frames
    <3> QED
      BY <1>c, <1>e, <1>g, <3>1
  <2> DEFINE fr == frame_addr'
  <2>3. \A i \in 1..Len(remap_table) : fr[remap_table[i].pg] \in L1Frames \cup L2Frames
    BY <2>2
  <2>4. t = Settled(remap_table, p, q, fr)
    OBVIOUS
  <2>5. /\ Settled(remap_table, p, q, fr) \in Seq(Entries)
        /\ Len(Settled(remap_table, p, q, fr)) = Len(remap_table)
        /\ \A i \in 1..Len(remap_table) :
             /\ Settled(remap_table, p, q, fr)[i].pg = remap_table[i].pg
             /\ Settled(remap_table, p, q, fr)[i].busy =
                  IF remap_table[i].pg \in {p, q} THEN FALSE ELSE remap_table[i].busy
             /\ Settled(remap_table, p, q, fr)[i].fr =
                  IF remap_table[i].pg \in {p, q} THEN fr[remap_table[i].pg]
                  ELSE remap_table[i].fr
    <3> DEFINE e(i) == IF remap_table[i].pg \in {p, q}
                       THEN [remap_table[i] EXCEPT !.busy = FALSE, !.fr = fr[remap_table[i].pg]] ELSE remap_table[i]
               r == [i \in 1..Len(remap_table) |-> e(i)]
    <3> HIDE DEF fr, t, p, q
    <3>1. ASSUME NEW i \in 1..Len(remap_table)
          PROVE  /\ e(i) \in Entries
                 /\ e(i).pg = remap_table[i].pg
                 /\ e(i).busy = IF remap_table[i].pg \in {p, q} THEN FALSE ELSE remap_table[i].busy
                 /\ e(i).fr = IF remap_table[i].pg \in {p, q} THEN fr[remap_table[i].pg] ELSE remap_table[i].fr
      <4>1. remap_table[i] \in Entries
        BY <2>1
      <4>2. CASE remap_table[i].pg \in {p, q}
        <5> DEFINE f == fr[remap_table[i].pg]
        <5>1. f \in L1Frames \cup L2Frames
          BY <2>3
        <5> HIDE DEF f
        <5>2. /\ [remap_table[i] EXCEPT !.busy = FALSE, !.fr = f] \in Entries
              /\ [remap_table[i] EXCEPT !.busy = FALSE, !.fr = f].pg = remap_table[i].pg
              /\ [remap_table[i] EXCEPT !.busy = FALSE, !.fr = f].busy = FALSE
              /\ [remap_table[i] EXCEPT !.busy = FALSE, !.fr = f].fr = f
          BY <4>1, <5>1 DEF Entries
        <5> QED
          BY <4>2, <5>2 DEF f
      <4>3. CASE remap_table[i].pg \notin {p, q}
        BY <4>1, <4>3
      <4> QED BY <4>2, <4>3
    <3>2. Settled(remap_table, p, q, fr) = r
      BY DEF Settled
    <3> HIDE DEF e
    <3>3. r \in Seq(Entries) /\ Len(r) = Len(remap_table) /\ \A i \in 1..Len(remap_table) : r[i] = e(i)
      <4>1. Len(remap_table) \in Nat
        BY <2>1
      <4>2. \A i \in 1..Len(remap_table) : e(i) \in Entries
        BY <3>1
      <4>3. r \in [1..Len(remap_table) -> Entries]
        BY <4>2
      <4>4. r \in Seq(Entries)
        BY <4>1, <4>3, SeqDef
      <4>5. Len(r) \in Nat /\ 1..Len(r) = 1..Len(remap_table)
        BY <4>4, LenProperties
      <4>6. Len(r) = Len(remap_table)
        <5> HIDE DEF r
        <5> QED BY <4>1, <4>5
      <4> QED
        BY <4>4, <4>6
    <3> QED
      BY <3>1, <3>2, <3>3
  <2> QED
    BY <2>4, <2>5 DEF fr
<1> HIDE DEF t
<1>i. /\ Touched(lru_list, p) \in Seq(Pages)
      /\ NoRepeats(Touched(lru_list, p))
      /\ \A i \in 1..Len(Touched(lru_list, p)) :
           \/ Touched(lru_list, p)[i] = p
           \/ \E j \in 1..Len(lru_list) : Touched(lru_list, p)[i] = lru_list[j]
  <2>1. lru_list \in Seq(Pages) /\ NoRepeats(lru_list)
    BY DEF IInv, TypeOK, LruSound
  <2> QED
    BY <1>a, <2>1, TouchedProps
<1>j. \A r : Listed(t, r) <=> Listed(remap_table, r)
  BY <1>h DEF Listed
<1> HIDE DEF p, q, swap

<1>1. TypeOK'
  <2>1. mig_count' \in [Pages -> 0..MaxCount]
    <3>1. 0 \in 0..MaxCount
      BY SizeAssumption
    <3>2. mig_count \in [Pages -> 0..MaxCount]
      BY DEF IInv, TypeOK
    <3> QED
      BY <1>b, <3>1, <3>2
  <2>2. lru_list' \in Seq(Pages) /\ remap_table' \in Seq(Entries)
    BY <1>b, <1>h, <1>i
  <2>3. /\ hot_pg_num' = NoPage /\ hot_frame_addr' = NoFrame
        /\ cold_pg_num' = NoPage /\ cold_frame_addr' = NoFrame /\ mig_status' = 0
        /\ UNCHANGED <<mig_type, proc, pair, already_migrated, free, hotVars, arVars>>
    BY <1>b
  <2> QED
    BY <1>d, <2>1, <2>2, <2>3 DEF IInv, TypeOK, MigStatus, hotVars, arVars
<1>2. FreeOk'
  BY <1>b DEF IInv, FreeOk
<1>3. NoAliasing'
  <2>1. free' = free
    BY <1>b
  <2>2. \A r, s \in Mapped' : Loc(r)' = Loc(s)' => r = s
    <3> SUFFICES ASSUME NEW r \in Pages, NEW s \in Pages, r # s,
                        dom'[r] # "none", dom'[s] # "none",
                        dom'[r] = dom'[s], frame_addr'[r] = frame_addr'[s]
                 PROVE  FALSE
      BY DEF Mapped, Loc
    <3>1. \A x, y \in Pages : dom[x] # "none" /\ dom[x] = dom[y]
                               /\ frame_addr[x] = frame_addr[y] => x = y
      BY DEF IInv, NoAliasing, Mapped, Loc
    <3>2. CASE r = p \/ s = p
      BY <1>a, <1>c, <1>e, <3>2 DEF p, q, swap
    <3>3. CASE r # p /\ s # p /\ swap /\ (r = q \/ s = q)
      BY <1>a, <1>c, <1>e, <3>3 DEF p, q, swap
    <3>4. CASE r # p /\ s # p /\ ~ (swap /\ (r = q \/ s = q))
      BY <1>c, <3>1, <3>4
    <3> QED BY <3>2, <3>3, <3>4
  <2>3. \A r \in Mapped' : frame_addr'[r] \in Frames(dom'[r]) \ free[dom'[r]]
    <3> SUFFICES ASSUME NEW r \in Pages, dom'[r] # "none"
                 PROVE  /\ frame_addr'[r] \in Frames(dom'[r])
                        /\ frame_addr'[r] \notin free[dom'[r]]
      BY DEF Mapped
    <3>1. CASE r = p
      BY <1>c, <1>e, <3>1 DEF Frames
    <3>2. CASE r # p /\ swap /\ r = q
      BY <1>c, <1>e, <3>2 DEF Frames
    <3>3. CASE r # p /\ ~ (swap /\ r = q)
      BY <1>c, <3>3 DEF IInv, NoAliasing, Mapped
    <3> QED BY <3>1, <3>2, <3>3
  <2> QED
    BY <1>f, <2>1, <2>2, <2>3 DEF NoAliasing
<1>4. RemapMatchesFlags'
  <2>1. OneEntryEach(t)
    <3> SUFFICES ASSUME NEW i \in 1..Len(remap_table), NEW j \in 1..Len(remap_table),
                        t[i].pg = t[j].pg
                 PROVE  i = j
      BY <1>h DEF OneEntryEach
    <3>1. remap_table[i].pg = remap_table[j].pg
      BY <1>h
    <3> QED
      BY <3>1 DEF IInv, RemapMatchesFlags, OneEntryEach
  <2> QED
    BY <1>a, <1>b, <1>j, <2>1 DEF IInv, RemapMatchesFlags
<1>5. RemapBounded'
  BY <1>b, <1>h DEF IInv, RemapBounded
<1>6. RoomOk'
  BY <1>b DEF RoomOk
<1>7. FreshOk'
  BY <1>b DEF FreshOk
<1>8. RemapFrames'
  <2> SUFFICES ASSUME NEW i \in 1..Len(remap_table)
               PROVE  ~ t[i].busy /\ t[i].fr = frame_addr'[t[i].pg]
    BY <1>b, <1>f, <1>h DEF RemapFrames
  <2>1. CASE remap_table[i].pg \in {p, q}
    BY <1>h, <2>1
  <2>2. CASE remap_table[i].pg \notin {p, q}
    <3>1. ~ remap_table[i].busy /\ remap_table[i].fr = frame_addr[remap_table[i].pg]
      BY <1>a, <2>2 DEF IInv, RemapFrames
    <3> QED
      BY <1>c, <1>g, <1>h, <2>2, <3>1
  <2> QED BY <2>1, <2>2
<1>9. PairSymmetric'
  BY <1>b DEF IInv, PairSymmetric
<1>10. ArOk'
  BY <1>b DEF IInv, ArOk, arVars
<1>11. ArExclusive'
  <2>1. ArPages' = ArPages
    BY <1>b DEF ArPages, arVars
  <2> QED
    BY <1>b, <1>f, <1>j, <2>1 DEF IInv, ArExclusive
<1>12. LruSound'
  <2>1. ASSUME NEW j \in 1..Len(lru_list)
        PROVE  dom'[lru_list[j]] = "l1m"
    <3>1. /\ lru_list[j] \in Pages /\ dom[lru_list[j]] = "l1m"
          /\ lru_list[j] \notin Moving
      BY DEF IInv, TypeOK, LruSound
    <3> QED
      BY <1>a, <1>c, <3>1
  <2>2. dom'[p] = "l1m"
    BY <1>a, <1>c
  <2>3. lru_list' = Touched(lru_list, p)
    BY <1>b
  <2>4. ASSUME NEW i \in 1..Len(lru_list')
        PROVE  dom'[lru_list'[i]] = "l1m" /\ lru_list'[i] \notin Moving'
    <3>1. lru_list'[i] = p \/ \E j \in 1..Len(lru_list) : lru_list'[i] = lru_list[j]
      BY <1>i, <2>3
    <3> QED
      BY <1>f, <2>1, <2>2, <3>1
  <2>5. NoRepeats(lru_list')
    BY <1>i, <2>3
  <2> QED
    BY <2>4, <2>5 DEF LruSound
<1>13. NextHotInSlow'
  <2>1. next_hot_pg_num' = next_hot_pg_num
    BY <1>b DEF hotVars
  <2>2. next_hot_pg_num # NoPage => /\ next_hot_pg_num \in Pages /\ next_hot_pg_num # p
                                    /\ dom[next_hot_pg_num] = "l2m"
    BY <1>a DEF IInv, TypeOK, NextHotInSlow
  <2> QED
    BY <1>c, <1>f, <2>1, <2>2 DEF NextHotInSlow
<1>14. MigOk'
  BY <1>b, <1>f DEF MigOk
<1>15. MappedOk'
  <2> SUFFICES ASSUME NEW r \in Pages, already_migrated'[r]
               PROVE  dom'[r] # "none"
    BY DEF MappedOk
  <2>1. dom[r] # "none"
    BY <1>b DEF IInv, MappedOk
  <2> QED
    BY <1>c, <2>1
<1>16. NoExit'
  BY <1>b DEF IInv, NoExit
<1> QED
  BY <1>1, <1>2, <1>3, <1>4, <1>5, <1>6, <1>7, <1>8, <1>9, <1>10, <1>11, <1>12, <1>13, <1>14, <1>15, <1>16 DEF IInv

\* A stuttering step keeps it.
LEMMA StutterInv ==
  ASSUME IInv, UNCHANGED vars
  PROVE  IInv'
<1>1. /\ TypeOK' /\ FreeOk' /\ NoAliasing' /\ MigOk' /\ MappedOk' /\ NoExit'
      /\ LruSound' /\ NextHotInSlow' /\ PairSymmetric'
  BY DEF IInv, vars, pageVars, migVars, hotVars, arVars, TypeOK, FreeOk, NoAliasing,
         Mapped, Loc, Active, Moving, MigOk, MappedOk, NoExit, LruSound, NextHotInSlow,
         PairSymmetric
<1>2. /\ RemapMatchesFlags' /\ RemapBounded' /\ RoomOk' /\ FreshOk' /\ RemapFrames'
      /\ ArOk' /\ ArExclusive'
  BY DEF IInv, vars, pageVars, migVars, hotVars, arVars, Active, Moving,
         RemapMatchesFlags, RemapBounded, RoomOk, Room, FreshOk, RemapFrames, ArOk,
         ArExclusive, ArPages
<1> QED
  BY <1>1, <1>2 DEF IInv

\* Every step keeps it.
LEMMA NextInv ==
  ASSUME IInv, [Next]_vars
  PROVE  IInv'
<1>1. ASSUME NEW p \in Pages, NEW m \in Mems, hma_handler(p, m)
      PROVE  IInv'
  BY <1>1, HandlerInv
<1>2. ASSUME NEW p \in Pages, NEW m \in Mems, hma_onfly_count_keeper(p, m)
      PROVE  IInv'
  BY <1>2, CountKeeperInv
<1>3. CASE CacheStep
  BY <1>1, <1>2, <1>3 DEF CacheStep
<1>4. CASE ArStep
  BY <1>4, ArInitInv, ArBusyOverInv, ArNextStageInv, ArComplete1Inv, ArComplete2Inv
     DEF ArStep
<1>5. CASE SelectStep
  BY <1>5, SelectAgainInv, SelectOneWayInv, SelectSegvInv, SelectTwoWayInv,
     SelectNoVictimInv DEF SelectStep
<1>6. CASE MigStep
  BY <1>6, OverheadOverInv, FillInv, MigAdvanceInv, CompletionInv DEF MigStep
<1>7. CASE Ended \/ UNCHANGED vars
  BY <1>7, StutterInv DEF Ended
<1> QED
  BY <1>3, <1>4, <1>5, <1>6, <1>7 DEF Next

\* The inductive invariant holds of every state of every behaviour.
THEOREM Invariance == Spec => []IInv
<1>1. Init => IInv
  BY InitInv
<1>2. IInv /\ [Next]_vars => IInv'
  BY NextInv
<1> QED
  BY <1>1, <1>2, PTL DEF Spec

\* Every field keeps its type; the hotness mark never falls below the threshold.
THEOREM TypeCorrect == Spec => []TypeOK
<1>1. IInv => TypeOK
  BY DEF IInv
<1> QED
  BY <1>1, Invariance, PTL

\* Allocation, selection and migration never give one frame to two pages, nor
\* the frame of a page to the free list.
THEOREM FramesNeverShared == Spec => []NoAliasing
<1>1. IInv => NoAliasing
  BY DEF IInv
<1> QED
  BY <1>1, Invariance, PTL

\* The flag the selection looks at says exactly what the remap table holds.
THEOREM RemapTableSound == Spec => []RemapMatchesFlags
<1>1. IInv => RemapMatchesFlags
  BY DEF IInv
<1> QED
  BY <1>1, Invariance, PTL

\* Whatever mix of one-way migrations and swaps is under way, the table never
\* outgrows the size a selection is allowed to fill it to.
THEOREM RemapTableFits == Spec => []RemapBounded
<1>1. IInv => RemapBounded
  BY DEF IInv
<1> QED
  BY <1>1, Invariance, PTL

\* A busy entry holds the frame its page moves to, any other entry the frame its
\* page has, whichever migrations and reconciliations went by since it was made.
THEOREM RemapEntriesRight == Spec => []RemapFrames
<1>1. IInv => RemapFrames
  BY DEF IInv
<1> QED
  BY <1>1, Invariance, PTL

\* The pages of a swap name each other until both have left the remap table.
THEOREM PairsSymmetric == Spec => []PairSymmetric
<1>1. IInv => PairSymmetric
  BY DEF IInv
<1> QED
  BY <1>1, Invariance, PTL

\* No page is ever migrated and reconciled at the same time.
THEOREM ReconciliationExclusive == Spec => []ArExclusive
<1>1. IInv => ArExclusive
  BY DEF IInv
<1> QED
  BY <1>1, Invariance, PTL

\* The LRU list holds pages of the fast memory only, and the next hot page is in
\* the slow one: what the selection takes from either without looking is right.
THEOREM CandidatesSound == Spec => [](LruSound /\ NextHotInSlow)
<1>1. IInv => LruSound /\ NextHotInSlow
  BY DEF IInv
<1> QED
  BY <1>1, Invariance, PTL

\* None of the sanity checks that call exit() ever fails.
THEOREM NoSanityExit == Spec => []NoExit
<1>1. IInv => NoExit
  BY DEF IInv
<1> QED
  BY <1>1, Invariance, PTL

(***************************************************************************)
(* What no step of HmaOnfly does, and that every step is one of PageMap or *)
(* shows no change there.                                                  *)
(***************************************************************************)
PageStays(p) ==
  /\ dom'[p] = dom[p] /\ frame_addr'[p] = frame_addr[p]
  /\ ar_status' # 0 => pair'[p] = pair[p] /\ already_migrated'[p]

\* A page under reconciliation is in the remap table, hence mapped and flagged,
\* and no migration has anything to do with it.
LEMMA ArPageFacts ==
  ASSUME IInv, NEW p \in ArPages \ {NoPage}
  PROVE  /\ p \in Pages /\ p \notin Moving /\ already_migrated[p]
         /\ dom[p] # "none"
<1>1. p \in Pages
  BY DEF IInv, TypeOK, ArPages
<1>2. p \notin Moving /\ Listed(remap_table, p)
  BY DEF IInv, ArExclusive
<1>3. already_migrated[p]
  BY <1>1, <1>2 DEF IInv, RemapMatchesFlags
<1> QED
  BY <1>1, <1>2, <1>3 DEF IInv, MappedOk

\* An access, which may allocate or make a page hot, leaves a page under AR alone.
LEMMA CacheStepStays ==
  ASSUME IInv, CacheStep, NEW p \in ArPages \ {NoPage}
  PROVE  PageStays(p)
<1>1. ASSUME NEW q \in Pages, NEW m \in Mems, hma_handler(q, m)
      PROVE  PageStays(p)
  <2>1. p # q
    BY <1>1, ArPageFacts DEF hma_handler
  <2>2. dom'[p] = dom[p] /\ frame_addr'[p] = frame_addr[p]
    <3>1. \/ UNCHANGED <<dom, frame_addr>>
          \/ \E n, f : /\ dom' = [dom EXCEPT ![q] = n]
                       /\ frame_addr' = [frame_addr EXCEPT ![q] = f]
      BY <1>1 DEF hma_handler
    <3>2. /\ dom \in [Pages -> Mems \cup {"none"}]
          /\ frame_addr \in [Pages -> L1Frames \cup L2Frames \cup {NoFrame}]
      BY DEF IInv, TypeOK
    <3> QED
      BY <2>1, <3>1, <3>2, ArPageFacts
  <2>3. pair' = pair /\ already_migrated' = already_migrated
    BY <1>1 DEF hma_handler
  <2> QED
    BY <2>2, <2>3, ArPageFacts DEF PageStays
<1>2. ASSUME NEW q \in Pages, NEW m \in Mems, hma_onfly_count_keeper(q, m)
      PROVE  PageStays(p)
  <2>1. UNCHANGED <<dom, frame_addr, pair, already_migrated>>
    BY <1>2 DEF hma_onfly_count_keeper
  <2> QED
    BY <2>1, ArPageFacts DEF PageStays
<1> QED
  BY <1>1, <1>2 DEF CacheStep

\* Reconciliation itself moves no page.
LEMMA ArStepStays ==
  ASSUME IInv, ArStep, NEW p \in ArPages \ {NoPage}
  PROVE  PageStays(p)
<1>1. UNCHANGED <<dom, frame_addr>>
  BY DEF ArStep, onfly_ar_init, ArBusyOver, ArNextStage, ArComplete1, ArComplete2, pageVars
<1>2. ar_status' = 0 \/ UNCHANGED <<pair, already_migrated>>
  BY DEF ArStep, onfly_ar_init, ArBusyOver, ArNextStage, ArComplete1, ArComplete2, pageVars
<1> QED
  BY <1>1, <1>2, ArPageFacts DEF PageStays

\* The selection takes neither page from those under reconciliation.
LEMMA SelectStepStays ==
  ASSUME IInv, SelectStep, NEW p \in ArPages \ {NoPage}
  PROVE  PageStays(p)
<1>1. UNCHANGED <<dom, frame_addr>>
  BY DEF SelectStep, SelectAgain, SelectOneWay, SelectSegv, SelectTwoWay,
         SelectNoVictim, pageVars
<1>2. already_migrated'[p]
  <2>1. p \in Pages /\ already_migrated[p]
    BY ArPageFacts
  <2>2. already_migrated \in [Pages -> BOOLEAN]
    BY DEF IInv, TypeOK
  <2> QED
    BY <2>1, <2>2 DEF SelectStep, SelectAgain, SelectOneWay, SelectSegv, SelectTwoWay,
       SelectNoVictim, pageVars
<1>3. pair'[p] = pair[p]
  <2>1. p \in Pages /\ pair \in [Pages -> Pages \cup {NoPage}]
    BY ArPageFacts DEF IInv, TypeOK
  <2>2. CASE SelectOneWay
    BY <2>1, <2>2 DEF SelectOneWay, Selecting
  <2>3. CASE SelectTwoWay
    <3> DEFINE rest == IF BadVictim(Head(lru_list)) THEN Rotated(lru_list) ELSE lru_list
               q == Head(rest)
    <3>1. ~ BadVictim(q) /\ pair' = [pair EXCEPT ![next_hot_pg_num] = q,
                                                 ![q] = next_hot_pg_num]
      BY <2>3 DEF SelectTwoWay
    <3> HIDE DEF q
    <3>2. p # q /\ p # next_hot_pg_num
      BY <2>3, <3>1 DEF BadVictim, SelectTwoWay, SwapWanted, Selecting
    <3> QED
      BY <2>1, <3>1, <3>2
  <2>4. CASE SelectAgain \/ SelectSegv \/ SelectNoVictim
    BY <2>4 DEF SelectAgain, SelectSegv, SelectNoVictim, pageVars
  <2> QED
    BY <2>2, <2>3, <2>4 DEF SelectStep
<1> QED
  BY <1>1, <1>2, <1>3 DEF PageStays

\* The only step of a migration that changes the page table is its completion.
LEMMA MigStepStays ==
  ASSUME IInv, MigStep, NEW p \in ArPages \ {NoPage}
  PROVE  PageStays(p)
<1>1. UNCHANGED <<pair, already_migrated>>
  BY DEF MigStep, OverheadOver, onfly_fill_mig_stage_q, MigAdvance,
         onfly_mig_completion, pageVars
<1>2. CASE onfly_mig_completion
  <2>1. p \in Pages /\ p \notin Moving
    BY ArPageFacts
  <2>2. p # hot_pg_num /\ (mig_type = 2 => p # cold_pg_num)
    BY <1>2, <2>1 DEF onfly_mig_completion, Moving, Active
  <2>3. dom \in [Pages -> Mems \cup {"none"}]
        /\ frame_addr \in [Pages -> L1Frames \cup L2Frames \cup {NoFrame}]
    BY DEF IInv, TypeOK
  <2>4. dom'[p] = dom[p] /\ frame_addr'[p] = frame_addr[p]
    BY <1>2, <2>1, <2>2, <2>3 DEF onfly_mig_completion, Moved
  <2> QED
    BY <1>1, <2>4, ArPageFacts DEF PageStays
<1>3. CASE ~ onfly_mig_completion
  <2>1. UNCHANGED <<dom, frame_addr>>
    BY <1>3 DEF MigStep, OverheadOver, onfly_fill_mig_stage_q, MigAdvance, pageVars
  <2> QED
    BY <1>1, <2>1, ArPageFacts DEF PageStays
<1> QED
  BY <1>2, <1>3

\* A page stays where it is, and stays paired and flagged, for as long as it is
\* being reconciled.
THEOREM ReconciledPagesStay == Spec => ArPagesStay
<1>1. ASSUME IInv, [Next]_vars
      PROVE  [\A p \in ArPages \ {NoPage} :
                /\ dom'[p] = dom[p] /\ frame_addr'[p] = frame_addr[p]
                /\ ar_status' # 0 => pair'[p] = pair[p] /\ already_migrated'[p]]_vars
  <2> SUFFICES ASSUME NEW p \in ArPages \ {NoPage}, Next, ~ UNCHANGED vars
               PROVE  PageStays(p)
    BY <1>1 DEF PageStays
  <2>1. ~ Ended
    BY DEF Ended
  <2> QED
    BY <1>1, <2>1, CacheStepStays, ArStepStays, SelectStepStays, MigStepStays DEF Next
<1> QED
  BY <1>1, Invariance, PTL DEF Spec, ArPagesStay

\* No step of the selection or of a migration takes anything from the table.
LEMMA TableGrows ==
  ASSUME IInv, [Next]_vars, ~ ArStep
  PROVE  /\ Len(remap_table) \in Nat /\ Len(remap_table') \in Nat
         /\ Len(remap_table') >= Len(remap_table)
<1>1. remap_table \in Seq(Entries) /\ remap_table' \in Seq(Entries)
  BY NextInv DEF IInv, TypeOK
<1>2. CASE \E pending \in BOOLEAN : onfly_fill_mig_stage_q(pending)
  <2>1. PICK pending \in BOOLEAN : onfly_fill_mig_stage_q(pending)
    BY <1>2
  <2> DEFINE h == [pg |-> hot_pg_num, fr |-> cold_frame_addr, busy |-> TRUE]
             c == [pg |-> cold_pg_num, fr |-> hot_frame_addr, busy |-> TRUE]
             S == Entries \cup {h, c}
  <2>2. \/ remap_table' = remap_table
        \/ remap_table' = Append(remap_table, h)
        \/ remap_table' = Append(Append(remap_table, h), c)
    BY <2>1 DEF onfly_fill_mig_stage_q
  <2>3. remap_table \in Seq(S) /\ h \in S /\ c \in S
    BY <1>1
  <2> HIDE DEF h, c, S
  <2>4. /\ Append(remap_table, h) \in Seq(S)
        /\ Len(Append(remap_table, h)) = Len(remap_table) + 1
    BY <2>3
  <2>5. Len(Append(Append(remap_table, h), c)) = Len(remap_table) + 2
    BY <1>1, <2>3, <2>4
  <2> QED
    BY <1>1, <2>2, <2>4, <2>5
<1>3. CASE onfly_mig_completion
  <2>1. remap_table' = remap_table \/ DOMAIN remap_table' = 1..Len(remap_table)
    BY <1>3 DEF onfly_mig_completion, Settled
  <2> QED
    BY <1>1, <2>1
<1>4. CASE /\ ~ \E pending \in BOOLEAN : onfly_fill_mig_stage_q(pending)
           /\ ~ onfly_mig_completion
  <2>1. remap_table' = remap_table
    BY <1>4 DEF Next, CacheStep, hma_handler, hma_onfly_count_keeper, SelectStep,
       SelectAgain, SelectOneWay, SelectSegv, SelectTwoWay, SelectNoVictim, MigStep,
       OverheadOver, MigAdvance, Ended, vars
  <2> QED
    BY <1>1, <2>1
<1> QED BY <1>2, <1>3, <1>4

\* Reconciliation runs only while the remap table is more than half full.
ArCrowded == ar_status # 0 => Crowded

\* Entries are removed only by reconciliation's end.
LEMMA ArCrowdedInv ==
  ASSUME IInv, ArCrowded, [Next]_vars
  PROVE  ArCrowded'
<1>1. CASE ArStep
  <2>1. CASE ArComplete1 \/ ArComplete2
    BY <2>1 DEF ArComplete1, ArComplete2, ArCrowded, Crowded, arVars
  <2>2. CASE ArBusyOver \/ ArNextStage
    BY <2>2 DEF ArBusyOver, ArNextStage, ArCrowded, Crowded, IInv, ArOk
  <2>3. CASE onfly_ar_init
    BY <2>3 DEF onfly_ar_init, ArCrowded, Crowded
  <2> QED
    BY <1>1, <2>1, <2>2, <2>3 DEF ArStep
<1>2. CASE ~ ArStep
  <2>1. ar_status' = ar_status
    BY <1>2 DEF Next, CacheStep, hma_handler, hma_onfly_count_keeper, SelectStep,
       SelectAgain, SelectOneWay, SelectSegv, SelectTwoWay, SelectNoVictim, MigStep,
       OverheadOver, onfly_fill_mig_stage_q, MigAdvance, onfly_mig_completion, Ended,
       vars, arVars
  <2> QED
    BY <1>2, <2>1, TableGrows, SizeAssumption DEF ArCrowded, Crowded
<1> QED BY <1>1, <1>2

\* A reconciliation takes at most two of the three entries there are at least.
LEMMA StaysFilled ==
  ASSUME RemapMax >= 4, IInv, ArCrowded, Next, remap_table # <<>>
  PROVE  remap_table' # <<>>
<1>1. /\ remap_table \in Seq(Entries) /\ Len(remap_table) \in Nat
      /\ Len(remap_table) > 0 /\ OneEntryEach(remap_table)
  BY DEF IInv, TypeOK, RemapMatchesFlags
<1>2. CASE ArComplete1
  <2>1. Len(remap_table) >= 3
    BY <1>1, <1>2, SizeAssumption DEF ArComplete1, ArCrowded, Crowded
  <2>2. Len(Erased(remap_table, ar_page_1)) >= Len(remap_table) - 1
    BY <1>1, ErasedProps
  <2>3. Erased(remap_table, ar_page_1) # <<>>
    BY <1>1, <2>1, <2>2
  <2> QED
    BY <1>1, <1>2, <2>3 DEF ArComplete1
<1>3. CASE ArComplete2
  <2> DEFINE t == Erased(remap_table, ar_page_1)
  <2>1. Len(remap_table) >= 3
    BY <1>1, <1>3, SizeAssumption DEF ArComplete2, ArCrowded, Crowded
  <2>2. t \in Seq(Entries) /\ OneEntryEach(t) /\ Len(t) >= Len(remap_table) - 1
    BY <1>1, ErasedProps
  <2> HIDE DEF t
  <2>3. Len(Erased(t, ar_page_2)) >= Len(t) - 1
    BY <2>2, ErasedProps
  <2>4. Len(t) \in Nat
    BY <2>2
  <2>5. Erased(t, ar_page_2) # <<>>
    BY <1>1, <2>1, <2>2, <2>3, <2>4
  <2> QED
    BY <1>1, <1>3, <2>5 DEF ArComplete2, t
<1>4. CASE ArStep /\ ~ ArComplete1 /\ ~ ArComplete2
  BY <1>4 DEF ArStep, onfly_ar_init, ArBusyOver, ArNextStage
<1>5. CASE ~ ArStep
  <2>1. Len(remap_table') > 0
    BY <1>1, <1>5, TableGrows
  <2> QED
    BY <2>1
<1> QED BY <1>2, <1>3, <1>4, <1>5

\* Once filled, a remap table of at least four entries is never empty again, which
\* is why the adaptive threshold block may read its first entry unchecked.
THEOREM RemapTableStaysFilled == ASSUME RemapMax >= 4 PROVE Spec => RemapStaysFilled
<1>1. Init => ArCrowded
  BY DEF Init, ArCrowded
<1>2. IInv /\ ArCrowded /\ [Next]_vars => ArCrowded'
  BY ArCrowdedInv
<1>3. ASSUME IInv, ArCrowded, [Next]_vars
      PROVE  [remap_table # <<>> => remap_table' # <<>>]_vars
  BY <1>3, StaysFilled
<1> QED
  BY <1>1, <1>2, <1>3, Invariance, PTL DEF Spec, RemapStaysFilled

(***************************************************************************)
(* HmaOnfly implements PageMap.                                            *)
(***************************************************************************)
\* Memory and frame of a page that has no entry are both unset.
NowhereOk == \A p \in Pages : dom[p] = "none" => frame_addr[p] = NoFrame

RefInv == IInv /\ NowhereOk

\* A page is remapped from the end of its migration to the end of its
\* reconciliation: it is flagged, and its data is not moving.
LEMMA RemappedPages ==
  ASSUME IInv
  PROVE  Remapped = {p \in Pages : already_migrated[p] /\ p \notin Moving}
<1>1. ASSUME NEW p \in Pages
      PROVE  p \in Remapped <=> Listed(remap_table, p) /\ p \notin Moving
  BY DEF IInv, RemapFrames, Remapped, Listed
<1> QED
  BY <1>1 DEF IInv, RemapMatchesFlags, Remapped

\* The same of the next state.
LEMMA RemappedPagesNext ==
  ASSUME IInv'
  PROVE  Remapped' = {p \in Pages : already_migrated'[p] /\ p \notin Moving'}
<1>1. ASSUME NEW p \in Pages
      PROVE  p \in Remapped' <=> Listed(remap_table', p) /\ p \notin Moving'
  BY DEF IInv, RemapFrames, Remapped, Listed
<1> QED
  BY <1>1 DEF IInv, RemapMatchesFlags, Remapped

\* The locations of the pages.
LEMMA LocationFacts ==
  ASSUME RefInv, NEW p \in Pages
  PROVE  /\ dom[p] \in {"l1m", "l2m", "none"}
         /\ dom[p] = "l1m" => frame_addr[p] \in L1Frames
         /\ dom[p] = "l2m" => frame_addr[p] \in L2Frames
         /\ dom[p] = "none" => frame_addr[p] = NoFrame
         /\ dom[p] # "none" => frame_addr[p] \notin free[dom[p]]
BY DEF RefInv, IInv, TypeOK, NoAliasing, Mapped, Frames, Mems, NowhereOk

\* A page gets its memory and its frame in the same step.
LEMMA NowhereStays ==
  ASSUME RefInv, [Next]_vars
  PROVE  NowhereOk'
<1>0. /\ dom \in [Pages -> Mems \cup {"none"}]
      /\ frame_addr \in [Pages -> L1Frames \cup L2Frames \cup {NoFrame}]
  BY DEF RefInv, IInv, TypeOK
<1>1. ASSUME NEW p \in Pages, NEW m \in Mems, hma_handler(p, m)
      PROVE  NowhereOk'
  <2>1. \/ UNCHANGED <<dom, frame_addr>>
        \/ \E n \in Mems : \E f : /\ dom' = [dom EXCEPT ![p] = n]
                                  /\ frame_addr' = [frame_addr EXCEPT ![p] = f]
    BY <1>1 DEF hma_handler, Mems, OtherMem
  <2> QED
    BY <1>0, <2>1 DEF RefInv, NowhereOk, Mems
<1>2. CASE onfly_mig_completion
  <2>1. ASSUME NEW r \in Pages, dom'[r] = "none"
        PROVE  dom[r] = "none" /\ frame_addr'[r] = frame_addr[r]
    <3>1. dom[hot_pg_num] = "l2m" /\ mig_type \in {1, 2}
          /\ (mig_type = 2 => dom[cold_pg_num] = "l1m")
      BY <1>2 DEF RefInv, IInv, MigOk, Active, onfly_mig_completion
    <3>2. CASE UNCHANGED <<dom, frame_addr>>
      BY <2>1, <3>2
    <3>3. CASE /\ mig_type = 2
               /\ dom' = [dom EXCEPT ![hot_pg_num] = "l1m", ![cold_pg_num] = "l2m"]
               /\ frame_addr' = [frame_addr EXCEPT ![hot_pg_num] = cold_frame_addr,
                                                   ![cold_pg_num] = hot_frame_addr]
      BY <1>0, <2>1, <3>1, <3>3
    <3>4. CASE /\ mig_type # 2
               /\ dom' = [dom EXCEPT ![hot_pg_num] = "l1m"]
               /\ frame_addr' = [frame_addr EXCEPT ![hot_pg_num] = cold_frame_addr]
      BY <1>0, <2>1, <3>1, <3>4
    <3> QED
      BY <1>2, <3>2, <3>3, <3>4 DEF onfly_mig_completion, Moved
  <2> QED
    BY <2>1 DEF RefInv, NowhereOk
<1>3. CASE /\ ~ \E p \in Pages, m \in Mems : hma_handler(p, m)
           /\ ~ onfly_mig_completion
  <2>1. UNCHANGED <<dom, frame_addr>>
    BY <1>3 DEF Next, CacheStep, hma_onfly_count_keeper, ArStep, onfly_ar_init,
       ArBusyOver, ArNextStage, ArComplete1, ArComplete2, SelectStep, SelectAgain,
       SelectOneWay, SelectSegv, SelectTwoWay, SelectNoVictim, MigStep, OverheadOver,
       onfly_fill_mig_stage_q, MigAdvance, Ended, vars, pageVars
  <2> QED
    BY <2>1 DEF RefInv, NowhereOk
<1> QED BY <1>1, <1>2, <1>3

\* A step that moves no page, remaps none and reconciles none is invisible.
LEMMA Invisible ==
  ASSUME IInv, IInv', UNCHANGED <<dom, frame_addr>>,
         \A p \in Pages : already_migrated'[p] /\ p \notin Moving'
                          <=> already_migrated[p] /\ p \notin Moving,
         \A p \in Pages : already_migrated[p] /\ p \notin Moving
                          => pair'[p] = pair[p]
  PROVE  UNCHANGED PM!vars
<1>1. Remapped' = Remapped
  <2>1. Remapped = {p \in Pages : already_migrated[p] /\ p \notin Moving}
    BY RemappedPages
  <2> QED
    BY <2>1, RemappedPagesNext
<1>2. [p \in Pages |-> Loc(p)]' = [p \in Pages |-> Loc(p)]
  BY DEF Loc
<1>3. ASSUME NEW p \in Pages
      PROVE  (IF p \in Remapped' THEN pair'[p] ELSE NoPage)
              = (IF p \in Remapped THEN pair[p] ELSE NoPage)
  BY <1>1, RemappedPages
<1> QED BY <1>1, <1>2, <1>3 DEF PM!vars

\* Counting accesses, the stages of reconciliation and the steps of a migration
\* up to its completion change nothing that the page map shows.
LEMMA StagesInvisible ==
  ASSUME IInv, IInv',
         \/ \E p \in Pages, m \in Mems : hma_onfly_count_keeper(p, m)
         \/ onfly_ar_init \/ ArBusyOver \/ ArNextStage
         \/ SelectAgain \/ SelectSegv \/ SelectNoVictim
         \/ OverheadOver \/ MigAdvance \/ Ended
         \/ \E pending \in BOOLEAN : onfly_fill_mig_stage_q(pending)
  PROVE  UNCHANGED PM!vars
<1>1. UNCHANGED <<dom, frame_addr, pair, already_migrated, mig_type, hot_pg_num,
                  cold_pg_num>>
  BY DEF hma_onfly_count_keeper, onfly_ar_init, ArBusyOver, ArNextStage, SelectAgain,
     SelectSegv, SelectNoVictim, OverheadOver, MigAdvance, Ended,
     onfly_fill_mig_stage_q, vars, pageVars, migVars
<1>2. Active' = Active
  BY DEF Active, hma_onfly_count_keeper, onfly_ar_init, ArBusyOver, ArNextStage,
     SelectAgain, Selecting, SelectSegv, SwapWanted, SelectNoVictim, OverheadOver,
     MigAdvance, Ended, onfly_fill_mig_stage_q, vars, migVars
<1>3. Moving' = Moving
  BY <1>1, <1>2 DEF Moving
<1> QED BY <1>1, <1>3, Invisible

\* A selection flags pages that were not flagged and whose data moves from now on,
\* and pairs no others.
LEMMA SelectionInvisible ==
  ASSUME IInv, IInv', SelectOneWay \/ SelectTwoWay
  PROVE  UNCHANGED PM!vars
<1> DEFINE p == next_hot_pg_num
<1>0. /\ p \in Pages /\ ~ already_migrated[p] /\ Moving = {}
      /\ UNCHANGED <<dom, frame_addr>>
      /\ already_migrated \in [Pages -> BOOLEAN]
      /\ pair \in [Pages -> Pages \cup {NoPage}]
  BY DEF IInv, TypeOK, SelectOneWay, SelectTwoWay, SwapWanted, Selecting, Moving, Active
<1>1. CASE SelectOneWay
  <2>1. Moving' = {p}
    BY <1>1 DEF SelectOneWay, Selected, Moving, Active
  <2> QED
    BY <1>0, <1>1, <2>1, Invisible DEF SelectOneWay
<1>2. CASE SelectTwoWay
  <2> DEFINE rest == IF BadVictim(Head(lru_list)) THEN Rotated(lru_list) ELSE lru_list
             q == Head(rest)
  <2>1. /\ ~ BadVictim(q) /\ cold_pg_num' = q
        /\ pair' = [pair EXCEPT ![p] = q, ![q] = p]
        /\ already_migrated' = [already_migrated EXCEPT ![p] = TRUE, ![q] = TRUE]
        /\ hot_pg_num' = p /\ mig_type' = 2 /\ mig_status' = 203
    BY <1>2 DEF SelectTwoWay, Selected
  <2> HIDE DEF q, p
  <2>2. q \in Pages
    BY <2>1 DEF IInv, MigOk, Active
  <2>3. ~ already_migrated[q]
    BY <2>1 DEF BadVictim
  <2>4. Moving' = {p, q}
    BY <2>1 DEF Moving, Active
  <2>5. \A r \in Pages : r \notin {p, q} => /\ already_migrated'[r] = already_migrated[r]
                                            /\ pair'[r] = pair[r]
    BY <1>0, <2>1, <2>2
  <2> QED
    BY <1>0, <2>2, <2>3, <2>4, <2>5, Invisible
<1> QED BY <1>1, <1>2

\* hma_handler gives a page its first location, or ends the process.
LEMMA AllocateRefines ==
  ASSUME RefInv, IInv', NEW p \in Pages, NEW m \in Mems, hma_handler(p, m)
  PROVE  [PM!Next]_(PM!vars)
<1>1. Moving' = Moving /\ already_migrated' = already_migrated /\ pair' = pair
  BY DEF hma_handler, Moving, Active, migVars
<1>2. CASE UNCHANGED <<dom, frame_addr>>
  BY <1>1, <1>2, Invisible DEF RefInv
<1>3. CASE \E n \in Mems : \E f \in free[n] :
             /\ dom' = [dom EXCEPT ![p] = n]
             /\ frame_addr' = [frame_addr EXCEPT ![p] = f]
  <2>0. PICK n \in Mems : \E f \in free[n] :
             /\ dom' = [dom EXCEPT ![p] = n]
             /\ frame_addr' = [frame_addr EXCEPT ![p] = f]
    BY <1>3
  <2>1. PICK f \in free[n] :
             /\ dom' = [dom EXCEPT ![p] = n]
             /\ frame_addr' = [frame_addr EXCEPT ![p] = f]
    BY <2>0
  <2>2. /\ dom \in [Pages -> Mems \cup {"none"}]
        /\ frame_addr \in [Pages -> L1Frames \cup L2Frames \cup {NoFrame}]
    BY DEF RefInv, IInv, TypeOK
  <2>3. dom[p] = "none" /\ frame_addr[p] = NoFrame
    BY DEF hma_handler, RefInv, NowhereOk
  <2>4. [q \in Pages |-> Loc(q)]' = [[q \in Pages |-> Loc(q)] EXCEPT ![p] = <<n, f>>]
    BY <2>1, <2>2 DEF Loc
  <2>5. <<n, f>> \in ({"l1m"} \X L1Frames) \cup ({"l2m"} \X L2Frames)
    BY DEF RefInv, IInv, FreeOk, Frames, Mems
  <2>6. \A q \in Pages : Loc(q) # <<n, f>>
    <3>1. ASSUME NEW q \in Pages, dom[q] = n
          PROVE  frame_addr[q] # f
      BY <3>1, LocationFacts DEF Mems
    <3> QED
      BY <3>1 DEF Loc
  <2>7. Remapped' = Remapped
    BY DEF hma_handler, Remapped
  <2>8. PM!Allocate(p)
    BY <1>1, <2>3, <2>4, <2>5, <2>6, <2>7 DEF PM!Allocate, PM!Unused, Loc
  <2> QED
    BY <2>8 DEF PM!Next
<1> QED
  BY <1>2, <1>3 DEF hma_handler, Taken, Mems, OtherMem

\* The end of a reconciliation is the end of it in the page map, and concerns a
\* page and its partner, or a page that has none.
LEMMA ReconcileRefines ==
  ASSUME IInv, IInv', ArComplete1 \/ ArComplete2
  PROVE  PM!Next
<1> DEFINE S == ArPages \ {NoPage}
<1>1. /\ ar_page_1 \in Pages /\ ar_page_1 \in S /\ S \subseteq Pages
      /\ \A r \in S : S = {r} \cup ({pair[r]} \ {NoPage})
  <2>1. CASE ArComplete1
    BY <2>1, PageAssumption DEF IInv, TypeOK, ArOk, ArPages, ArComplete1
  <2>2. CASE ArComplete2
    <3>1. /\ ar_page_1 \in Pages /\ ar_page_2 \in Pages
          /\ pair[ar_page_1] = ar_page_2
      BY <2>2, PageAssumption DEF IInv, TypeOK, ArOk, ArComplete2
    <3>2. pair[ar_page_2] = ar_page_1
      BY <3>1, PageAssumption DEF IInv, PairSymmetric
    <3> QED
      BY <3>1, <3>2, PageAssumption DEF ArPages
  <2> QED
    BY <2>1, <2>2
<1>2. \A r \in S : r \notin Moving /\ Listed(remap_table, r)
  BY DEF IInv, ArExclusive
<1>3. \A r \in S : r \in Pages /\ already_migrated[r]
  BY <1>1, <1>2 DEF IInv, RemapMatchesFlags
<1>4. /\ UNCHANGED <<dom, frame_addr>> /\ Moving' = Moving
      /\ \A r \in Pages : already_migrated'[r] <=> already_migrated[r] /\ r \notin S
      /\ \A r \in Pages : r \notin S => pair'[r] = pair[r]
  <2>1. CASE ArComplete1
    <3>1. {r \in {ar_page_1} : Listed(remap_table, r)} = {ar_page_1}
      BY <1>1, <1>2
    <3>2. ar_page_2 = NoPage /\ pair[ar_page_1] = NoPage
      BY <2>1 DEF IInv, ArOk, ArComplete1
    <3>3. S = {ar_page_1}
      BY <1>1, <3>2 DEF ArPages
    <3>4. /\ already_migrated' = Unflagged(S)
          /\ UNCHANGED <<dom, frame_addr, pair, migVars>>
      BY <2>1, <3>1, <3>2, <3>3 DEF ArComplete1
    <3>5. Moving' = Moving
      BY <3>4 DEF Moving, Active, migVars
    <3> QED
      BY <3>4, <3>5 DEF Unflagged
  <2>2. CASE ArComplete2
    <3>1. /\ ar_page_2 # NoPage /\ pair[ar_page_1] = ar_page_2
      BY <2>2 DEF IInv, ArOk, ArComplete2
    <3>2. ar_page_2 \in S
      BY <3>1 DEF ArPages
    <3>3. S = {ar_page_1, ar_page_2}
      BY <1>1, <3>2 DEF ArPages
    <3>4. {r \in {ar_page_1, ar_page_2} : Listed(remap_table, r)} = S
      BY <1>2, <3>3
    <3>5. already_migrated' = Unflagged(S) /\ pair' = Unpaired(S)
      BY <2>2, <3>4 DEF ArComplete2, IInv, NoExit
    <3> QED
      BY <2>2, <3>5 DEF ArComplete2, Unflagged, Unpaired, Moving, Active, migVars
  <2> QED
    BY <2>1, <2>2
<1> HIDE DEF S
<1>5. /\ Remapped = {r \in Pages : already_migrated[r] /\ r \notin Moving}
      /\ Remapped' = {r \in Pages : already_migrated'[r] /\ r \notin Moving'}
  BY RemappedPages, RemappedPagesNext
<1>6. S \subseteq Remapped /\ Remapped' = Remapped \ S
  BY <1>2, <1>3, <1>4, <1>5
<1>7. PICK p, q \in Pages : S = {p, q}
  BY <1>1
<1>8. PM!Reconcile({p, q})
  <2>1. [r \in Pages |-> Loc(r)]' = [r \in Pages |-> Loc(r)]
    BY <1>4 DEF Loc
  <2>2. \A r \in S : [o \in Pages |-> IF o \in Remapped THEN pair[o] ELSE NoPage][r]
                     = pair[r]
    BY <1>1, <1>6
  <2>3. ASSUME NEW r \in Pages
        PROVE  (IF r \in Remapped' THEN pair'[r] ELSE NoPage)
                = IF r \in S THEN NoPage
                  ELSE IF r \in Remapped THEN pair[r] ELSE NoPage
    BY <1>4, <1>6
  <2> QED
    BY <1>1, <1>6, <1>7, <2>1, <2>2, <2>3 DEF PM!Reconcile
<1> QED
  BY <1>8 DEF PM!Next

\* The completion of a migration moves its page, or both of them, in one step: the
\* frame a one-way migration has reserved is nobody's until then.
LEMMA CompletionRefines ==
  ASSUME RefInv, IInv', onfly_mig_completion
  PROVE  PM!Next
<1>0. PICK p \in Pages, q \in Pages \cup {NoPage} : p = hot_pg_num /\ q = cold_pg_num
  BY DEF RefInv, IInv, TypeOK, MigOk, Active, onfly_mig_completion
<1>1. /\ dom \in [Pages -> Mems \cup {"none"}]
      /\ frame_addr \in [Pages -> L1Frames \cup L2Frames \cup {NoFrame}]
  BY DEF RefInv, IInv, TypeOK
<1>2. /\ Active /\ mig_type \in {1, 2}
      /\ dom[p] = "l2m" /\ already_migrated[p]
      /\ mig_type = 1 => pair[p] = NoPage
      /\ mig_type = 2 => /\ q \in Pages /\ dom[q] = "l1m" /\ pair[p] = q
                         /\ hot_frame_addr = frame_addr[p]
                         /\ cold_frame_addr = frame_addr[q]
  BY <1>0 DEF RefInv, IInv, MigOk, Active, onfly_mig_completion
<1>3. /\ Moving = IF mig_type = 2 THEN {p, q} ELSE {p}
      /\ Moving' = {} /\ pair' = pair /\ already_migrated' = already_migrated
  BY <1>0, <1>2 DEF RefInv, IInv, NoExit, Moving, Active, onfly_mig_completion
<1>4. /\ Remapped = {r \in Pages : already_migrated[r] /\ r \notin Moving}
      /\ Remapped' = {r \in Pages : already_migrated'[r] /\ r \notin Moving'}
  BY RemappedPages, RemappedPagesNext DEF RefInv
<1>5. Loc(p) \in {"l2m"} \X L2Frames
  BY <1>2, LocationFacts DEF Loc
<1>6. CASE mig_type = 1
  <2>1. /\ dom' = [dom EXCEPT ![p] = "l1m"]
        /\ frame_addr' = [frame_addr EXCEPT ![p] = cold_frame_addr]
    BY <1>0, <1>2, <1>6 DEF onfly_mig_completion, IInv, NoExit, Moved
  <2>2. /\ cold_frame_addr \in L1Frames
        /\ \A r \in Pages : Loc(r) # <<"l1m", cold_frame_addr>>
    BY <1>2, <1>6 DEF RefInv, IInv, NoAliasing, Mapped, Loc
  <2>3. [r \in Pages |-> Loc(r)]'
          = [[r \in Pages |-> Loc(r)] EXCEPT ![p] = <<"l1m", cold_frame_addr>>]
    BY <1>1, <2>1 DEF Loc
  <2>4. Remapped' = Remapped \cup {p} /\ p \notin Remapped
    BY <1>2, <1>3, <1>4, <1>6
  <2>5. ASSUME NEW r \in Pages
        PROVE  (IF r \in Remapped' THEN pair'[r] ELSE NoPage)
                = IF r \in Remapped THEN pair[r] ELSE NoPage
    BY <1>2, <1>3, <1>6, <2>4
  <2>6. PM!Promote(p)
    BY <1>5, <2>2, <2>3, <2>4, <2>5 DEF PM!Promote, PM!Unused
  <2> QED
    BY <2>6 DEF PM!Next
<1>7. CASE mig_type = 2
  <2>1. /\ q \in Pages /\ p # q /\ pair[p] = q /\ pair[q] = p
        /\ already_migrated[p] /\ already_migrated[q]
    BY <1>2, <1>7, PageAssumption DEF RefInv, IInv, PairSymmetric
  <2>2. /\ dom' = [dom EXCEPT ![p] = "l1m", ![q] = "l2m"]
        /\ frame_addr' = [frame_addr EXCEPT ![p] = cold_frame_addr,
                                            ![q] = hot_frame_addr]
    BY <1>0, <1>2, <1>7 DEF onfly_mig_completion, IInv, NoExit, Moved
  <2>3. [r \in Pages |-> Loc(r)]'
          = [[r \in Pages |-> Loc(r)] EXCEPT ![p] = Loc(q), ![q] = Loc(p)]
    BY <1>1, <1>2, <1>7, <2>1, <2>2 DEF Loc
  <2>4. Remapped' = Remapped \cup {p, q} /\ p \notin Remapped /\ q \notin Remapped
    BY <1>3, <1>4, <1>7, <2>1
  <2>5. ASSUME NEW r \in Pages
        PROVE  (IF r \in Remapped' THEN pair'[r] ELSE NoPage)
                = IF r = q THEN p ELSE IF r = p THEN q
                  ELSE IF r \in Remapped THEN pair[r] ELSE NoPage
    BY <1>3, <2>1, <2>4
  <2>6. Loc(q) \in {"l1m"} \X L1Frames
    BY <1>2, <1>7, <2>1, LocationFacts DEF Loc
  <2>7. PM!Swap(p, q)
    BY <1>5, <2>1, <2>3, <2>4, <2>5, <2>6 DEF PM!Swap
  <2> QED
    BY <2>1, <2>7 DEF PM!Next
<1> QED BY <1>2, <1>6, <1>7

\* The refinement: every state the page tables, the remap table and the controller
\* go through shows one step of the abstract page map, or none.
THEOREM PageMapImplemented == Spec => ImplementsPageMap
<1>1. Init => PM!Init
  BY DEF Init, PM!Init, Loc, Remapped
<1>2. Init => NowhereOk
  BY DEF Init, NowhereOk
<1>3. ASSUME IInv, NowhereOk, [Next]_vars
      PROVE  NowhereOk'
  BY <1>3, NowhereStays DEF RefInv
<1>4. ASSUME IInv, NowhereOk, IInv', [Next]_vars
      PROVE  [PM!Next]_(PM!vars)
  <2>0. RefInv
    BY <1>4 DEF RefInv
  <2>1. CASE CacheStep
    BY <1>4, <2>0, <2>1, AllocateRefines, StagesInvisible DEF CacheStep
  <2>2. CASE ArStep
    BY <1>4, <2>2, ReconcileRefines, StagesInvisible DEF ArStep
  <2>3. CASE SelectStep
    BY <1>4, <2>3, SelectionInvisible, StagesInvisible DEF SelectStep
  <2>4. CASE MigStep
    BY <1>4, <2>0, <2>4, CompletionRefines, StagesInvisible DEF MigStep
  <2>5. CASE Ended
    BY <1>4, <2>5, StagesInvisible
  <2>6. CASE UNCHANGED vars
    <3>1. Moving' = Moving
      BY <2>6 DEF vars, migVars, Moving, Active
    <3> QED
      BY <1>4, <2>6, <3>1, Invisible DEF vars, pageVars
  <2> QED
    BY <1>4, <2>1, <2>2, <2>3, <2>4, <2>5, <2>6 DEF Next
<1> QED
  BY <1>1, <1>2, <1>3, <1>4, Invariance, PTL DEF Spec, ImplementsPageMap, PM!Spec
=============================================================================
