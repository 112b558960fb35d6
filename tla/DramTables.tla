------------------------------ MODULE DramTables -------------------------------
(***************************************************************************)
(* The tables of the DRAM standards: which commands exist at which level,  *)
(* what each needs first and does to a bank, and the cycles that must pass *)
(* between two commands.                                                   *)
(*                                                                         *)
(* Each standard has the speed and organisation of its configuration file. *)
(* Left out are the commands nobody issues: RDA and WRA (no row policy     *)
(* names a victim for them), power-down and self-refresh (no request of    *)
(* these types is created), and a refresh of one bank outside DSARP.  PRA  *)
(* of the LPDDR and WideIO standards and PRER of SALP are called PREA.     *)
(***************************************************************************)
EXTENDS Integers, Sequences, TLC

(***************************************************************************)
(* Timing entries: after a command of "from" a command of "to" waits val   *)
(* cycles, counted from the dist-th last "from".  The entry holds for the  *)
(* node that is addressed, or else for its siblings.                       *)
(***************************************************************************)
Entries(l, F, T, n, v, sib) ==
  {[level |-> l, from |-> f, to |-> t, dist |-> n, val |-> v, sibling |-> sib] :
     f \in F, t \in T}
Gap(l, f, t, v) == Entries(l, {f}, {t}, 1, v, FALSE)
Beside(l, f, t, v) == Entries(l, {f}, {t}, 1, v, TRUE)
Window(l, c, n, v) == Entries(l, {c}, {c}, n, v, FALSE)

\* CAS <-> CAS on one bus, within a rank or bank group.
SameCas(l, v) == Gap(l, "RD", "RD", v) \cup Gap(l, "WR", "WR", v)
Turns(l, rtw, wtr) == Gap(l, "RD", "WR", rtw) \cup Gap(l, "WR", "RD", wtr)

\* CAS <-> CAS between sibling ranks; dq: cycles that read data comes late.
Siblings(s, dq) ==
  Beside("Rank", "RD", "RD", s.nBL + s.nRTRS)
    \cup Beside("Rank", "RD", "WR", s.nBL + s.nRTRS)
    \cup Beside("Rank", "RD", "WR", s.nCL + s.nBL + dq + s.nRTRS - s.nCWL)
    \cup Beside("Rank", "WR", "RD", s.nCWL + s.nBL + s.nRTRS - s.nCL)

\* RAS <-> RAS of a rank: at most n ACTs in a window, and all banks at once.
Acts(rrd, n, window) == Window("Rank", "ACT", 1, rrd) \cup Window("Rank", "ACT", n, window)
PreAll(s, rp, wr) ==
  Gap("Rank", "RD", "PREA", s.nRTP) \cup Gap("Rank", "WR", "PREA", wr)
    \cup Gap("Rank", "ACT", "PREA", s.nRAS) \cup Gap("Rank", "PREA", "ACT", rp)

\* RAS <-> REF
RefreshRank(rppb, rpab, rfc) ==
  Gap("Rank", "PRE", "REF", rppb) \cup Gap("Rank", "PREA", "REF", rpab)
    \cup Gap("Rank", "REF", "ACT", rfc) \cup Gap("Rank", "REF", "REF", rfc)

\* CAS <-> RAS and RAS <-> RAS of a bank, or of a subarray.
Rows(l, s, rcdw, rp, wr) ==
  Gap(l, "ACT", "RD", s.nRCD) \cup Gap(l, "ACT", "WR", rcdw)
    \cup Gap(l, "RD", "PRE", s.nRTP) \cup Gap(l, "WR", "PRE", wr)
    \cup Gap(l, "ACT", "ACT", s.nRC) \cup Gap(l, "ACT", "PRE", s.nRAS)
    \cup Gap(l, "PRE", "ACT", rp)

WriteRecovery(s) == s.nCWL + s.nBL + s.nWR
ReadToWrite(s, ccd) == s.nCL + ccd + 2 - s.nCWL
WriteToRead(s, wtr) == s.nCWL + s.nBL + wtr

(***************************************************************************)
(* Speeds.                                                                 *)
(***************************************************************************)
DDR3Speed == \* DDR3_1600K, DDR3_8Gb_x8
  [nBL |-> 4, nCCD |-> 4, nRTRS |-> 2, nCL |-> 11, nRCD |-> 11, nRP |-> 11, nCWL |-> 8,
   nRAS |-> 28, nRC |-> 39, nRTP |-> 6, nWTR |-> 6, nWR |-> 12, nRRD |-> 6, nFAW |-> 32,
   nRFC |-> 280]
PCMSpeed == \* PCM_800D, PCM_8Gb_x8
  [nBL |-> 4, nCCD |-> 4, nRTRS |-> 1, nCL |-> 1, nRCD |-> 25, nRP |-> 3, nCWL |-> 100,
   nRAS |-> 27, nRC |-> 30, nRTP |-> 4, nWTR |-> 100, nWR |-> 100, nRRD |-> 4,
   nFAW |-> 20, nRFC |-> 140]
DDR4Speed == \* DDR4_2400R, DDR4_4Gb_x8
  [nBL |-> 4, nCCDS |-> 4, nCCDL |-> 6, nRTRS |-> 2, nCL |-> 16, nRCD |-> 16, nRP |-> 16,
   nCWL |-> 12, nRAS |-> 39, nRC |-> 55, nRTP |-> 9, nWTRS |-> 3, nWTRL |-> 9,
   nWR |-> 18, nRRDS |-> 4, nRRDL |-> 6, nFAW |-> 26, nRFC |-> 312]
GDDR5Speed == \* GDDR5_6000, GDDR5_8Gb_x16
  [nBL |-> 2, nCCDS |-> 2, nCCDL |-> 3, nCL |-> 18, nRCD |-> 18, nRCDW |-> 15,
   nRP |-> 18, nCWL |-> 5, nRAS |-> 42, nRC |-> 60, nPPD |-> 2, nRTP |-> 2, nWTR |-> 8,
   nWR |-> 18, nRRD |-> 9, nFAW |-> 35, n32AW |-> 276, nRFC |-> 525]
HBMSpeed == \* HBM_2Gbps, HBM_1Gb; nRCD is nRCDR
  [nBL |-> 2, nCCDS |-> 2, nCCDL |-> 3, nCL |-> 14, nRCD |-> 14, nRCDW |-> 12,
   nRP |-> 14, nCWL |-> 8, nRAS |-> 34, nRC |-> 48, nRTP |-> 7, nWTRS |-> 2,
   nWTRL |-> 4, nWR |-> 16, nRRDS |-> 8, nRRDL |-> 10, nFAW |-> 40, nRFC |-> 110]
LPDDR3Speed == \* LPDDR3_1600, LPDDR3_8Gb_x16
  [nBL |-> 4, nCCD |-> 4, nRTRS |-> 2, nDQSCK |-> 2, nCL |-> 12, nRCD |-> 15,
   nRPpb |-> 15, nRPab |-> 17, nCWL |-> 6, nRAS |-> 34, nRC |-> 48, nRTP |-> 6,
   nWTR |-> 6, nWR |-> 12, nRRD |-> 8, nFAW |-> 40, nRFCab |-> 168]
LPDDR4Speed == \* LPDDR4_2400, LPDDR4_8Gb_x16
  [nBL |-> 8, nCCD |-> 8, nRTRS |-> 2, nDQSCK |-> 2, nCL |-> 25, nRCD |-> 22,
   nRPpb |-> 20, nRPab |-> 24, nCWL |-> 14, nRAS |-> 51, nRC |-> 71, nRTP |-> 11,
   nWTR |-> 12, nWR |-> 21, nPPD |-> 4, nRRD |-> 12, nFAW |-> 48, nRFCab |-> 216]
WideIOSpeed == \* WideIO_266, WideIO_8Gb
  [nBL |-> 4, nCCD |-> 4, nCL |-> 3, nRCD |-> 5, nRP |-> 5, nCWL |-> 1, nRAS |-> 12,
   nRC |-> 16, nRTP |-> 4, nRTW |-> 8, nWTR |-> 4, nWR |-> 4, nRRD |-> 3, nTAW |-> 14,
   nRFC |-> 56]
WideIO2Speed == \* WideIO2_1066, WideIO2_8Gb with 8 channels: nRPab is nRPpb
  [nBL |-> 2, nCCD |-> 2, nDQSCK |-> 1, nRTRS |-> 2, nCL |-> 9, nRCD |-> 10,
   nRPpb |-> 10, nRPab |-> 10, nCWL |-> 7, nRAS |-> 23, nRC |-> 33, nRTP |-> 4,
   nWTR |-> 6, nWR |-> 11, nRRD |-> 6, nFAW |-> 32, nRFCab |-> 96]
DSARPSpeed == \* DSARP_1333, DSARP_8Gb_x8
  [nBL |-> 4, nCCD |-> 4, nRTRS |-> 2, nCL |-> 9, nRCD |-> 9, nRPpb |-> 8, nRPab |-> 9,
   nCWL |-> 7, nRAS |-> 24, nRC |-> 33, nRTP |-> 5, nWTR |-> 5, nWR |-> 10, nRRD |-> 5,
   nFAW |-> 30, nRFCpb |-> 109]
SALPSpeed == \* SALP_1600K, SALP_4Gb_x8
  [DDR3Speed EXCEPT !.nRRD = 5, !.nFAW = 24, !.nRFC = 208]
    @@ [nPA |-> 1, nRA |-> 6, nWA |-> 18, nSCD |-> 1]
TLDRAMSpeed == \* TLDRAM_1600K, TLDRAM_4Gb_x8; F: fast rows, M: a migration's
  [DDR3Speed EXCEPT !.nRRD = 5, !.nFAW = 24, !.nRFC = 208]
    @@ [nRCDF |-> 3, nRPF |-> 3, nRASF |-> 10, nRCF |-> 13,
        nRCDM |-> 6, nRPM |-> 6, nRASM |-> 20, nRCM |-> 26]

\* ALDRAM_1600K, ALDRAM_4Gb_x8: the tables of the two temperatures have zeros for
\* nRRD, nFAW and nRFC; init_speed, which computes them, stores them elsewhere.
ALDRAMHot == [DDR3Speed EXCEPT !.nRRD = 0, !.nFAW = 0, !.nRFC = 0]
ALDRAMCold == [ALDRAMHot EXCEPT !.nRCD = 9, !.nRP = 9, !.nRAS = 18, !.nRC = 27]

(***************************************************************************)
(* Timing of the standards.                                                *)
(***************************************************************************)
Bus(s) == SameCas("Channel", s.nBL)

ClassicTiming(s) ==
  LET wr == WriteRecovery(s)
  IN  Bus(s) \cup SameCas("Rank", s.nCCD)
        \cup Turns("Rank", ReadToWrite(s, s.nCCD), WriteToRead(s, s.nWTR))
        \cup Siblings(s, 0) \cup PreAll(s, s.nRP, wr) \cup Acts(s.nRRD, 4, s.nFAW)
        \cup RefreshRank(s.nRP, s.nRP, s.nRFC) \cup Rows("Bank", s, s.nRCD, s.nRP, wr)
DDR3Timing == ClassicTiming(DDR3Speed)
PCMTiming == ClassicTiming(PCMSpeed)
ALDRAMTiming(heat) == ClassicTiming(IF heat = "HOT" THEN ALDRAMHot ELSE ALDRAMCold)

DDR4Timing ==
  LET s == DDR4Speed
      wr == WriteRecovery(s)
  IN  Bus(s) \cup SameCas("Rank", s.nCCDS)
        \cup Turns("Rank", ReadToWrite(s, s.nCCDS), WriteToRead(s, s.nWTRS))
        \cup Siblings(s, 0) \cup PreAll(s, s.nRP, wr) \cup Acts(s.nRRDS, 4, s.nFAW)
        \cup RefreshRank(s.nRP, s.nRP, s.nRFC)
        \cup SameCas("BankGroup", s.nCCDL)
        \cup Gap("BankGroup", "WR", "RD", WriteToRead(s, s.nWTRL))
        \cup Window("BankGroup", "ACT", 1, s.nRRDL)
        \cup Rows("Bank", s, s.nRCD, s.nRP, wr)
HBMTiming ==
  LET s == HBMSpeed
      wr == WriteRecovery(s)
  IN  Bus(s) \cup SameCas("Rank", s.nCCDS)
        \cup Turns("Rank", ReadToWrite(s, s.nCCDS), WriteToRead(s, s.nWTRS))
        \cup PreAll(s, s.nRP, wr) \cup Acts(s.nRRDS, 4, s.nFAW)
        \cup RefreshRank(s.nRP, s.nRP, s.nRFC)
        \cup SameCas("BankGroup", s.nCCDL)
        \cup Gap("BankGroup", "WR", "RD", WriteToRead(s, s.nWTRL))
        \cup Window("BankGroup", "ACT", 1, s.nRRDL)
        \cup Rows("Bank", s, s.nRCDW, s.nRP, wr)
GDDR5Timing ==
  LET s == GDDR5Speed
      wr == WriteRecovery(s)
  IN  Bus(s) \cup SameCas("Rank", s.nCCDS)
        \cup Turns("Rank", ReadToWrite(s, s.nCCDS), WriteToRead(s, s.nWTR))
        \cup PreAll(s, s.nRP, wr) \cup Acts(s.nRRD, 4, s.nFAW)
        \cup Window("Rank", "ACT", 32, s.n32AW) \cup Window("Rank", "PRE", 1, s.nPPD)
        \cup RefreshRank(s.nRP, s.nRP, s.nRFC)
        \cup SameCas("BankGroup", s.nCCDL) \cup Rows("Bank", s, s.nRCDW, s.nRP, wr)

\* What the low-power standards share: PRE of one bank and of all differ.
LowPower(s, rtw, wtr, wr) ==
  Bus(s) \cup SameCas("Rank", s.nCCD) \cup Turns("Rank", rtw, wtr)
    \cup PreAll(s, s.nRPab, wr) \cup RefreshRank(s.nRPpb, s.nRPab, s.nRFCab)
    \cup Rows("Bank", s, s.nRCD, s.nRPpb, wr)
LPDDR3Timing ==
  LET s == LPDDR3Speed
  IN  LowPower(s, s.nCL + s.nBL + s.nDQSCK + 1 - s.nCWL, WriteToRead(s, s.nWTR + 1),
               WriteRecovery(s))
        \cup Siblings(s, s.nDQSCK + 1) \cup Acts(s.nRRD, 4, s.nFAW)
LPDDR4Timing ==
  LET s == LPDDR4Speed
  IN  LowPower(s, s.nCL + s.nBL + s.nDQSCK + 1 - s.nCWL, WriteToRead(s, s.nWTR + 1),
               WriteRecovery(s))
        \cup Siblings(s, s.nDQSCK + 1) \cup Acts(s.nRRD, 4, s.nFAW)
        \cup Window("Rank", "PRE", 1, s.nPPD)
WideIO2Timing ==
  LET s == WideIO2Speed
  IN  LowPower(s, s.nCL + s.nDQSCK + s.nBL + 1 - s.nCWL, WriteToRead(s, s.nWTR + 1),
               WriteRecovery(s) + 1)
        \cup Siblings(s, s.nDQSCK + 1) \cup Acts(s.nRRD, 4, s.nFAW)
WideIOTiming ==
  LET s == WideIOSpeed
      wr == WriteRecovery(s)
  IN  Bus(s) \cup SameCas("Rank", s.nCCD) \cup Turns("Rank", s.nRTW, WriteToRead(s, s.nWTR))
        \cup PreAll(s, s.nRP, wr) \cup Acts(s.nRRD, 2, s.nTAW)
        \cup RefreshRank(s.nRP, s.nRP, s.nRFC) \cup Rows("Bank", s, s.nRCD, s.nRP, wr)

\* DSARP of type DSARP, which refreshes by REFPB only: REF and PREA never occur.
DSARPRankTiming ==
  LET s == DSARPSpeed
  IN  Bus(s) \cup SameCas("Rank", s.nCCD)
        \cup Turns("Rank", ReadToWrite(s, s.nCCD), WriteToRead(s, s.nWTR))
        \cup Siblings(s, 0) \cup Acts(s.nRRD, 4, s.nFAW)
        \cup Gap("Rank", "REFPB", "REFPB", s.nRFCpb)
DSARPBankTiming ==
  LET s == DSARPSpeed
      apart == 6 \* nRRD times 1.138, rounded up
  IN  UNION {Rows(l, s, s.nRCD, s.nRPpb, WriteRecovery(s)) : l \in {"Bank", "SubArray"}}
        \cup Gap("Bank", "PRE", "REFPB", s.nRPpb) \cup Gap("Bank", "REFPB", "REFPB", s.nRFCpb)
        \cup Beside("Bank", "REFPB", "REFPB", s.nRFCpb)
        \cup Beside("Bank", "ACT", "REFPB", s.nRRD) \cup Beside("Bank", "REFPB", "ACT", s.nRRD)
        \cup Beside("SubArray", "ACT", "REFPB", apart)
        \cup Beside("SubArray", "REFPB", "ACT", apart)
        \cup Gap("SubArray", "REFPB", "ACT", s.nRFCpb)
        \cup Gap("SubArray", "PRE", "REFPB", s.nRPpb)
        \cup Beside("SubArray", "ACT", "ACT", s.nRC) \cup Beside("SubArray", "PRE", "ACT", s.nRPpb)
DSARPTiming == DSARPRankTiming \cup DSARPBankTiming

SALPRankTiming ==
  LET s == SALPSpeed
  IN  Bus(s) \cup SameCas("Rank", s.nCCD)
        \cup Turns("Rank", ReadToWrite(s, s.nCCD), WriteToRead(s, s.nWTR))
        \cup Siblings(s, 0) \cup PreAll(s, s.nRP, WriteRecovery(s))
        \cup Acts(s.nRRD, 4, s.nFAW) \cup RefreshRank(s.nRP, s.nRP, s.nRFC)
        \cup Gap("Rank", "PRE_OTHER", "REF", s.nRP)
\* How the subarrays of a bank overlap is what tells the three types apart.
SALPBankTiming(type) ==
  LET s == SALPSpeed
  IN  Rows("SubArray", s, s.nRCD, s.nRP, WriteRecovery(s)) \cup
      CASE type = "SALP_1" ->
             Entries("Bank", {"ACT"}, {"PRE", "PRE_OTHER"}, 1, s.nRAS, FALSE)
               \cup Entries("Bank", {"RD"}, {"PRE", "PRE_OTHER"}, 1, s.nRTP, FALSE)
               \cup Entries("Bank", {"WR"}, {"PRE", "PRE_OTHER"}, 1, WriteRecovery(s), FALSE)
               \cup Entries("SubArray", {"PRE", "PRE_OTHER"}, {"ACT"}, 1, s.nPA, TRUE)
               \cup Beside("SubArray", "ACT", "ACT", s.nRC - s.nRP + s.nPA)
        [] type = "SALP_2" ->
             Beside("SubArray", "ACT", "ACT", s.nRCD + s.nRA)
               \cup Beside("SubArray", "RD", "ACT", s.nRA)
               \cup Beside("SubArray", "WR", "ACT", s.nWA)
        [] type = "MASA" ->
             Entries("SubArray", {"SASEL"}, {"RD", "WR"}, 1, s.nSCD, FALSE)
               \cup Entries("SubArray", {"RD"}, {"ACT", "SASEL", "RD"}, 1, s.nRA, TRUE)
               \cup Entries("SubArray", {"WR"}, {"ACT", "SASEL", "WR"}, 1, s.nWA, TRUE)
SALPTiming(type) == SALPRankTiming \cup SALPBankTiming(type)

\* TLDRAM opens rows near the sense amplifiers with ACTF, rows to migrate with
\* ACTM and others with ACT; precharges come in the same three kinds.
TLActs == {"ACT", "ACTF", "ACTM"}
TLPres == {"PRE", "PREF", "PREM"}
TLReads == {"RD", "MIG"}
TLRas(act) == CASE act = "ACT"  -> TLDRAMSpeed.nRAS
                [] act = "ACTF" -> TLDRAMSpeed.nRASF
                [] act = "ACTM" -> TLDRAMSpeed.nRASM
TLRp(pre) == CASE pre = "PRE"  -> TLDRAMSpeed.nRP
               [] pre = "PREF" -> TLDRAMSpeed.nRPF
               [] pre = "PREM" -> TLDRAMSpeed.nRPM
TLRcd(act) == CASE act = "ACT"  -> TLDRAMSpeed.nRCD
                [] act = "ACTF" -> TLDRAMSpeed.nRCDF
                [] act = "ACTM" -> TLDRAMSpeed.nRCDM

TLRankTiming ==
  LET s == TLDRAMSpeed
      G(F, T, v) == Entries("Rank", F, T, 1, v, FALSE)
      B(F, T, v) == Entries("Rank", F, T, 1, v, TRUE)
  IN  Entries("Channel", TLReads, TLReads, 1, s.nBL, FALSE) \cup Gap("Channel", "WR", "WR", s.nBL)
        \cup G(TLReads, TLReads, s.nCCD) \cup G({"WR"}, {"WR"}, s.nCCD)
        \cup G(TLReads, {"WR"}, ReadToWrite(s, s.nCCD))
        \cup G({"WR"}, TLReads, WriteToRead(s, s.nWTR))
        \cup B(TLReads, TLReads \cup {"WR"}, s.nBL + s.nRTRS)
        \cup B(TLReads, {"WR"}, s.nCL + s.nBL + s.nRTRS - s.nCWL)
        \cup B({"WR"}, TLReads, s.nCWL + s.nBL + s.nRTRS - s.nCL)
        \cup G(TLReads, {"PREA"}, s.nRTP) \cup G({"WR"}, {"PREA"}, WriteRecovery(s))
        \cup G(TLActs, TLActs, s.nRRD) \cup Entries("Rank", TLActs, TLActs, 4, s.nFAW, FALSE)
        \cup UNION {G({a}, TLPres \cup {"PREA"}, TLRas(a)) : a \in TLActs}
        \cup UNION {G({p}, TLActs \cup {"REF"}, TLRp(p)) : p \in TLPres}
        \cup G({"PREA"}, {"REF"}, s.nRP)
        \cup G({"REF"}, TLActs \cup {"REF"}, s.nRFC)
TLBankTiming ==
  LET s == TLDRAMSpeed
      rc == [ACT |-> s.nRC, ACTF |-> s.nRCF, ACTM |-> s.nRCM]
      G(F, T, v) == Entries("Bank", F, T, 1, v, FALSE)
  IN  UNION {G({a}, TLReads \cup {"WR"}, TLRcd(a)) : a \in TLActs}
        \cup G(TLReads, TLPres, s.nRTP) \cup G({"WR"}, {"PRE", "PREF"}, WriteRecovery(s))
        \cup UNION {G({a}, TLActs, rc[a]) \cup G({a}, TLPres, TLRas(a)) : a \in TLActs}
        \cup UNION {G({p}, TLActs, TLRp(p)) : p \in TLPres}
TLDRAMTiming == TLRankTiming \cup TLBankTiming

(***************************************************************************)
(* Rules: what a request needs of a node before its own command (init_     *)
(* prereq), what a command does to a node (init_lambda), and the levels    *)
(* where a row hit and an open row are looked up (init_rowhit, _rowopen).  *)
(***************************************************************************)
PlainRules ==
  [needs   |-> [Rank |-> [REF |-> "banksClosed"], Bank |-> [RD |-> "row", WR |-> "row"]],
   effects |-> [Rank |-> [PREA |-> "closeBelow"], Bank |-> [ACT |-> "open", PRE |-> "close"]],
   hit |-> "Bank", open |-> "Bank"]
DDR3Rules == PlainRules
PCMRules == PlainRules
DDR4Rules == PlainRules
GDDR5Rules == PlainRules
HBMRules == PlainRules
LPDDR3Rules == PlainRules
LPDDR4Rules == PlainRules
WideIORules == PlainRules
WideIO2Rules == PlainRules
ALDRAMRules == [PlainRules EXCEPT !.open = "none"]

DSARPRules ==
  [needs   |-> [Bank     |-> [RD |-> "subarray", WR |-> "subarray", REFPB |-> "closedFirst"],
                SubArray |-> [RD |-> "row", WR |-> "row"]],
   effects |-> [Bank     |-> [ACT |-> "open", PRE |-> "closeBelow"],
                SubArray |-> [ACT |-> "open"]],
   hit |-> "SubArray", open |-> "SubArray"]

SALPNeeds(type) ==
  CASE type = "SALP_1" ->
         [Rank |-> [REF |-> "banksClosed"], Bank |-> [RD |-> "opened", WR |-> "opened"],
          SubArray |-> [RD |-> "onlyRow", WR |-> "onlyRow"]]
    [] type = "SALP_2" ->
         [Rank |-> [REF |-> "subarraysClosed"],
          SubArray |-> [RD |-> "aloneOpen", WR |-> "aloneOpen"]]
    [] type = "MASA" ->
         [Rank |-> [REF |-> "subarraysClosed"],
          SubArray |-> [RD |-> "selected", WR |-> "selected"]]
SALPEffectsNoOther(type) ==                                            \* mutant
  [Rank |-> [PREA |-> "closeBelow"], Bank |-> [ACT |-> "openState", PRE |-> "closeChild"],
   SubArray |-> [ACT |-> "open", PRE |-> "close"]]
SALPEffects(type) ==
  CASE type = "SALP_1" ->
         [Rank |-> [PREA |-> "closeBelow"],
          Bank |-> [ACT |-> "openState", PRE |-> "closeChild", PRE_OTHER |-> "closeChild"],
          SubArray |-> [ACT |-> "open"]]
    [] type = "SALP_2" ->
         [Rank |-> [PREA |-> "closeBelow"],
          SubArray |-> [ACT |-> "open", PRE |-> "close", PRE_OTHER |-> "close"]]
    [] type = "MASA" ->
         [Rank |-> [PREA |-> "closeBelow"],
          SubArray |-> [ACT |-> "openSelect", SASEL |-> "select", PRE |-> "close"]]
SALPRules(type) ==
  [needs |-> SALPNeeds(type), effects |-> SALPEffects(type), hit |-> "SubArray",
   open |-> IF type = "SALP_1" THEN "Bank" ELSE "SubArray"]

TLDRAMRules ==
  [needs   |-> [Rank |-> [REF |-> "banksClosed"],
                Bank |-> [RD |-> "segmentRow", WR |-> "segmentRow", MIG |-> "migrationRow"]],
   effects |-> [Rank |-> [PREA |-> "closeBelow"],
                Bank |-> [ACT |-> "open", ACTF |-> "open", ACTM |-> "open",
                          PRE |-> "close", PREF |-> "close", PREM |-> "close"]],
   hit |-> "Bank", open |-> "Bank"]

\* The levels of a standard, down to the nodes that hold rows.
Plain == {"DDR3", "PCM", "LPDDR3", "LPDDR4", "WideIO", "WideIO2", "ALDRAM", "TLDRAM"}
Grouped == {"DDR4", "GDDR5", "HBM"}
Salp == {"SALP_1", "SALP_2", "MASA"}
Levels ==
  [s \in Plain \cup Grouped \cup Salp \cup {"DSARP"} |->
     <<"Channel", "Rank">> \o (IF s \in Plain THEN <<"Bank">>
                              ELSE IF s \in Grouped THEN <<"BankGroup", "Bank">>
                              ELSE <<"Bank", "SubArray">>)]

\* The entries of a level for a command, timing[level][cmd] in the code.
Commands == {"ACT", "ACTF", "ACTM", "PRE", "PREF", "PREM", "PRE_OTHER", "PREA", "SASEL",
             "RD", "WR", "MIG", "REF", "REFPB"}
ByCommand(timing) ==
  [l \in {"Channel", "Rank", "BankGroup", "Bank", "SubArray"} |->
     [c \in Commands |-> {t \in timing : t.level = l /\ t.from = c}]]

\* A standard: its speed, its rules and its timing entries.
Tables(s, rules, timing) == [speed |-> s, rules |-> rules, timing |-> ByCommand(timing)]
ColdTiming == ByCommand(ALDRAMTiming("COLD"))
Standard ==
  [DDR3    |-> Tables(DDR3Speed, DDR3Rules, DDR3Timing),
   PCM     |-> Tables(PCMSpeed, PCMRules, PCMTiming),
   DDR4    |-> Tables(DDR4Speed, DDR4Rules, DDR4Timing),
   GDDR5   |-> Tables(GDDR5Speed, GDDR5Rules, GDDR5Timing),
   HBM     |-> Tables(HBMSpeed, HBMRules, HBMTiming),
   LPDDR3  |-> Tables(LPDDR3Speed, LPDDR3Rules, LPDDR3Timing),
   LPDDR4  |-> Tables(LPDDR4Speed, LPDDR4Rules, LPDDR4Timing),
   WideIO  |-> Tables(WideIOSpeed, WideIORules, WideIOTiming),
   WideIO2 |-> Tables(WideIO2Speed, WideIO2Rules, WideIO2Timing),
   ALDRAM  |-> Tables(ALDRAMHot, ALDRAMRules, ALDRAMTiming("HOT")),
   TLDRAM  |-> Tables(TLDRAMSpeed, TLDRAMRules, TLDRAMTiming),
   DSARP   |-> Tables(DSARPSpeed, DSARPRules, DSARPTiming),
   SALP_1  |-> Tables(SALPSpeed, SALPRules("SALP_1"), SALPTiming("SALP_1")),
   SALP_2  |-> Tables(SALPSpeed, SALPRules("SALP_2"), SALPTiming("SALP_2")),
   MASA    |-> Tables(SALPSpeed, SALPRules("MASA"), SALPTiming("MASA"))]
=============================================================================
