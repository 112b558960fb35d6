------------------------------ MODULE DramTiming ------------------------------
(***************************************************************************)
(* The tree of nodes of one DRAM channel (DRAM.h): what command a request  *)
(* needs first, when it may be issued, and how it changes the rows that    *)
(* are open and the earliest cycles of later commands.                     *)
(*                                                                         *)
(* A node is the sequence of ids that leads to it: <<>> is the channel,    *)
(* <<r>> a rank, and so on down to the node that holds the rows.  Any      *)
(* request may come at any time, as the queues and the scheduler choose    *)
(* (MemController), and its command is issued in the first cycle that the  *)
(* tables allow: the tightest schedule.                                    *)
(***************************************************************************)
EXTENDS DramTables, FiniteSetsExt, SequencesExt

CONSTANTS
  Standards, \* the standards to build a channel of
  Count,     \* per standard, how many nodes there are at each level
  RowIds,    \* rows of a bank or subarray; every 16th is a fast one in TLDRAM
  MaxCmds    \* bound on the commands issued, per standard

VARIABLES
  std,   \* the standard the channel is built for
  temp,  \* the temperature whose timing an ALDRAM channel uses
  bank,  \* per node, its state and the rows (or subarrays) open in it
  log    \* the commands issued, each with its cycle and the temperature

vars == <<std, temp, bank, log>>
now == IF log = <<>> THEN 0 ELSE Last(log).clk

LeafDepth(s) == Len(Levels[s]) - 1
Nodes(s) == UNION {{n \in [1..d -> 0..4] : \A i \in 1..d : n[i] < Count[s][i]} :
                     d \in 0..LeafDepth(s)}
Leaves == {n \in DOMAIN bank : Len(n) = LeafDepth(std)}
Level(n) == Levels[std][Len(n) + 1]

Prefix(addr, d) == SubSeq(addr, 1, d)
OnPath(n, addr) == Len(n) <= Len(addr) /\ n = Prefix(addr, Len(n))
NextToPathNever(n, addr) == FALSE                                     \* mutant
NextToPath(n, addr) == n # <<>> /\ OnPath(Front(n), addr) /\ ~OnPath(n, addr)

(***************************************************************************)
(* State of the nodes.                                                     *)
(***************************************************************************)
ClosedNode == [st |-> "Closed", rows |-> {}]
AllClosed(bk, n, level) ==
  \A m \in DOMAIN bk : OnPath(n, m) /\ Level(m) = level => bk[m].st = "Closed"
Others(n) == {m \in DOMAIN bank : Len(m) = Len(n) /\ Front(m) = Front(n)} \ {n}
Fast(row) == row % 16 = 0

RuleAt(rules, n, cmd) ==
  IF Level(n) \in DOMAIN rules /\ cmd \in DOMAIN rules[Level(n)]
    THEN rules[Level(n)][cmd] ELSE "none"

\* A row is opened with act, another one closed with pre; hit: the row is open.
RowNeed(b, row, act, pre, hit) ==
  IF b.st = "Closed" THEN act ELSE IF row \in b.rows THEN hit ELSE pre

\* prereq: the command that cmd needs first at node n; "MAX" if it needs none.
NeedUnder(rule, bk, n, cmd, id) ==
  CASE rule = "none"            -> "MAX"
    [] rule = "row"             -> RowNeed(bk[n], id, "ACT", "PRE", cmd)
    [] rule = "subarray"        -> RowNeed(bk[n], id, "ACT", "PRE", "MAX")
    [] rule = "segmentRow"      -> IF Fast(id) THEN RowNeed(bk[n], id, "ACTF", "PREF", cmd)
                                               ELSE RowNeed(bk[n], id, "ACT", "PRE", cmd)
    [] rule = "migrationRow"    -> RowNeed(bk[n], id, "ACTM", "PREM", cmd)
    [] rule = "opened"          -> IF bk[n].st = "Closed" THEN "ACT" ELSE "MAX"
    [] rule = "onlyRow"         -> IF id \in bk[n].rows THEN cmd
                                   ELSE IF bk[n].rows # {} THEN "PRE" ELSE "PRE_OTHER"
    [] rule = "aloneOpen"       -> RowNeed(bk[n], id, "ACT", "PRE",
                                     IF \E m \in Others(n) : bk[m].st = "Opened"
                                       THEN "PRE_OTHER" ELSE cmd)
    [] rule = "selected"        -> RowNeed(bk[n], id, "ACT", "PRE",
                                     IF bk[n].st = "Selected" THEN cmd ELSE "SASEL")
    [] rule = "closedFirst"     -> IF bk[n].st = "Closed" THEN cmd ELSE "PRE"
    [] rule = "banksClosed"     -> IF AllClosed(bk, n, "Bank") THEN cmd ELSE "PREA"
    [] rule = "subarraysClosed" -> IF AllClosed(bk, n, "SubArray") THEN cmd ELSE "PREA"
Need(bk, n, cmd, id) ==
  NeedUnder(RuleAt(Standard[std].rules.needs, n, cmd), bk, n, cmd, id)

\* decode: the first node on the way down that needs a command decides.
DepthOf(addr) == Min({Len(addr), LeafDepth(std)})
Id(addr, d) == IF d < Len(addr) THEN addr[d + 1] ELSE -1
FirstOf(needs, cmd) ==
  LET asked == {d \in DOMAIN needs : needs[d] # "MAX"}
  IN  IF asked = {} THEN cmd ELSE needs[Min(asked)]
Decode(bk, cmd, addr) ==
  FirstOf([d \in 0..DepthOf(addr) |-> Need(bk, Prefix(addr, d), cmd, Id(addr, d))], cmd)

\* check_row_hit and check_row_open, for reads and writes.
RowHitAny(addr) ==                                                     \* mutant
  bank[Prefix(addr, LeafDepth(std))].st # "Closed"
RowHit(addr) ==
  LET n == Prefix(addr, LeafDepth(std))
  IN  bank[n].st # "Closed" /\ Id(addr, Len(n)) \in bank[n].rows
RowOpen(addr) ==
  \E d \in 0..LeafDepth(std) :
     Levels[std][d + 1] = Standard[std].rules.open /\ bank[Prefix(addr, d)].st # "Closed"

\* lambda: what cmd does at node n, on the way to its child id.
Opened(bk, n, id) == [bk EXCEPT ![n].st = "Opened", ![n].rows = @ \cup {id}]
\* Selecting a subarray leaves the one selected before open.
Selected(bk, n) ==
  LET others == {m \in Others(n) : bk[m].st = "Selected"}
      first == CHOOSE m \in others : \A k \in others : Last(m) <= Last(k)
  IN  [m \in DOMAIN bk |->
         IF m = n THEN [bk[m] EXCEPT !.st = "Selected"]
         ELSE IF others # {} /\ m = first THEN [bk[m] EXCEPT !.st = "Opened"] ELSE bk[m]]
EffectUnder(rule, bk, n, id) ==
  CASE rule = "none"       -> bk
    [] rule = "open"       -> Opened(bk, n, id)
    [] rule = "openState"  -> [bk EXCEPT ![n].st = "Opened"]
    [] rule = "openSelect" -> Selected(Opened(bk, n, id), n)
    [] rule = "select"     -> Selected(bk, n)
    [] rule = "close"      -> [bk EXCEPT ![n] = ClosedNode]
    [] rule = "closeChild" -> [bk EXCEPT ![n].st = "Closed", ![Append(n, id)] = ClosedNode]
    [] rule = "closeBelow" -> [m \in DOMAIN bk |-> IF OnPath(n, m) THEN ClosedNode ELSE bk[m]]
Effect(bk, n, cmd, id) ==
  EffectUnder(RuleAt(Standard[std].rules.effects, n, cmd), bk, n, id)

\* update_state: the effects on the way down to the scope of the command.
Scope(cmd) ==
  CASE cmd \in {"REF", "PREA"} -> "Rank"
    [] cmd \in {"PRE", "PREF", "PREM", "REFPB"} /\ std \notin Salp -> "Bank"
    [] OTHER -> Last(Levels[std])
ScopeDepth(cmd) == (CHOOSE i \in DOMAIN Levels[std] : Levels[std][i] = Scope(cmd)) - 1
UpdateState(bk, cmd, addr) ==
  LET after[d \in 0..ScopeDepth(cmd)] ==
        Effect(IF d = 0 THEN bk ELSE after[d - 1], Prefix(addr, d), cmd, Id(addr, d))
  IN  after[ScopeDepth(cmd)]

(***************************************************************************)
(* Time.  A node's next cycle for a command is the greatest of the futures *)
(* that update_timing computes from its history.  Both follow from the     *)
(* log, and are read from it.                                              *)
(***************************************************************************)
TimingOf(e) == IF e.temp = "COLD" THEN ColdTiming ELSE Standard[std].timing

AppliesLate(t, i, n) ==                                               \* mutant
  LET e == log[i]
      since == {j \in i..Len(log) : log[j].cmd = e.cmd /\ OnPath(n, log[j].addr)}
  IN  IF t.sibling THEN NextToPath(n, e.addr)
                   ELSE OnPath(n, e.addr) /\ (t.dist = 1 \/ Cardinality(since) > t.dist)
\* An entry of the i-th command applies to node n: to n as a target, where it
\* counts from the dist-th last command of the kind, or to a sibling of it.
Applies(t, i, n) ==
  LET e == log[i]
      since == {j \in i..Len(log) : log[j].cmd = e.cmd /\ OnPath(n, log[j].addr)}
  IN  IF t.sibling THEN NextToPath(n, e.addr)
                   ELSE OnPath(n, e.addr) /\ Cardinality(since) >= t.dist

Futures(n, cmd) ==
  UNION {{log[i].clk + t.val :
            t \in {x \in TimingOf(log[i])[Level(n)][log[i].cmd] : x.to = cmd /\ Applies(x, i, n)}} :
           i \in DOMAIN log}

EarliestAbove(cmd, addr) ==                                            \* mutant
  Max({now + 1} \cup UNION {Futures(Prefix(addr, d), cmd) :
                               d \in 0..(Min({Len(addr), ScopeDepth(cmd)}) - 1)})
\* check and get_next: the earliest cycle after now in which cmd may be issued.
Earliest(cmd, addr) ==
  Max({now + 1} \cup UNION {Futures(Prefix(addr, d), cmd) :
                               d \in 0..Min({Len(addr), ScopeDepth(cmd)})})

(***************************************************************************)
(* Actions.                                                                *)
(***************************************************************************)
Init ==
  /\ std \in Standards
  /\ temp = "HOT"
  /\ bank = [n \in {m \in Nodes(std) : Level(m) \in {"Bank", "SubArray"}} |-> ClosedNode]
  /\ log = <<>>

\* PRE_OTHER is sent to the first other subarray that is open.
AddressedOwn(bk, cmd, addr) ==                                         \* mutant
  IF cmd = "PRE_OTHER" THEN Prefix(addr, LeafDepth(std)) ELSE addr
Addressed(bk, cmd, addr) ==
  LET n == Prefix(addr, LeafDepth(std))
      open == {Last(m) : m \in {k \in Others(n) : bk[k].st = "Opened"}}
  IN  IF cmd = "PRE_OTHER" THEN Append(Front(n), IF open = {} THEN 0 ELSE Min(open)) ELSE addr

\* The next command for a request is issued as soon as the one checked may be.
IssueAt(clk, cmd, addr) ==
  /\ Len(log) < MaxCmds[std]
  /\ bank' = UpdateState(bank, cmd, addr)
  /\ log' = Append(log, [cmd |-> cmd, addr |-> addr, clk |-> clk, temp |-> temp])
  /\ UNCHANGED <<std, temp>>
Issue(checked, type, addr) ==
  \E cmd \in {Decode(bank, type, addr)}, check \in {Decode(bank, checked, addr)} :
    IssueAt(Earliest(check, Addressed(bank, check, addr)), cmd, Addressed(bank, cmd, addr))

Addresses == {Append(n, row) : n \in Leaves, row \in RowIds}
Write(addr) == Issue("WR", "WR", addr)
Read(addr) == std # "TLDRAM" /\ Issue("RD", "RD", addr)
\* TLDRAM turns a read into a migration after it has checked that it is ready.
ReadAsMigration(addr) == std = "TLDRAM" /\ \E checked \in TLReads : Issue(checked, "MIG", addr)
Access(addr) == Write(addr) \/ Read(addr) \/ ReadAsMigration(addr)

RefreshAll(n) == std \notin {"DSARP", "PCM"} /\ Len(n) = 1 /\ Issue("REF", "REF", n)
RefreshBank(n) == std = "DSARP" /\ n \in Leaves /\ Issue("REFPB", "REFPB", n)
Refresh(n) == RefreshAll(n) \/ RefreshBank(n)
\* The first refresh tells ALDRAM that it is cold.
CoolDown ==
  /\ std = "ALDRAM" /\ temp = "HOT"
  /\ temp' = "COLD"
  /\ UNCHANGED <<std, bank, log>>

Next ==
  \/ \E addr \in Addresses : Access(addr)
  \/ \E n \in Leaves \cup {<<r>> : r \in 0..(Count[std][1] - 1)} : Refresh(n)
  \/ CoolDown
Spec == Init /\ [][Next]_vars

(***************************************************************************)
(* Properties.  They read the log alone, from what the standards ask of    *)
(* any device, and never the tables or the state of the nodes.             *)
(***************************************************************************)
Activations == {"ACT", "ACTF", "ACTM"}
Reads == {"RD", "MIG"}
Pres == {"PRE", "PREF", "PREM", "PRE_OTHER"}
Closings == Pres \cup {"PREA"}
Refreshes == {"REF", "REFPB"}
Earlier == 1..(Len(log) - 1)
Speed == Standard[std].speed
Value(s, name, default) == IF name \in DOMAIN s THEN s[name] ELSE default

\* The node whose rows a command is about: REF and PREA a rank, the rest a unit of
\* rows, a bank or (in SALP) a subarray.
UnitDepth == LeafDepth(std) - (IF std = "DSARP" THEN 1 ELSE 0)
Unit(e) == Prefix(e.addr, Min({Len(e.addr), UnitDepth}))
Meet(e, f) == OnPath(Unit(e), Unit(f)) \/ OnPath(Unit(f), Unit(e))

\* The data bus: two bursts never overlap, and the bus gets
\* a bubble when a read and another rank follow each other (DRAM.h's channel and sibling-rank entries together).
Latency(e) == IF e.cmd = "WR" THEN Speed.nCWL ELSE Speed.nCL + Value(Speed, "nDQSCK", 0)
Bubble(e, f) ==
  IF e.addr[1] = f.addr[1] \/ {e.cmd, f.cmd} = {"WR"} THEN 0 ELSE Value(Speed, "nRTRS", 0)
DataBusFree ==
  \A i \in Earlier :
    LET e == log[i]
        f == Last(log)
    IN  {e.cmd, f.cmd} \subseteq Reads \cup {"WR"} =>
          \/ f.clk + Latency(f) >= e.clk + Latency(e) + Speed.nBL + Bubble(e, f)
          \/ e.clk + Latency(e) >= f.clk + Latency(f) + Speed.nBL + Bubble(e, f)

\* A rank opens no more rows in a window than its standard allows (nFAW, nTAW),
\* whatever bank groups, banks and subarrays they are in.
WindowKept(s) ==
  LET most == IF std = "WideIO" THEN 2 ELSE 4
      window == Value(s, "nFAW", Value(s, "nTAW", 0))
      f == Last(log)
      recent == {i \in DOMAIN log : /\ log[i].cmd \in Activations /\ log[i].addr[1] = f.addr[1]
                                    /\ log[i].clk > f.clk - window}
  IN  log # <<>> /\ f.cmd \in Activations => Cardinality(recent) <= most
ActsInWindow == std \notin {"ALDRAM", "TLDRAM"} => WindowKept(Speed)

\* The address that is open in a unit after the first k commands; <<>> if none is.
OpenAt(u, k) ==
  LET about == {i \in 1..k : /\ log[i].cmd \in Activations \cup Closings
                             /\ OnPath(Unit(log[i]), u)}
      e == log[Max(about)]
  IN  IF about = {} \/ e.cmd \in Closings THEN <<>> ELSE e.addr
\* The subarray of a bank that was opened or selected last.
LastChosen(b, k) ==
  Last(Unit(log[Max({i \in 1..k : log[i].cmd \in Activations \cup {"SASEL"} /\ OnPath(b, log[i].addr)})]))

\* Rows are opened only where none is open, data moves only to and from the row
\* that is open, and a refresh finds all rows closed.  A bank of SALP_1 has one
\* open subarray at most, one of SALP_2 when data moves, and in MASA data moves
\* in the subarray that was chosen last.
RowsExclusive ==
  LET f == Last(log)
      k == Len(log) - 1
      u == Unit(f)
      units == {Prefix(n, UnitDepth) : n \in Leaves}
      beside == {v \in units : Front(v) = Front(u)} \ {u}
  IN  log # <<>> =>
        /\ f.cmd \in Activations =>
             /\ OpenAt(u, k) = <<>>
             /\ std = "SALP_1" => \A v \in beside : OpenAt(v, k) = <<>>
        /\ f.cmd \in Reads \cup {"WR"} =>
             /\ OpenAt(u, k) = f.addr
             /\ std = "SALP_2" => \A v \in beside : OpenAt(v, k) = <<>>
             /\ std = "MASA" => LastChosen(Front(u), k) = Last(u)
        /\ f.cmd \in Refreshes =>
             \A v \in units : OnPath(u, v) => OpenAt(v, k) = <<>>

\* What a unit of rows needs from a command to a later one, in any standard.
SpeedAt(e) == IF e.temp = "COLD" THEN ALDRAMCold ELSE Speed
Required(e, f) ==
  LET s == SpeedAt(e)
      pre == Value(s, "nRP", Value(s, "nRPpb", 0))
      rp == IF e.cmd = "PREA" THEN Value(s, "nRPab", pre) ELSE pre
      rfc == Value(s, "nRFC", Value(s, "nRFCab", Value(s, "nRFCpb", 0)))
  IN  CASE e.cmd \in Activations /\ f.cmd \in Reads            -> s.nRCD
        [] e.cmd \in Activations /\ f.cmd = "WR"               -> Value(s, "nRCDW", s.nRCD)
        [] e.cmd \in Activations /\ f.cmd \in Closings \cup Refreshes -> s.nRAS
        [] e.cmd \in Activations /\ f.cmd \in Activations -> s.nRAS + rp
        [] e.cmd \in Reads /\ f.cmd \in Closings         -> s.nRTP
        [] e.cmd = "WR" /\ f.cmd \in Closings            -> WriteRecovery(s)
        [] e.cmd \in Closings /\ f.cmd \in Activations \cup Refreshes -> rp
        [] e.cmd \in Refreshes /\ f.cmd \in Activations \cup Refreshes ->
             IF std = "DSARP" /\ ~OnPath(e.addr, f.addr) THEN 0 ELSE rfc
        [] OTHER -> 0
TimesKept ==
  \A i \in Earlier :
    LET e == log[i]
        f == Last(log)
    IN  Meet(e, f) => f.clk >= e.clk + Required(e, f)
\* Each bank gets its times, in spite of what went to its siblings in between.
\* The standards left out fall short of them.
BankTimesKept == std \notin {"TLDRAM", "SALP_1", "SALP_2"} => TimesKept

\* Every row can be read from every state in at most four commands: requests do not
\* close and open rows for ever, also where several subarrays share a bank.  Banks
\* that no command has gone to are as at the start.
BankDepth == (CHOOSE i \in DOMAIN Levels[std] : Levels[std][i] = "Bank") - 1
RowsReachable ==
  \A addr \in {a \in Addresses : \E i \in DOMAIN log : OnPath(Prefix(a, BankDepth), log[i].addr)} :
    LET after[k \in 0..3] ==
          IF k = 0 THEN bank
          ELSE LET bk == after[k - 1]
                   cmd == Decode(bk, "RD", addr)
               IN  UpdateState(bk, cmd, Addressed(bk, cmd, addr))
    IN  \E k \in 0..3 : Decode(after[k], "RD", addr) = "RD"

\* What the scheduler is told is a hit (init_rowhit) is what needs neither a
\* precharge of its own unit nor an activation; and a hit is an open row too.
HitsAgree ==
  \A addr \in Addresses :
    /\ RowHit(addr) <=>
         \/ Decode(bank, "RD", addr) \in {"RD", "SASEL"}
         \/ std = "SALP_2" /\ Decode(bank, "RD", addr) = "PRE_OTHER"
    /\ RowHit(addr) /\ std # "ALDRAM" => RowOpen(addr)
=============================================================================
