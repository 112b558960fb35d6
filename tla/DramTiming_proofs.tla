-------------------------- MODULE DramTiming_proofs --------------------------
(***************************************************************************)
(* The channels whose banks have one row buffer each, for every number of  *)
(* ranks, bank groups, banks and rows, and for any commands.               *)
(***************************************************************************)
EXTENDS DramTiming, SequenceTheorems, FiniteSetTheorems, WellFoundedInduction, TLAPS

\* The standards with the rules PlainRules, HBM and PCM among them.
RowPerBank == {"DDR3", "PCM", "LPDDR3", "LPDDR4", "WideIO", "WideIO2", "ALDRAM",
               "DDR4", "GDDR5", "HBM"}

(***************************************************************************)
(* The tables of these standards.                                          *)
(***************************************************************************)
\* A list of two and one of at most two in a row.
LEMMA ListOfThree ==
  ASSUME NEW S, NEW u \in S, NEW v \in S, NEW x \in S
  PROVE  LET l == <<u, v>> \o <<x>>
         IN  Len(l) = 3 /\ DOMAIN l = 1..3 /\ l[1] = u /\ l[2] = v /\ l[3] = x
<1>1. <<u, v>> \in Seq(S) /\ <<x>> \in Seq(S) /\ Len(<<u, v>>) = 2 /\ Len(<<x>>) = 1
  OBVIOUS
<1>2. <<u, v>>[1] = u /\ <<u, v>>[2] = v /\ <<x>>[1] = x
  OBVIOUS
<1>3. <<u, v>> \o <<x>> \in Seq(S)
  BY <1>1, ConcatProperties
<1> QED
  BY <1>1, <1>2, <1>3, ConcatProperties

\* ... and of two.
LEMMA ListOfFour ==
  ASSUME NEW S, NEW u \in S, NEW v \in S, NEW x \in S, NEW y \in S
  PROVE  LET l == <<u, v>> \o <<x, y>>
         IN  Len(l) = 4 /\ DOMAIN l = 1..4 /\ l[1] = u /\ l[2] = v /\ l[3] = x /\ l[4] = y
<1>1. <<u, v>> \in Seq(S) /\ <<x, y>> \in Seq(S) /\ Len(<<u, v>>) = 2 /\ Len(<<x, y>>) = 2
  OBVIOUS
<1>2. <<u, v>>[1] = u /\ <<u, v>>[2] = v /\ <<x, y>>[1] = x /\ <<x, y>>[2] = y
  OBVIOUS
<1>3. <<u, v>> \o <<x, y>> \in Seq(S)
  BY <1>1, ConcatProperties
<1> QED
  BY <1>1, <1>2, <1>3, ConcatProperties

\* Their banks are the lowest nodes.
LEMMA LevelsAre ==
  ASSUME std \in RowPerBank
  PROVE  /\ LeafDepth(std) \in {2, 3} /\ Len(Levels[std]) = LeafDepth(std) + 1
         /\ DOMAIN Levels[std] = 1..(LeafDepth(std) + 1)
         /\ Levels[std][1] = "Channel" /\ Levels[std][2] = "Rank"
         /\ Levels[std][LeafDepth(std) + 1] = "Bank"
         /\ LeafDepth(std) = 3 => Levels[std][3] = "BankGroup"
<1>1. CASE std \in Plain
  <2>1. Levels[std] = <<"Channel", "Rank">> \o <<"Bank">>
    BY <1>1 DEF Levels
  <2>2. /\ Len(Levels[std]) = 3 /\ DOMAIN Levels[std] = 1..3 /\ Levels[std][1] = "Channel" /\ Levels[std][2] = "Rank"
        /\ Levels[std][3] = "Bank"
    BY <2>1, ListOfThree
  <2> QED
    BY <2>2 DEF LeafDepth
<1>2. CASE std \in Grouped
  <2>1. std \notin Plain
    BY <1>2 DEF Plain, Grouped
  <2>2. Levels[std] = <<"Channel", "Rank">> \o <<"BankGroup", "Bank">>
    BY <1>2, <2>1 DEF Levels
  <2>3. /\ Len(Levels[std]) = 4 /\ DOMAIN Levels[std] = 1..4 /\ Levels[std][1] = "Channel" /\ Levels[std][2] = "Rank"
        /\ Levels[std][3] = "BankGroup" /\ Levels[std][4] = "Bank"
    BY <2>2, ListOfFour
  <2> QED
    BY <2>3 DEF LeafDepth
<1> QED
  BY <1>1, <1>2 DEF RowPerBank, Plain, Grouped

\* What they need first, and do, is what DDR3 does.
LEMMA RulesAre ==
  ASSUME std \in RowPerBank
  PROVE  /\ Standard[std].rules.needs = PlainRules.needs
         /\ Standard[std].rules.effects = PlainRules.effects
         /\ std # "ALDRAM" => Standard[std].rules.open = "Bank"
<1> DEFINE R == {PlainRules, [PlainRules EXCEPT !.open = "none"]}
<1>1. /\ Standard["DDR3"].rules = PlainRules /\ Standard["PCM"].rules = PlainRules
      /\ Standard["DDR4"].rules = PlainRules /\ Standard["GDDR5"].rules = PlainRules
      /\ Standard["HBM"].rules = PlainRules /\ Standard["LPDDR3"].rules = PlainRules
      /\ Standard["LPDDR4"].rules = PlainRules /\ Standard["WideIO"].rules = PlainRules
      /\ Standard["WideIO2"].rules = PlainRules
      /\ Standard["ALDRAM"].rules = [PlainRules EXCEPT !.open = "none"]
  BY DEF Standard, Tables, DDR3Rules, PCMRules, DDR4Rules, GDDR5Rules, HBMRules, LPDDR3Rules,
         LPDDR4Rules, WideIORules, WideIO2Rules, ALDRAMRules
<1>2. /\ PlainRules.open = "Bank"
      /\ [PlainRules EXCEPT !.open = "none"].needs = PlainRules.needs
      /\ [PlainRules EXCEPT !.open = "none"].effects = PlainRules.effects
  BY DEF PlainRules
<1> QED
  BY <1>1, <1>2 DEF RowPerBank

\* The rule of a request, and of a command, at a node.
LEMMA NodeRules ==
  ASSUME std \in RowPerBank, NEW n
  PROVE  LET needs == Standard[std].rules.needs
             effects == Standard[std].rules.effects
         IN  /\ \A type \in {"RD", "WR"} :
                  RuleAt(needs, n, type) = IF Level(n) = "Bank" THEN "row" ELSE "none"
             /\ RuleAt(needs, n, "REF") = IF Level(n) = "Rank" THEN "banksClosed" ELSE "none"
             /\ RuleAt(effects, n, "ACT") = IF Level(n) = "Bank" THEN "open" ELSE "none"
             /\ RuleAt(effects, n, "PRE") = IF Level(n) = "Bank" THEN "close" ELSE "none"
             /\ RuleAt(effects, n, "PREA") = IF Level(n) = "Rank" THEN "closeBelow" ELSE "none"
             /\ \A cmd \in {"RD", "WR", "REF"} : RuleAt(effects, n, cmd) = "none"
<1> DEFINE needs == PlainRules.needs
           effects == PlainRules.effects
<1>1. /\ DOMAIN needs = {"Rank", "Bank"} /\ DOMAIN effects = {"Rank", "Bank"}
      /\ needs["Rank"] = [REF |-> "banksClosed"]
      /\ needs["Bank"] = [RD |-> "row", WR |-> "row"]
      /\ effects["Rank"] = [PREA |-> "closeBelow"]
      /\ effects["Bank"] = [ACT |-> "open", PRE |-> "close"]
  BY DEF PlainRules
<1>2. Standard[std].rules.needs = needs /\ Standard[std].rules.effects = effects
  BY RulesAre
<1> HIDE DEF needs, effects
<1>3. \A type \in {"RD", "WR"} : RuleAt(needs, n, type) = IF Level(n) = "Bank" THEN "row" ELSE "none"
  BY <1>1 DEF RuleAt
<1>4. RuleAt(needs, n, "REF") = IF Level(n) = "Rank" THEN "banksClosed" ELSE "none"
  BY <1>1 DEF RuleAt
<1>5. /\ RuleAt(effects, n, "ACT") = IF Level(n) = "Bank" THEN "open" ELSE "none"
      /\ RuleAt(effects, n, "PRE") = IF Level(n) = "Bank" THEN "close" ELSE "none"
  BY <1>1 DEF RuleAt
<1>6. /\ RuleAt(effects, n, "PREA") = IF Level(n) = "Rank" THEN "closeBelow" ELSE "none"
      /\ \A cmd \in {"RD", "WR", "REF"} : RuleAt(effects, n, cmd) = "none"
  BY <1>1 DEF RuleAt
<1> QED
  BY <1>2, <1>3, <1>4, <1>5, <1>6

(***************************************************************************)
(* Nodes and addresses.                                                    *)
(***************************************************************************)
\* The banks.
BankNodes == {m \in Nodes(std) : Level(m) \in {"Bank", "SubArray"}}
D == LeafDepth(std)

\* A node that holds rows is a bank, at the last level.
LEMMA BanksAre ==
  ASSUME std \in RowPerBank, NEW b \in BankNodes
  PROVE  /\ b \in Seq(0..4) /\ Len(b) = D /\ Level(b) = "Bank"
         /\ b[1] \in 0..4 /\ b[1] < Count[std][1]
<1>1. PICK d \in 0..D : b \in [1..d -> 0..4] /\ \A i \in 1..d : b[i] < Count[std][i]
  BY DEF BankNodes, Nodes, D
<1>2. D \in {2, 3}
  BY LevelsAre DEF D
<1>3. b \in Seq(0..4) /\ Len(b) = d
  BY <1>1, <1>2
<1>4. Levels[std][d + 1] \in {"Bank", "SubArray"}
  BY <1>3 DEF BankNodes, Level
<1>5. d = D
  <2>1. CASE D = 2
    BY <1>1, <1>2, <1>4, <2>1, LevelsAre DEF D
  <2>2. CASE D = 3
    BY <1>1, <1>2, <1>4, <2>2, LevelsAre DEF D
  <2> QED
    BY <1>2, <2>1, <2>2
<1>6. Level(b) = "Bank"
  BY <1>3, <1>5, LevelsAre DEF Level, D
<1> QED
  BY <1>1, <1>2, <1>3, <1>5, <1>6

\* The nodes on the way to a row.
LEMMA RowPath ==
  ASSUME std \in RowPerBank, NEW b \in BankNodes, NEW row
  PROVE  LET a == Append(b, row)
         IN  /\ Len(a) = D + 1 /\ a[D + 1] = row /\ a[1] = b[1] /\ Last(a) = row
             /\ Prefix(a, D) = b /\ DepthOf(a) = D
             /\ \A d \in 0..D : Len(Prefix(a, d)) = d /\ Prefix(a, d) = Prefix(b, d)
<1> DEFINE S == (0..4) \cup {row}
           a == Append(b, row)
<1>1. b \in Seq(S) /\ Len(b) = D /\ D \in {2, 3} /\ row \in S
  <2>1. b \in Seq(0..4) /\ Len(b) = D /\ D \in {2, 3}
    BY BanksAre, LevelsAre DEF D
  <2> QED
    BY <2>1
<1> HIDE DEF S
<1>2. a \in Seq(S) /\ Len(a) = D + 1 /\ a[D + 1] = row /\ \A i \in 1..D : a[i] = b[i]
  BY <1>1
<1> HIDE DEF a
<1>3. ASSUME NEW d \in 0..D
      PROVE  Len(Prefix(a, d)) = d /\ Prefix(a, d) = Prefix(b, d)
  <2>1. SubSeq(a, 1, d) \in Seq(S) /\ Len(SubSeq(a, 1, d)) = d
    BY <1>1, <1>2
  <2>2. SubSeq(b, 1, d) \in Seq(S) /\ Len(SubSeq(b, 1, d)) = d
    BY <1>1
  <2>3. \A i \in 1..d : SubSeq(a, 1, d)[i] = a[i] /\ SubSeq(b, 1, d)[i] = b[i] /\ a[i] = b[i]
    BY <1>1, <1>2
  <2>4. SubSeq(a, 1, d) = SubSeq(b, 1, d)
    BY <2>1, <2>2, <2>3, SeqEqual
  <2> QED
    BY <2>1, <2>4 DEF Prefix
<1>4. Prefix(b, D) = b
  BY <1>1, SubSeqFull DEF Prefix
<1>5. DepthOf(a) = D
  <2>1. \A x \in {D + 1, D} : (\A y \in {D + 1, D} : x <= y) <=> x = D
    BY <1>1
  <2> QED
    BY <1>2, <2>1 DEF DepthOf, Min, D
<1>6. Last(a) = row
  BY <1>2 DEF Last
<1> QED
  BY <1>1, <1>2, <1>3, <1>4, <1>5, <1>6 DEF a

\* The nodes on the way to a rank.
LEMMA RankPath ==
  ASSUME std \in RowPerBank, NEW r
  PROVE  /\ DepthOf(<<r>>) = 1 /\ Prefix(<<r>>, 0) = <<>> /\ Prefix(<<r>>, 1) = <<r>>
         /\ Len(<<r>>) = 1 /\ Len(<<>>) = 0
<1>1. D \in {2, 3}
  BY LevelsAre DEF D
<1>2. DepthOf(<<r>>) = 1
  <2>1. \A x \in {1, D} : (\A y \in {1, D} : x <= y) <=> x = 1
    BY <1>1
  <2>2. Len(<<r>>) = 1
    OBVIOUS
  <2> QED
    BY <2>1, <2>2 DEF DepthOf, Min, D
<1>3. <<r>> \in Seq({r})
  OBVIOUS
<1>4. Prefix(<<r>>, 1) = <<r>>
  BY <1>3, SubSeqFull DEF Prefix
<1>5. Prefix(<<r>>, 0) = <<>>
  BY DEF Prefix
<1> QED
  BY <1>2, <1>4, <1>5

\* The levels on the way to a bank that are not its own.
LEMMA UpperLevels ==
  ASSUME std \in RowPerBank
  PROVE  /\ D \in {2, 3}
         /\ \A n : Len(n) = D => Level(n) = "Bank"
         /\ \A n : Len(n) = 1 => Level(n) = "Rank"
         /\ \A n : Len(n) = 0 => Level(n) = "Channel"
         /\ \A n : Len(n) \in 0..(D - 1) /\ Len(n) # 1 => Level(n) \in {"Channel", "BankGroup"}
<1> USE LevelsAre DEF D, Level
<1>1. D \in {2, 3}
  OBVIOUS
<1>2. \A n : Len(n) = D => Level(n) = "Bank"
  OBVIOUS
<1>3. \A n : Len(n) = 1 => Level(n) = "Rank"
  OBVIOUS
<1>4. \A n : Len(n) = 0 => Level(n) = "Channel"
  OBVIOUS
<1>5. ASSUME NEW n, Len(n) \in 0..(D - 1), Len(n) # 1
      PROVE  Level(n) \in {"Channel", "BankGroup"}
  <2>1. CASE Len(n) = 0
    BY <1>4, <2>1
  <2>2. CASE Len(n) = 2 /\ D = 3
    BY <2>2
  <2> HIDE DEF D, Level
  <2>3. \A l \in 0..(D - 1) : l # 1 => l = 0 \/ (l = 2 /\ D = 3)
    BY ONLY <1>1
  <2> QED
    BY ONLY <1>5, <2>1, <2>2, <2>3
<1> QED
  BY <1>1, <1>2, <1>3, <1>4, <1>5

(***************************************************************************)
(* What a request needs first.                                             *)
(***************************************************************************)
\* A column command needs a precharge if another row is open, and an
\* activation if none is.
LEMMA AccessNeeds ==
  ASSUME std \in RowPerBank, NEW b \in BankNodes, NEW row, NEW bk, NEW type \in {"RD", "WR"}
  PROVE  Decode(bk, type, Append(b, row)) = RowNeed(bk[b], row, "ACT", "PRE", type)
<1> DEFINE a == Append(b, row)
           rules == Standard[std].rules.needs
           need(d) == Need(bk, Prefix(a, d), type, Id(a, d))
           needs == [d \in 0..D |-> need(d)]
           most == RowNeed(bk[b], row, "ACT", "PRE", type)
<1>1. /\ D \in {2, 3} /\ Len(a) = D + 1 /\ a[D + 1] = row /\ Prefix(a, D) = b /\ DepthOf(a) = D
      /\ \A d \in 0..D : Len(Prefix(a, d)) = d
  BY RowPath, UpperLevels
<1>2. need(D) = most
  <2>1. RuleAt(rules, b, type) = "row"
    BY BanksAre, NodeRules
  <2>2. Id(a, D) = row
    BY <1>1 DEF Id
  <2> HIDE DEF rules, a
  <2>3. NeedUnder("row", bk, b, type, row) = most
    BY DEF NeedUnder
  <2> QED
    BY <1>1, <2>1, <2>2, <2>3 DEF Need, rules
<1>3. ASSUME NEW d \in 0..D, d # D
      PROVE  need(d) = "MAX"
  <2>1. Level(Prefix(a, d)) # "Bank"
    BY <1>1, <1>3, UpperLevels
  <2>2. RuleAt(rules, Prefix(a, d), type) = "none"
    BY <2>1, NodeRules
  <2> HIDE DEF rules, a
  <2> QED
    BY <2>2 DEF Need, NeedUnder, rules
<1>4. most # "MAX"
  BY DEF RowNeed
<1> HIDE DEF a, need, most
<1>5. {d \in DOMAIN needs : needs[d] # "MAX"} = {D}
  BY <1>1, <1>2, <1>3, <1>4
<1>6. Min({D}) = D
  BY <1>1 DEF Min
<1> HIDE DEF needs
<1>7. FirstOf(needs, type) = needs[D]
  BY <1>5, <1>6 DEF FirstOf
<1>8. needs[D] = most
  BY <1>1, <1>2 DEF needs
<1>9. Decode(bk, type, a) = FirstOf(needs, type)
  BY <1>1 DEF Decode, needs, need
<1> QED
  BY <1>7, <1>8, <1>9 DEF a, most

\* A refresh needs a precharge of all banks, unless all are closed.
LEMMA RefreshNeeds ==
  ASSUME std \in RowPerBank, NEW r, NEW bk
  PROVE  Decode(bk, "REF", <<r>>) = IF AllClosed(bk, <<r>>, "Bank") THEN "REF" ELSE "PREA"
<1> DEFINE a == <<r>>
           rules == Standard[std].rules.needs
           need(d) == Need(bk, Prefix(a, d), "REF", Id(a, d))
           needs == [d \in 0..1 |-> need(d)]
           most == IF AllClosed(bk, <<r>>, "Bank") THEN "REF" ELSE "PREA"
<1>1. /\ DepthOf(a) = 1 /\ Prefix(a, 0) = <<>> /\ Prefix(a, 1) = a
      /\ Level(a) = "Rank" /\ Level(<<>>) = "Channel"
  BY RankPath, UpperLevels
<1>2. need(1) = most
  <2>1. RuleAt(rules, a, "REF") = "banksClosed"
    BY <1>1, NodeRules
  <2> HIDE DEF rules
  <2>2. NeedUnder("banksClosed", bk, a, "REF", Id(a, 1)) = most
    BY DEF NeedUnder
  <2> QED
    BY <1>1, <2>1, <2>2 DEF Need, rules
<1>3. need(0) = "MAX"
  <2>1. RuleAt(rules, <<>>, "REF") = "none"
    BY <1>1, NodeRules
  <2> HIDE DEF rules, a
  <2> QED
    BY <1>1, <2>1 DEF Need, NeedUnder, rules
<1>4. most # "MAX"
  OBVIOUS
<1> HIDE DEF a, need, most
<1>5. {d \in DOMAIN needs : needs[d] # "MAX"} = {1}
  BY <1>2, <1>3, <1>4
<1>6. Min({1}) = 1
  BY DEF Min
<1> HIDE DEF needs
<1>7. FirstOf(needs, "REF") = needs[1]
  BY <1>5, <1>6 DEF FirstOf
<1>8. needs[1] = most
  BY <1>2 DEF needs
<1>9. Decode(bk, "REF", a) = FirstOf(needs, "REF")
  BY <1>1 DEF Decode, needs, need
<1> QED
  BY <1>7, <1>8, <1>9 DEF a, most

(***************************************************************************)
(* What a command does.                                                    *)
(***************************************************************************)
LEMMA ScopesAre ==
  ASSUME std \in RowPerBank
  PROVE  /\ \A cmd \in {"ACT", "PRE", "RD", "WR"} : ScopeDepth(cmd) = D
         /\ \A cmd \in {"REF", "PREA"} : ScopeDepth(cmd) = 1
<1> DEFINE L == Levels[std]
<1>1. /\ Len(L) = D + 1 /\ D \in {2, 3} /\ DOMAIN L = 1..(D + 1) /\ L[1] = "Channel"
      /\ L[2] = "Rank" /\ L[D + 1] = "Bank" /\ (D = 3 => L[3] = "BankGroup")
  BY LevelsAre DEF D
<1> HIDE DEF L
<1>2. \A cmd \in {"ACT", "PRE", "RD", "WR"} : Scope(cmd) = "Bank"
  <2>1. Last(L) = "Bank"
    BY <1>1 DEF Last
  <2>2. std \notin Salp
    BY DEF RowPerBank, Salp
  <2> QED
    BY <2>1, <2>2 DEF Scope, L
<1>3. \A cmd \in {"REF", "PREA"} : Scope(cmd) = "Rank"
  BY DEF Scope
<1>4. \A i \in DOMAIN L : (L[i] = "Bank" <=> i = D + 1) /\ (L[i] = "Rank" <=> i = 2)
  BY <1>1
<1>5. (CHOOSE i \in DOMAIN L : L[i] = "Bank") = D + 1
  BY <1>1, <1>4
<1>6. (CHOOSE i \in DOMAIN L : L[i] = "Rank") = 2
  BY <1>1, <1>4
<1>7. ASSUME NEW cmd \in {"ACT", "PRE", "RD", "WR"}
      PROVE  ScopeDepth(cmd) = D
  <2>1. Scope(cmd) = "Bank"
    BY <1>2
  <2>2. ScopeDepth(cmd) = (CHOOSE i \in DOMAIN L : L[i] = "Bank") - 1
    BY <2>1 DEF ScopeDepth, L
  <2> QED
    BY <1>1, <1>5, <2>2
<1>8. ASSUME NEW cmd \in {"REF", "PREA"}
      PROVE  ScopeDepth(cmd) = 1
  <2>1. Scope(cmd) = "Rank"
    BY <1>3
  <2>2. ScopeDepth(cmd) = (CHOOSE i \in DOMAIN L : L[i] = "Rank") - 1
    BY <2>1 DEF ScopeDepth, L
  <2> QED
    BY <1>6, <2>2
<1> QED
  BY <1>7, <1>8

\* The nodes above the scope of a command do not change, and the one at its
\* scope decides.
LEMMA UpdateIs ==
  ASSUME NEW bk, NEW cmd, NEW addr, ScopeDepth(cmd) \in {1, 2, 3},
         \A d \in 0..(ScopeDepth(cmd) - 1) : Effect(bk, Prefix(addr, d), cmd, Id(addr, d)) = bk
  PROVE  LET S == ScopeDepth(cmd)
         IN  UpdateState(bk, cmd, addr) = Effect(bk, Prefix(addr, S), cmd, Id(addr, S))
<1> DEFINE S == ScopeDepth(cmd)
           E(x, d) == Effect(x, Prefix(addr, d), cmd, Id(addr, d))
           is(f) == f = [d \in 0..S |-> E(IF d = 0 THEN bk ELSE f[d - 1], d)]
           after == CHOOSE f : is(f)
           witness == [d \in 0..S |-> IF d < S THEN bk ELSE E(bk, S)]
<1>0. S \in {1, 2, 3} /\ \A d \in 0..(S - 1) : E(bk, d) = bk
  OBVIOUS
<1>1. UpdateState(bk, cmd, addr) = after[S]
  BY DEF UpdateState
<1> HIDE DEF S, E
<1>2. is(witness)
  <2>1. ASSUME NEW d \in 0..S
        PROVE  witness[d] = E(IF d = 0 THEN bk ELSE witness[d - 1], d)
    <3>1. CASE d = 0
      BY <1>0, <3>1
    <3>2. CASE d # 0
      <4>1. d - 1 \in 0..S /\ d - 1 < S
        BY <1>0, <3>2
      <4>2. witness[d - 1] = bk
        BY <4>1
      <4>3. CASE d < S
        BY <1>0, <3>2, <4>2, <4>3
      <4>4. CASE d = S
        BY <3>2, <4>2, <4>4
      <4> QED
        BY <1>0, <4>3, <4>4
    <3> QED
      BY <3>1, <3>2
  <2> HIDE DEF witness
  <2>2. witness = [d \in 0..S |-> witness[d]]
    BY DEF witness
  <2> QED
    BY <2>1, <2>2
<1>3. is(after)
  BY <1>2
<1> HIDE DEF after
<1>4. \A d \in 0..S : after[d] = E(IF d = 0 THEN bk ELSE after[d - 1], d)
  BY <1>3
<1>5. after[0] = bk
  BY <1>0, <1>4
<1>6. after[S - 1] = bk
  <2>1. S > 1 => after[1] = bk
    <3>1. SUFFICES ASSUME S > 1
                   PROVE  after[1] = bk
      OBVIOUS
    <3>2. after[1] = E(after[0], 1) /\ E(bk, 1) = bk
      BY <1>0, <1>4, <3>1
    <3> QED
      BY <1>5, <3>2
  <2>2. S > 2 => after[2] = bk
    <3>1. SUFFICES ASSUME S > 2
                   PROVE  after[2] = bk
      OBVIOUS
    <3>2. after[2] = E(after[1], 2) /\ E(bk, 2) = bk
      BY <1>0, <1>4, <3>1
    <3> QED
      BY <1>0, <2>1, <3>1, <3>2
  <2> QED
    BY <1>0, <1>5, <2>1, <2>2
<1>7. after[S] = E(after[S - 1], S)
  BY <1>0, <1>4
<1> QED
  BY <1>1, <1>6, <1>7 DEF S, E

\* A command with a bank as its scope: an activation opens a row in it, a
\* precharge closes it, and column commands leave it as it is.
LEMMA BankEffects ==
  ASSUME std \in RowPerBank, NEW b \in BankNodes, NEW row, NEW bk,
         NEW cmd \in {"ACT", "PRE", "RD", "WR"}
  PROVE  UpdateState(bk, cmd, Append(b, row)) =
           CASE cmd = "ACT" -> Opened(bk, b, row)
             [] cmd = "PRE" -> [bk EXCEPT ![b] = ClosedNode]
             [] OTHER       -> bk
<1> DEFINE a == Append(b, row)
           rules == Standard[std].rules.effects
<1>1. /\ D \in {2, 3} /\ Len(a) = D + 1 /\ a[D + 1] = row /\ Prefix(a, D) = b
      /\ \A d \in 0..D : Len(Prefix(a, d)) = d
  BY RowPath, UpperLevels
<1>2. ScopeDepth(cmd) = D
  BY ScopesAre
<1> HIDE DEF a
<1>3. ASSUME NEW d \in 0..(D - 1)
      PROVE  Effect(bk, Prefix(a, d), cmd, Id(a, d)) = bk
  <2>1. Len(Prefix(a, d)) = d
    BY <1>1
  <2>2. Level(Prefix(a, d)) # "Bank"
    <3>1. \A n : Len(n) \in 0..(D - 1) => Level(n) # "Bank"
      BY UpperLevels
    <3> QED
      BY <2>1, <3>1
  <2>3. RuleAt(rules, Prefix(a, d), cmd) = "none"
    BY <2>2, NodeRules
  <2> HIDE DEF rules
  <2>4. EffectUnder("none", bk, Prefix(a, d), Id(a, d)) = bk
    BY DEF EffectUnder
  <2> QED
    BY <2>3, <2>4 DEF Effect, rules
<1>4. UpdateState(bk, cmd, a) = Effect(bk, Prefix(a, D), cmd, Id(a, D))
  <2>1. ScopeDepth(cmd) \in {1, 2, 3}
    BY <1>1, <1>2
  <2>2. \A d \in 0..(ScopeDepth(cmd) - 1) : Effect(bk, Prefix(a, d), cmd, Id(a, d)) = bk
    BY <1>2, <1>3
  <2> QED
    BY <1>2, <2>1, <2>2, UpdateIs
<1>5. Id(a, D) = row
  BY <1>1 DEF Id
<1>6. Effect(bk, b, cmd, row) = EffectUnder(RuleAt(rules, b, cmd), bk, b, row)
  BY DEF Effect
<1>7. RuleAt(rules, b, cmd) = CASE cmd = "ACT" -> "open" [] cmd = "PRE" -> "close" [] OTHER -> "none"
  BY BanksAre, NodeRules
<1> HIDE DEF rules
<1>8. /\ EffectUnder("open", bk, b, row) = Opened(bk, b, row)
      /\ EffectUnder("close", bk, b, row) = [bk EXCEPT ![b] = ClosedNode]
      /\ EffectUnder("none", bk, b, row) = bk
  BY DEF EffectUnder
<1> QED
  BY <1>1, <1>4, <1>5, <1>6, <1>7, <1>8 DEF a

\* A command with a rank as its scope: a precharge closes all banks of the
\* rank, and a refresh leaves them as they are.
LEMMA RankEffects ==
  ASSUME std \in RowPerBank, NEW r, NEW bk, NEW cmd \in {"REF", "PREA"}
  PROVE  UpdateState(bk, cmd, <<r>>) =
           IF cmd = "REF" THEN bk
           ELSE [m \in DOMAIN bk |-> IF OnPath(<<r>>, m) THEN ClosedNode ELSE bk[m]]
<1> DEFINE a == <<r>>
           rules == Standard[std].rules.effects
<1>1. /\ Prefix(a, 0) = <<>> /\ Prefix(a, 1) = a /\ Level(a) = "Rank" /\ Level(<<>>) = "Channel"
  BY RankPath, UpperLevels
<1>2. ScopeDepth(cmd) = 1
  BY ScopesAre
<1> HIDE DEF a
<1>3. RuleAt(rules, <<>>, cmd) = "none"
  BY <1>1, NodeRules
<1>4. RuleAt(rules, a, cmd) = IF cmd = "REF" THEN "none" ELSE "closeBelow"
  BY <1>1, NodeRules
<1> HIDE DEF rules
<1>5. /\ \A n, id : EffectUnder("none", bk, n, id) = bk
      /\ \A id : EffectUnder("closeBelow", bk, a, id) =
                   [m \in DOMAIN bk |-> IF OnPath(a, m) THEN ClosedNode ELSE bk[m]]
  BY DEF EffectUnder
<1>6. Effect(bk, <<>>, cmd, Id(a, 0)) = bk
  BY <1>3, <1>5 DEF Effect, rules
<1>7. UpdateState(bk, cmd, a) = Effect(bk, Prefix(a, 1), cmd, Id(a, 1))
  <2>1. \A d \in 0..(ScopeDepth(cmd) - 1) : d = 0
    BY <1>2
  <2>2. \A d \in 0..(ScopeDepth(cmd) - 1) : Effect(bk, Prefix(a, d), cmd, Id(a, d)) = bk
    BY <1>1, <1>6, <2>1
  <2>3. ScopeDepth(cmd) \in {1, 2, 3}
    BY <1>2
  <2> QED
    BY <1>2, <2>2, <2>3, UpdateIs
<1>8. Effect(bk, a, cmd, Id(a, 1)) = EffectUnder(RuleAt(rules, a, cmd), bk, a, Id(a, 1))
  BY DEF Effect, rules
<1> QED
  BY <1>1, <1>4, <1>5, <1>7, <1>8 DEF a

(***************************************************************************)
(* The rows that are open, by the log and by the nodes.                    *)
(***************************************************************************)
LogIsSeq == \E X : log \in Seq(X)

\* A set of positions in a list has a greatest one.
LEMMA GreatestOf ==
  ASSUME NEW n \in Nat, NEW S \in SUBSET (1..n), S # {}
  PROVE  \E m \in S : \A x \in S : m >= x
<1> DEFINE R == {p \in Nat \X Nat : p[1] < p[2]}
           T == {t \in 0..n : n - t \in S}
<1>1. IsWellFoundedOn(R, Nat)
  BY NatLessThanWellFounded DEF OpToRel
<1>2. \A i, j \in Nat : i < j => <<i, j>> \in R
  OBVIOUS
<1>3. T \in SUBSET Nat
  OBVIOUS
<1>4. \A x \in S : n - x \in T
  OBVIOUS
<1>5. T # {}
  BY <1>4
<1>6. \A t \in T : t \in Nat /\ n - t \in S
  OBVIOUS
<1> HIDE DEF R, T
<1>7. PICK t \in T : \A y \in T : ~ (<<y, t>> \in R)
  BY <1>1, <1>3, <1>5, WFMin
<1>8. ASSUME NEW x \in S
      PROVE  n - t >= x
  <2>1. n - x \in T /\ n - x \in Nat /\ t \in Nat
    BY <1>4, <1>6
  <2>2. ~ (n - x < t)
    BY <1>2, <1>7, <2>1
  <2> QED
    BY <2>1, <2>2
<1> QED
  BY <1>6, <1>8

\* What a new command does to what the log says of a unit.
LEMMA OpenAtNext ==
  ASSUME LogIsSeq, NEW e, log' = Append(log, e), std' = std, NEW u
  PROVE  /\ \A x : Unit(x)' = Unit(x)
         /\ \A k \in 0..Len(log) : OpenAt(u, k)' = OpenAt(u, k)
         /\ \A k : k = Len(log) + 1 =>
              OpenAt(u, k)' =
                IF e.cmd \in Activations \cup Closings /\ OnPath(Unit(e), u)
                  THEN IF e.cmd \in Closings THEN <<>> ELSE e.addr
                  ELSE OpenAt(u, Len(log))
<1> DEFINE n == Len(log)
           rows == Activations \cup Closings
           about(k) == {i \in 1..k : log[i].cmd \in rows /\ OnPath(Unit(log[i]), u)}
           aboutNow(k) == {i \in 1..k : log'[i].cmd \in rows /\ OnPath(Unit(log'[i]), u)}
           reads(l, S) == IF S = {} \/ l[Max(S)].cmd \in Closings THEN <<>> ELSE l[Max(S)].addr
<1>1. /\ n \in Nat /\ log'[n + 1] = e /\ \A i \in 1..n : log'[i] = log[i]
      /\ Len(log') = n + 1
  <2>1. PICK X : log \in Seq(X)
    BY DEF LogIsSeq
  <2>2. log \in Seq(X \cup {e}) /\ e \in X \cup {e}
    BY <2>1
  <2> QED
    BY <2>2
<1>2. \A x : Unit(x)' = Unit(x)
  BY DEF Unit, UnitDepth, LeafDepth
<1>3. \A k : OpenAt(u, k) = reads(log, about(k))
  BY DEF OpenAt
<1>4. ASSUME NEW k
      PROVE  OpenAt(u, k)' = reads(log', aboutNow(k))
  <2> DEFINE S == {i \in 1..k : log'[i].cmd \in rows /\ OnPath(Unit(log[i])', u)}
  <2>1. OpenAt(u, k)' = reads(log', S)
    BY DEF OpenAt, OnPath, Prefix
  <2>2. \A i : Unit(log[i])' = Unit(log'[i])
    BY DEF Unit, UnitDepth, LeafDepth
  <2>3. S = aboutNow(k)
    BY <2>2
  <2> QED
    BY <2>1, <2>3
<1>5. ASSUME NEW k \in 0..n
      PROVE  aboutNow(k) = about(k)
  BY <1>1, <1>5
<1>6. ASSUME NEW S \in SUBSET (1..n)
      PROVE  reads(log', S) = reads(log, S)
  <2>1. S # {} => Max(S) \in S
    <3>1. SUFFICES ASSUME S # {}
                   PROVE  Max(S) \in S
      OBVIOUS
    <3>2. \E m \in S : \A x \in S : m >= x
      BY <1>1, <3>1, GreatestOf
    <3> QED
      BY <3>2 DEF Max
  <2>2. S # {} => log'[Max(S)] = log[Max(S)]
    BY <1>1, <2>1
  <2> QED
    BY <2>2
<1>7. \A k \in 0..n : OpenAt(u, k)' = OpenAt(u, k)
  <2>1. SUFFICES ASSUME NEW k \in 0..n
                 PROVE  OpenAt(u, k)' = OpenAt(u, k)
    OBVIOUS
  <2>2. about(k) \in SUBSET (1..n)
    BY <1>1
  <2> HIDE DEF about, aboutNow, reads
  <2> QED
    BY <1>3, <1>4, <1>5, <1>6, <2>2
<1>8. CASE e.cmd \in rows /\ OnPath(Unit(e), u)
  <2>1. n + 1 \in aboutNow(n + 1) /\ \A i \in aboutNow(n + 1) : i \in 1..(n + 1)
    BY <1>1, <1>8
  <2> HIDE DEF about, aboutNow
  <2>2. \A m \in aboutNow(n + 1) :
          (\A i \in aboutNow(n + 1) : m >= i) <=> m = n + 1
    BY <1>1, <2>1
  <2>3. Max(aboutNow(n + 1)) = n + 1
    BY <2>1, <2>2 DEF Max
  <2>4. reads(log', aboutNow(n + 1)) = IF e.cmd \in Closings THEN <<>> ELSE e.addr
    BY <1>1, <2>1, <2>3
  <2> HIDE DEF reads, n
  <2>5. \A k : k = n + 1 => OpenAt(u, k)' = IF e.cmd \in Closings THEN <<>> ELSE e.addr
    BY <1>4, <2>4
  <2> QED
    BY <1>2, <1>7, <1>8, <2>5 DEF n
<1>9. CASE ~(e.cmd \in rows /\ OnPath(Unit(e), u))
  <2>1. aboutNow(n + 1) = about(n) /\ about(n) \in SUBSET (1..n)
    <3>1. \A i \in 1..(n + 1) : i = n + 1 \/ i \in 1..n
      BY <1>1
    <3>2. \A i \in 1..n : i \in 1..(n + 1)
      BY <1>1
    <3> HIDE DEF n
    <3> QED
      BY <1>1, <1>9, <3>1, <3>2
  <2> HIDE DEF about, aboutNow, reads
  <2> QED
    BY <1>2, <1>3, <1>4, <1>6, <1>7, <1>9, <2>1
<1> QED
  BY <1>8, <1>9

(***************************************************************************)
(* The steps.                                                              *)
(***************************************************************************)
\* A column command, or what it needs first, goes to the bank b.
AccessStep(b, row, e) ==
  \E type \in {"RD", "WR"} :
    /\ e.addr = Append(b, row)
    /\ e.cmd = RowNeed(bank[b], row, "ACT", "PRE", type)
    /\ e.clk = Earliest(e.cmd, e.addr) /\ e.temp = temp
    /\ log' = Append(log, e)
    /\ bank' = CASE e.cmd = "ACT" -> Opened(bank, b, row)
                 [] e.cmd = "PRE" -> [bank EXCEPT ![b] = ClosedNode]
                 [] OTHER         -> bank
\* A refresh, or the precharge that it needs first, goes to the rank r.
RankStep(r, e) ==
  /\ e.addr = <<r>>
  /\ e.cmd = IF AllClosed(bank, <<r>>, "Bank") THEN "REF" ELSE "PREA"
  /\ e.clk = Earliest(e.cmd, e.addr) /\ e.temp = temp
  /\ log' = Append(log, e)
  /\ bank' = IF e.cmd = "REF" THEN bank
             ELSE [m \in DOMAIN bank |-> IF OnPath(<<r>>, m) THEN ClosedNode ELSE bank[m]]

\* The leaves of the tree are the banks.
LEMMA LeavesAre ==
  ASSUME std \in RowPerBank, DOMAIN bank = BankNodes
  PROVE  Leaves = BankNodes
BY BanksAre DEF Leaves, D

\* What Next does to these channels.
LEMMA StepIs ==
  ASSUME std \in RowPerBank, DOMAIN bank = BankNodes, Next
  PROVE  /\ std' = std
         /\ \/ UNCHANGED <<bank, log>> /\ std = "ALDRAM" /\ temp' = "COLD"
            \/ /\ temp' = temp
               /\ \E b \in BankNodes, row \in RowIds : \E e : AccessStep(b, row, e)
            \/ temp' = temp /\ \E r : \E e : RankStep(r, e)
<1>1. ASSUME NEW b \in BankNodes, NEW row \in RowIds, NEW type \in {"RD", "WR"},
             Issue(type, type, Append(b, row))
      PROVE  std' = std /\ temp' = temp /\ \E e : AccessStep(b, row, e)
  <2> DEFINE a == Append(b, row)
             most == RowNeed(bank[b], row, "ACT", "PRE", type)
  <2>1. Decode(bank, type, a) = most
    BY AccessNeeds
  <2>2. most \in {"ACT", "PRE", "RD", "WR"}
    BY DEF RowNeed
  <2> HIDE DEF a
  <2>3. Addressed(bank, most, a) = a
    BY <2>2 DEF Addressed
  <2>4. IssueAt(Earliest(most, a), most, a)
    BY <1>1, <2>1, <2>3 DEF Issue, a
  <2> HIDE DEF most
  <2>5. PICK e : e = [cmd |-> most, addr |-> a, clk |-> Earliest(most, a), temp |-> temp]
    OBVIOUS
  <2>6. e.cmd = most /\ e.addr = a /\ e.clk = Earliest(most, a) /\ e.temp = temp
    BY <2>5
  <2>7. /\ log' = Append(log, e) /\ bank' = UpdateState(bank, most, a)
        /\ std' = std /\ temp' = temp
    BY <2>4, <2>5 DEF IssueAt
  <2>8. UpdateState(bank, most, a) =
          CASE most = "ACT" -> Opened(bank, b, row)
            [] most = "PRE" -> [bank EXCEPT ![b] = ClosedNode]
            [] OTHER        -> bank
    BY <2>2, BankEffects DEF a
  <2>9. AccessStep(b, row, e)
    BY <2>6, <2>7, <2>8 DEF AccessStep, most, a
  <2> QED
    BY <2>7, <2>9
<1>2. ASSUME NEW addr \in Addresses, Access(addr)
      PROVE  std' = std /\ temp' = temp /\ \E b \in BankNodes, row \in RowIds : \E e : AccessStep(b, row, e)
  <2>1. PICK b \in BankNodes, row \in RowIds : addr = Append(b, row)
    BY <1>2, LeavesAre DEF Addresses
  <2>2. ~ ReadAsMigration(addr)
    BY DEF ReadAsMigration, RowPerBank
  <2>3. Issue("WR", "WR", addr) \/ Issue("RD", "RD", addr)
    BY <1>2, <2>2 DEF Access, Write, Read
  <2> QED
    BY <1>1, <2>1, <2>3
<1>3. ASSUME NEW n \in Leaves \cup {<<r>> : r \in 0..(Count[std][1] - 1)}, Refresh(n)
      PROVE  std' = std /\ temp' = temp /\ \E r : \E e : RankStep(r, e)
  <2>1. RefreshAll(n)
    BY <1>3 DEF Refresh, RefreshBank, RowPerBank
  <2>2. PICK r : n = <<r>>
    <3>1. n \notin Leaves
      <4>1. \A b \in BankNodes : Len(b) # 1
        BY BanksAre, UpperLevels
      <4> QED
        BY <2>1, <4>1, LeavesAre DEF RefreshAll
    <3> QED
      BY <1>3, <3>1
  <2> DEFINE a == <<r>>
             most == IF AllClosed(bank, a, "Bank") THEN "REF" ELSE "PREA"
  <2>3. Decode(bank, "REF", a) = most
    BY RefreshNeeds
  <2>4. most \in {"REF", "PREA"}
    OBVIOUS
  <2> HIDE DEF a, most
  <2>5. Addressed(bank, most, a) = a
    BY <2>4 DEF Addressed
  <2>6. IssueAt(Earliest(most, a), most, a)
    BY <2>1, <2>2, <2>3, <2>5 DEF RefreshAll, Issue, a
  <2>7. PICK e : e = [cmd |-> most, addr |-> a, clk |-> Earliest(most, a), temp |-> temp]
    OBVIOUS
  <2>8. e.cmd = most /\ e.addr = a /\ e.clk = Earliest(most, a) /\ e.temp = temp
    BY <2>7
  <2>9. /\ log' = Append(log, e) /\ bank' = UpdateState(bank, most, a)
        /\ std' = std /\ temp' = temp
    BY <2>6, <2>7 DEF IssueAt
  <2>10. UpdateState(bank, most, a) =
           IF most = "REF" THEN bank
           ELSE [m \in DOMAIN bank |-> IF OnPath(a, m) THEN ClosedNode ELSE bank[m]]
    BY <2>4, RankEffects DEF a
  <2>11. RankStep(r, e)
    BY <2>8, <2>9, <2>10 DEF RankStep, most, a
  <2> QED
    BY <2>9, <2>11
<1>4. ASSUME CoolDown
      PROVE  std' = std /\ UNCHANGED <<bank, log>> /\ std = "ALDRAM" /\ temp' = "COLD"
  BY <1>4 DEF CoolDown
<1> QED
  BY <1>2, <1>3, <1>4 DEF Next

(***************************************************************************)
(* The inductive invariant: a bank has one open row at most, the one that  *)
(* the log says is open.                                                   *)
(***************************************************************************)
RowAgrees(b) ==
  \/ bank[b] = ClosedNode /\ OpenAt(b, Len(log)) = <<>>
  \/ \E row \in RowIds : /\ bank[b] = [st |-> "Opened", rows |-> {row}]
                         /\ OpenAt(b, Len(log)) = Append(b, row)
RowsMatch ==
  /\ std \in RowPerBank
  /\ LogIsSeq
  /\ DOMAIN bank = BankNodes
  /\ \A b \in BankNodes : RowAgrees(b)

\* The units of the commands, and which banks they are on the way to.
LEMMA UnitsAre ==
  ASSUME std \in RowPerBank, NEW e
  PROVE  /\ \A b \in BankNodes : \A row : e.addr = Append(b, row) => Unit(e) = b
         /\ \A r : e.addr = <<r>> => Unit(e) = <<r>>
         /\ \A b, c \in BankNodes : OnPath(b, c) <=> b = c
<1>1. D \in {2, 3} /\ UnitDepth = D
  BY UpperLevels DEF UnitDepth, RowPerBank, D
<1>2. Min({D + 1, D}) = D /\ Min({1, D}) = 1
  <2>1. \A x \in {D + 1, D} : (\A y \in {D + 1, D} : x <= y) <=> x = D
    BY <1>1
  <2>2. \A x \in {1, D} : (\A y \in {1, D} : x <= y) <=> x = 1
    BY <1>1
  <2> QED
    BY <2>1, <2>2 DEF Min
<1>3. ASSUME NEW b \in BankNodes, NEW row, e.addr = Append(b, row)
      PROVE  Unit(e) = b
  <2>1. Len(e.addr) = D + 1 /\ Prefix(e.addr, D) = b
    BY <1>3, RowPath
  <2>2. Min({Len(e.addr), UnitDepth}) = D
    BY <1>1, <1>2, <2>1
  <2> QED
    BY <2>1, <2>2 DEF Unit
<1>4. ASSUME NEW r, e.addr = <<r>>
      PROVE  Unit(e) = <<r>>
  BY <1>1, <1>2, <1>4, RankPath DEF Unit
<1>5. ASSUME NEW b \in BankNodes, NEW c \in BankNodes
      PROVE  OnPath(b, c) <=> b = c
  <2>1. Len(b) = Len(c) /\ c \in Seq(0..4)
    BY BanksAre
  <2>2. Prefix(c, Len(c)) = c
    BY <2>1, SubSeqFull DEF Prefix
  <2>3. Len(c) \in Nat
    BY <2>1
  <2> QED
    BY <2>1, <2>2, <2>3 DEF OnPath
<1> QED
  BY <1>3, <1>4, <1>5

\* At the start all banks are closed.
LEMMA RowsMatchInit ==
  ASSUME std \in RowPerBank, Init
  PROVE  RowsMatch /\ RowsExclusive
<1>1. log = <<>> /\ Len(log) = 0
  BY DEF Init
<1>2. LogIsSeq
  <2>1. log \in Seq({})
    BY <1>1
  <2> QED
    BY <2>1 DEF LogIsSeq
<1>3. \A b : OpenAt(b, Len(log)) = <<>>
  BY <1>1 DEF OpenAt
<1>4. bank = [b \in BankNodes |-> ClosedNode]
  BY DEF Init, BankNodes
<1>5. RowsMatch
  BY <1>2, <1>3, <1>4 DEF RowsMatch, RowAgrees
<1>6. RowsExclusive
  BY <1>1 DEF RowsExclusive
<1> QED
  BY <1>5, <1>6

\* The last command of a log that has got one more.
LEMMA LastOf ==
  ASSUME LogIsSeq, NEW e, log' = Append(log, e)
  PROVE  /\ LogIsSeq' /\ Len(log) \in Nat /\ Len(log') = Len(log) + 1
         /\ log' # <<>> /\ Last(log') = e /\ DOMAIN log = 1..Len(log)
         /\ DOMAIN log' = 1..(Len(log) + 1)
         /\ log'[Len(log) + 1] = e /\ \A i \in 1..Len(log) : log'[i] = log[i]
<1>1. PICK X : log \in Seq(X)
  BY DEF LogIsSeq
<1>2. log \in Seq(X \cup {e}) /\ e \in X \cup {e}
  BY <1>1
<1>3. log' \in Seq(X \cup {e})
  BY <1>2
<1>4. LogIsSeq'
  BY <1>3 DEF LogIsSeq
<1>5. /\ Len(log) \in Nat /\ Len(log') = Len(log) + 1 /\ log'[Len(log) + 1] = e
      /\ \A i \in 1..Len(log) : log'[i] = log[i]
      /\ DOMAIN log = 1..Len(log) /\ DOMAIN log' = 1..(Len(log) + 1)
  BY <1>2
<1> QED
  BY <1>4, <1>5 DEF Last

\* A row is opened in a bank that is closed.
LEMMA OpenedIs ==
  ASSUME NEW bk, NEW b \in DOMAIN bk, NEW row, bk[b] = ClosedNode
  PROVE  Opened(bk, b, row)[b] = [st |-> "Opened", rows |-> {row}]
<1> DEFINE first == [bk EXCEPT ![b].st = "Opened"]
           node == first[b]
<1>1. b \in DOMAIN first /\ node = [st |-> "Opened", rows |-> {}]
  BY DEF ClosedNode
<1>2. Opened(bk, b, row) = [first EXCEPT ![b].rows = @ \cup {row}]
  BY DEF Opened
<1> HIDE DEF first
<1>3. [first EXCEPT ![b].rows = @ \cup {row}][b] = [node EXCEPT !.rows = @ \cup {row}]
  BY <1>1
<1>4. {} \cup {row} = {row}
  OBVIOUS
<1>5. [[st |-> "Opened", rows |-> {}] EXCEPT !.rows = @ \cup {row}] = [st |-> "Opened", rows |-> {row}]
  BY <1>4
<1> HIDE DEF node
<1> QED
  BY <1>1, <1>2, <1>3, <1>5

\* The units of rows are the banks.
LEMMA BankUnits ==
  ASSUME std \in RowPerBank, DOMAIN bank = BankNodes
  PROVE  {Prefix(n, UnitDepth) : n \in Leaves} = BankNodes
<1>1. UnitDepth = D
  BY UpperLevels DEF UnitDepth, RowPerBank, D
<1>2. \A b \in BankNodes : Prefix(b, D) = b
  <2>1. SUFFICES ASSUME NEW b \in BankNodes
                 PROVE  Prefix(b, D) = b
    OBVIOUS
  <2>2. b \in Seq(0..4) /\ Len(b) = D
    BY BanksAre
  <2> QED
    BY <2>2, SubSeqFull DEF Prefix
<1> QED
  BY <1>1, <1>2, LeavesAre

\* A row is opened or accessed, or one is closed, as it is in the log.
LEMMA AccessKeepsRows ==
  ASSUME RowsMatch, NEW b \in BankNodes, NEW row \in RowIds, NEW e,
         std' = std, AccessStep(b, row, e)
  PROVE  RowsMatch' /\ RowsExclusive'
<1> DEFINE k == Len(log)
           a == Append(b, row)
<1>1. PICK type \in {"RD", "WR"} :
        /\ e.addr = a
        /\ e.cmd = RowNeed(bank[b], row, "ACT", "PRE", type)
        /\ log' = Append(log, e)
        /\ bank' = CASE e.cmd = "ACT" -> Opened(bank, b, row)
                     [] e.cmd = "PRE" -> [bank EXCEPT ![b] = ClosedNode]
                     [] OTHER         -> bank
  BY DEF AccessStep
<1>2. std \in RowPerBank /\ LogIsSeq /\ DOMAIN bank = BankNodes /\ \A c \in BankNodes : RowAgrees(c)
  BY DEF RowsMatch
<1>3. /\ LogIsSeq' /\ k \in Nat /\ Len(log') = k + 1 /\ log' # <<>> /\ Last(log') = e
  BY <1>1, <1>2, LastOf
<1>4. BankNodes' = BankNodes /\ D' = D
  BY DEF BankNodes, D, Nodes, LeafDepth, Level
<1>5. Unit(e) = b /\ Unit(e)' = b /\ \A c \in BankNodes : OnPath(b, c) <=> b = c
  BY <1>1, <1>2, UnitsAre, OpenAtNext
<1>6. ASSUME NEW c \in BankNodes
      PROVE  \A m : m = k + 1 => OpenAt(c, m)' =
               IF e.cmd \in Activations \cup Closings /\ c = b
                 THEN IF e.cmd \in Closings THEN <<>> ELSE a
                 ELSE OpenAt(c, k)
  <2>1. LogIsSeq /\ log' = Append(log, e)
    BY <1>1, <1>2
  <2>2. \A m : m = k + 1 => OpenAt(c, m)' =
          IF e.cmd \in Activations \cup Closings /\ OnPath(Unit(e), c)
            THEN IF e.cmd \in Closings THEN <<>> ELSE e.addr
            ELSE OpenAt(c, k)
    BY <2>1, OpenAtNext
  <2>3. e.addr = a /\ (OnPath(Unit(e), c) <=> c = b)
    BY <1>1, <1>5
  <2> HIDE DEF a, k
  <2> QED
    BY <2>2, <2>3
<1>7. \A c : \A m : m = k + 1 => OpenAt(c, Len(log))' = OpenAt(c, m)'
  BY <1>3 DEF OpenAt
<1>8. ASSUME NEW c \in BankNodes
      PROVE  OpenAt(c, Len(log))' =
               IF e.cmd \in Activations \cup Closings /\ c = b
                 THEN IF e.cmd \in Closings THEN <<>> ELSE a
                 ELSE OpenAt(c, k)
  BY <1>3, <1>6, <1>7
<1>9. DOMAIN bank' = BankNodes
  BY <1>1, <1>2 DEF Opened
<1>10. ASSUME NEW c \in BankNodes, c # b
       PROVE  RowAgrees(c)'
  <2>1. OpenAt(c, Len(log))' = OpenAt(c, k)
    BY <1>8, <1>10
  <2>2. bank'[c] = bank[c]
    BY <1>1, <1>2, <1>10 DEF Opened
  <2>3. RowAgrees(c)
    BY <1>2
  <2> QED
    BY <2>1, <2>2, <2>3 DEF RowAgrees
<1>11. /\ RowAgrees(b)'
       /\ e.cmd \in {"ACT", "PRE", "RD", "WR"}
       /\ e.cmd = "ACT" => OpenAt(b, k) = <<>>
       /\ e.cmd \in {"RD", "WR"} => OpenAt(b, k) = a
  <2>1. CASE bank[b] = ClosedNode /\ OpenAt(b, k) = <<>>
    <3>1. e.cmd = "ACT"
      BY <1>1, <2>1 DEF RowNeed, ClosedNode
    <3>2. bank'[b] = [st |-> "Opened", rows |-> {row}]
      BY <1>1, <1>2, <2>1, <3>1, OpenedIs
    <3>3. OpenAt(b, Len(log))' = a
      BY <1>8, <3>1 DEF Activations, Closings, Pres
    <3> QED
      BY <2>1, <3>1, <3>2, <3>3 DEF RowAgrees
  <2>2. ASSUME NEW r \in RowIds, bank[b] = [st |-> "Opened", rows |-> {r}],
               OpenAt(b, k) = Append(b, r)
        PROVE  /\ RowAgrees(b)'
               /\ e.cmd \in {"PRE", "RD", "WR"}
               /\ e.cmd \in {"RD", "WR"} => OpenAt(b, k) = a
    <3>1. CASE r = row
      <4>1. e.cmd = type
        BY <1>1, <2>2, <3>1 DEF RowNeed
      <4>2. bank' = bank
        BY <1>1, <4>1
      <4>3. OpenAt(b, Len(log))' = OpenAt(b, k)
        BY <1>8, <4>1 DEF Activations, Closings, Pres
      <4> QED
        BY <2>2, <3>1, <4>1, <4>2, <4>3 DEF RowAgrees
    <3>2. CASE r # row
      <4>1. e.cmd = "PRE"
        BY <1>1, <2>2, <3>2 DEF RowNeed
      <4>2. bank'[b] = ClosedNode
        BY <1>1, <1>2, <4>1
      <4>3. OpenAt(b, Len(log))' = <<>>
        BY <1>8, <4>1 DEF Activations, Closings, Pres
      <4> QED
        BY <4>1, <4>2, <4>3 DEF RowAgrees
    <3> QED
      BY <3>1, <3>2
  <2> QED
    BY <1>2, <2>1, <2>2 DEF RowAgrees
<1>12. RowsMatch'
  <2>1. \A c \in BankNodes : RowAgrees(c)'
    BY <1>10, <1>11
  <2> QED
    BY <1>2, <1>3, <1>4, <1>9, <2>1 DEF RowsMatch
<1>13. RowsExclusive'
  <2>1. \A m : m = k => OpenAt(b, m)' = OpenAt(b, k)
    BY <1>1, <1>2, <1>3, OpenAtNext
  <2>2. \A m : m = k => OpenAt(b, m)' = OpenAt(Unit(Last(log)), Len(log) - 1)'
    BY <1>3, <1>5 DEF OpenAt
  <2>3. OpenAt(Unit(Last(log)), Len(log) - 1)' = OpenAt(b, k)
    BY <2>1, <2>2
  <2>4. std' \notin {"SALP_1", "SALP_2", "MASA"}
    BY <1>2 DEF RowPerBank
  <2>5. /\ (Last(log)).cmd' = e.cmd /\ (Last(log)).addr' = a
    BY <1>1, <1>3
  <2> QED
    BY <1>11, <2>3, <2>4, <2>5 DEF RowsExclusive, Activations, Reads, Refreshes
<1> QED
  BY <1>12, <1>13

\* A rank is refreshed, or its banks are closed, as it is in the log.
LEMMA RankKeepsRows ==
  ASSUME RowsMatch, NEW r, NEW e, std' = std, RankStep(r, e)
  PROVE  RowsMatch' /\ RowsExclusive'
<1> DEFINE k == Len(log)
           a == <<r>>
<1>1. /\ e.addr = a
      /\ e.cmd = IF AllClosed(bank, a, "Bank") THEN "REF" ELSE "PREA"
      /\ log' = Append(log, e)
      /\ bank' = IF e.cmd = "REF" THEN bank
                 ELSE [m \in DOMAIN bank |-> IF OnPath(a, m) THEN ClosedNode ELSE bank[m]]
  BY DEF RankStep
<1>2. std \in RowPerBank /\ LogIsSeq /\ DOMAIN bank = BankNodes /\ \A c \in BankNodes : RowAgrees(c)
  BY DEF RowsMatch
<1>3. /\ LogIsSeq' /\ k \in Nat /\ Len(log') = k + 1 /\ log' # <<>> /\ Last(log') = e
  BY <1>1, <1>2, LastOf
<1>4. BankNodes' = BankNodes /\ D' = D
  BY DEF BankNodes, D, Nodes, LeafDepth, Level
<1>5. Unit(e) = a /\ Unit(e)' = a
  BY <1>1, <1>2, UnitsAre, OpenAtNext
<1>6. ASSUME NEW c \in BankNodes
      PROVE  \A m : m = k + 1 => OpenAt(c, m)' =
               IF e.cmd = "PREA" /\ OnPath(a, c) THEN <<>> ELSE OpenAt(c, k)
  BY <1>1, <1>2, <1>5, OpenAtNext DEF Activations, Closings, Pres
<1>7. \A c : \A m : m = k + 1 => OpenAt(c, Len(log))' = OpenAt(c, m)'
  BY <1>3 DEF OpenAt
<1>8. ASSUME NEW c \in BankNodes
      PROVE  OpenAt(c, Len(log))' = IF e.cmd = "PREA" /\ OnPath(a, c) THEN <<>> ELSE OpenAt(c, k)
  BY <1>3, <1>6, <1>7
<1> HIDE DEF a
<1>9. DOMAIN bank' = BankNodes
  BY <1>1, <1>2
<1>10. ASSUME NEW c \in BankNodes
       PROVE  RowAgrees(c)'
  <2>1. CASE e.cmd = "PREA" /\ OnPath(a, c)
    <3>1. bank'[c] = ClosedNode
      BY <1>1, <1>2, <2>1
    <3> QED
      BY <1>8, <2>1, <3>1 DEF RowAgrees
  <2>2. CASE ~ (e.cmd = "PREA" /\ OnPath(a, c))
    <3>1. bank'[c] = bank[c]
      BY <1>1, <1>2, <2>2
    <3> QED
      BY <1>2, <1>8, <2>2, <3>1 DEF RowAgrees
  <2> QED
    BY <2>1, <2>2
<1>11. RowsMatch'
  <2>1. \A c \in BankNodes : RowAgrees(c)'
    BY <1>10
  <2> QED
    BY <1>2, <1>3, <1>4, <1>9, <2>1 DEF RowsMatch
<1>12. ASSUME NEW c \in BankNodes, e.cmd = "REF", OnPath(a, c)
       PROVE  OpenAt(c, Len(log) - 1)' = <<>>
  <2>1. AllClosed(bank, a, "Bank")
    BY <1>1, <1>12
  <2>2. bank[c].st = "Closed"
    BY <1>2, <1>12, <2>1, BanksAre DEF AllClosed
  <2>3. OpenAt(c, k) = <<>>
    BY <1>2, <2>2 DEF RowAgrees
  <2>4. \A m : m = k => OpenAt(c, m)' = <<>>
    BY <1>1, <1>2, <1>3, <2>3, OpenAtNext
  <2>5. PICK m : m = k
    OBVIOUS
  <2>6. OpenAt(c, m)' = OpenAt(c, Len(log) - 1)'
    BY <1>3, <2>5 DEF OpenAt
  <2> QED
    BY <2>4, <2>5, <2>6
<1>13. RowsExclusive'
  <2>1. ({Prefix(n, UnitDepth) : n \in Leaves})' = BankNodes
    <3>1. DOMAIN bank = BankNodes /\ std \in RowPerBank => {Prefix(n, UnitDepth) : n \in Leaves} = BankNodes
      BY BankUnits
    <3>2. ({Prefix(n, UnitDepth) : n \in Leaves})' = {Prefix(n, UnitDepth) : n \in Leaves}
      BY <1>2, <1>9 DEF UnitDepth, LeafDepth, Leaves, Prefix
    <3> QED
      BY <1>2, <3>1, <3>2
  <2>2. /\ (Last(log))' = e /\ Unit(Last(log))' = a
    BY <1>3, <1>5 DEF Unit
  <2>3. e.cmd \in {"REF", "PREA"}
    BY <1>1
  <2>4. e.cmd \notin Activations \cup Reads \cup {"WR"} /\ (e.cmd \in Refreshes => e.cmd = "REF")
    BY <2>3 DEF Activations, Reads, Refreshes
  <2> QED
    BY <1>12, <2>1, <2>2, <2>4 DEF RowsExclusive, Activations, Reads, Refreshes
<1> QED
  BY <1>11, <1>13

\* A step that issues no command leaves the rows as they are.
LEMMA IdleKeepsRows ==
  ASSUME RowsMatch, RowsExclusive, std' = std, UNCHANGED <<bank, log>>
  PROVE  RowsMatch' /\ RowsExclusive'
<1>1. /\ \A x : Unit(x)' = Unit(x)
      /\ BankNodes' = BankNodes /\ UnitDepth' = UnitDepth /\ Leaves' = Leaves
  BY DEF Unit, UnitDepth, LeafDepth, BankNodes, Nodes, Level, Leaves
<1>2. \A u, k : OpenAt(u, k)' = OpenAt(u, k)
  <2>1. SUFFICES ASSUME NEW u, NEW k
                 PROVE  OpenAt(u, k)' = OpenAt(u, k)
    OBVIOUS
  <2>2. \A i : Unit(log[i])' = Unit(log[i])
    BY DEF Unit, UnitDepth, LeafDepth
  <2> QED
    BY <2>2 DEF OpenAt, OnPath, Prefix
<1>3. \A u : OpenAt(u, Len(log))' = OpenAt(u, Len(log))
  <2>1. \A u, k : k = Len(log) => OpenAt(u, Len(log))' = OpenAt(u, k)'
    BY DEF OpenAt
  <2> QED
    BY <1>2, <2>1
<1>4. \A u : OpenAt(u, Len(log) - 1)' = OpenAt(u, Len(log) - 1)
  <2>1. \A u, k : k = Len(log) - 1 => OpenAt(u, Len(log) - 1)' = OpenAt(u, k)'
    BY DEF OpenAt
  <2> QED
    BY <1>2, <2>1
<1>5. RowsMatch'
  <2>1. \A b \in BankNodes : RowAgrees(b)'
    BY <1>3 DEF RowsMatch, RowAgrees
  <2> QED
    BY <1>1, <2>1 DEF RowsMatch, LogIsSeq
<1>6. RowsExclusive'
  <2>1. std \notin {"SALP_1", "SALP_2", "MASA"}
    BY DEF RowsMatch, RowPerBank
  <2>2. Unit(Last(log))' = Unit(Last(log)) /\ Last(log)' = Last(log)
    BY DEF Unit, UnitDepth, LeafDepth
  <2>3. OpenAt(Unit(Last(log)), Len(log) - 1)' = OpenAt(Unit(Last(log)), Len(log) - 1)
    <3>1. \A u : u = Unit(Last(log)) =>
            OpenAt(Unit(Last(log)), Len(log) - 1)' = OpenAt(u, Len(log) - 1)'
      BY <2>2 DEF OpenAt
    <3> QED
      BY <1>4, <3>1
  <2>4. \A v : OnPath(Unit(Last(log)), v)' <=> OnPath(Unit(Last(log)), v)
    BY <2>2 DEF OnPath, Prefix
  <2>5. ({Prefix(n, UnitDepth) : n \in Leaves})' = {Prefix(n, UnitDepth) : n \in Leaves}
    BY <1>1 DEF Prefix
  <2> QED
    BY <1>4, <2>1, <2>2, <2>3, <2>4, <2>5 DEF RowsExclusive
<1> QED
  BY <1>5, <1>6

\* Every step keeps the rows as the log says.
LEMMA RowsMatchNext ==
  ASSUME RowsMatch, RowsExclusive, [Next]_vars
  PROVE  RowsMatch' /\ RowsExclusive'
<1>1. std \in RowPerBank /\ DOMAIN bank = BankNodes
  BY DEF RowsMatch
<1>2. CASE std' = std /\ UNCHANGED <<bank, log>>
  BY <1>2, IdleKeepsRows
<1>3. CASE Next
  BY <1>1, <1>2, <1>3, StepIs, AccessKeepsRows, RankKeepsRows
<1> QED
  BY <1>2, <1>3 DEF vars

\* The rows of a channel: they are opened where none is open, data moves only to
\* and from the row that is open, and a refresh finds all of the rank closed, for
\* any number of ranks, bank groups, banks and rows (DRAM.h's decode and update_state).
THEOREM RowsKeptApart == Spec /\ std \in RowPerBank => []RowsExclusive
<1>1. Spec /\ std \in RowPerBank => [](RowsMatch /\ RowsExclusive)
  BY RowsMatchInit, RowsMatchNext, PTL DEF Spec
<1> QED
  BY <1>1, PTL

(***************************************************************************)
(* Hits, and rows within reach.                                            *)
(***************************************************************************)
\* A bank is closed or has one row open.
LEMMA BankShape ==
  ASSUME RowsMatch, NEW b \in BankNodes
  PROVE  \/ bank[b] = ClosedNode
         \/ \E row \in RowIds : bank[b] = [st |-> "Opened", rows |-> {row}]
BY DEF RowsMatch, RowAgrees

\* From the shape of a bank follows what is a hit.
LEMMA HitsFollow ==
  ASSUME RowsMatch
  PROVE  HitsAgree
<1>1. SUFFICES ASSUME NEW addr \in Addresses
               PROVE  /\ RowHit(addr) <=> Decode(bank, "RD", addr) \in {"RD", "SASEL"}
                      /\ RowHit(addr) /\ std # "ALDRAM" => RowOpen(addr)
  BY DEF HitsAgree, RowsMatch, RowPerBank
<1>2. std \in RowPerBank /\ DOMAIN bank = BankNodes
  BY DEF RowsMatch
<1>3. PICK b \in BankNodes, row \in RowIds : addr = Append(b, row)
  BY <1>1, <1>2, LeavesAre DEF Addresses
<1>4. /\ Prefix(addr, D) = b /\ Len(addr) = D + 1 /\ addr[D + 1] = row /\ Len(b) = D
      /\ D \in {2, 3} /\ LeafDepth(std) = D
  BY <1>2, <1>3, RowPath, BanksAre, UpperLevels DEF D
<1>5. RowHit(addr) <=> bank[b].st # "Closed" /\ row \in bank[b].rows
  <2>1. Id(addr, D) = row
    BY <1>4 DEF Id
  <2> QED
    BY <1>4, <2>1 DEF RowHit
<1>6. Decode(bank, "RD", addr) = RowNeed(bank[b], row, "ACT", "PRE", "RD")
  BY <1>2, <1>3, AccessNeeds
<1>7. RowHit(addr) <=> Decode(bank, "RD", addr) \in {"RD", "SASEL"}
  BY <1>5, <1>6 DEF RowNeed
<1>8. ASSUME RowHit(addr), std # "ALDRAM"
      PROVE  RowOpen(addr)
  <2>1. Standard[std].rules.open = "Bank" /\ Levels[std][D + 1] = "Bank"
    BY <1>2, <1>8, RulesAre, LevelsAre DEF D
  <2>2. D \in 0..LeafDepth(std)
    BY <1>4
  <2> QED
    BY <1>4, <1>5, <1>8, <2>1, <2>2 DEF RowOpen
<1> QED
  BY <1>7, <1>8

\* From any state of the channel a read reaches its row in two commands at most.
LEMMA RowsWithinReach ==
  ASSUME RowsMatch
  PROVE  RowsReachable
<1>1. SUFFICES ASSUME NEW addr \in Addresses
               PROVE  LET after[k \in 0..3] ==
                            IF k = 0 THEN bank
                            ELSE LET bk == after[k - 1]
                                     cmd == Decode(bk, "RD", addr)
                                 IN  UpdateState(bk, cmd, Addressed(bk, cmd, addr))
                      IN  \E k \in 0..3 : Decode(after[k], "RD", addr) = "RD"
  BY DEF RowsReachable
<1>2. std \in RowPerBank /\ DOMAIN bank = BankNodes
  BY DEF RowsMatch
<1>3. PICK b \in BankNodes, row \in RowIds : addr = Append(b, row)
  BY <1>1, <1>2, LeavesAre DEF Addresses
<1> DEFINE cmdOf(bk) == Decode(bk, "RD", addr)
           step(bk) == UpdateState(bk, cmdOf(bk), Addressed(bk, cmdOf(bk), addr))
           is(f) == f = [k \in 0..3 |-> IF k = 0 THEN bank ELSE step(f[k - 1])]
           after == CHOOSE f : is(f)
           witness == [k \in 0..3 |-> IF k = 0 THEN bank ELSE IF k = 1 THEN step(bank)
                                      ELSE IF k = 2 THEN step(step(bank))
                                      ELSE step(step(step(bank)))]
<1>4. \A bk : cmdOf(bk) = RowNeed(bk[b], row, "ACT", "PRE", "RD")
  BY <1>2, <1>3, AccessNeeds
<1>5. \A bk : step(bk) = CASE cmdOf(bk) = "ACT" -> Opened(bk, b, row)
                           [] cmdOf(bk) = "PRE" -> [bk EXCEPT ![b] = ClosedNode]
                           [] OTHER             -> bk
  <2>1. SUFFICES ASSUME NEW bk
                 PROVE  step(bk) = CASE cmdOf(bk) = "ACT" -> Opened(bk, b, row)
                                     [] cmdOf(bk) = "PRE" -> [bk EXCEPT ![b] = ClosedNode]
                                     [] OTHER             -> bk
    OBVIOUS
  <2>2. cmdOf(bk) \in {"ACT", "PRE", "RD"}
    BY <1>4 DEF RowNeed
  <2> HIDE DEF cmdOf
  <2>3. Addressed(bk, cmdOf(bk), addr) = addr
    BY <2>2 DEF Addressed
  <2>4. UpdateState(bk, cmdOf(bk), addr) =
          CASE cmdOf(bk) = "ACT" -> Opened(bk, b, row)
            [] cmdOf(bk) = "PRE" -> [bk EXCEPT ![b] = ClosedNode]
            [] OTHER             -> bk
    BY <1>2, <1>3, <2>2, BankEffects
  <2> QED
    BY <2>3, <2>4
<1>6. SUFFICES \E k \in 0..3 : cmdOf(after[k]) = "RD"
  OBVIOUS
<1> HIDE DEF cmdOf, step
<1>7. is(witness)
  OBVIOUS
<1>8. is(after)
  BY <1>7
<1> HIDE DEF after, witness
<1>9. after[0] = bank /\ after[1] = step(bank) /\ after[2] = step(step(bank))
  <2>1. \A k \in 0..3 : after[k] = IF k = 0 THEN bank ELSE step(after[k - 1])
    BY <1>8
  <2>2. after[0] = bank
    BY <2>1
  <2>3. after[1] = step(after[0])
    BY <2>1
  <2>4. after[2] = step(after[1])
    BY <2>1
  <2> QED
    BY <2>2, <2>3, <2>4
<1>10. ASSUME NEW bk, b \in DOMAIN bk, bk[b] = ClosedNode
       PROVE  cmdOf(step(bk)) = "RD"
  <2>1. cmdOf(bk) = "ACT"
    BY <1>4, <1>10 DEF RowNeed, ClosedNode
  <2>2. step(bk)[b] = [st |-> "Opened", rows |-> {row}]
    BY <1>5, <1>10, <2>1, OpenedIs
  <2> QED
    BY <1>4, <2>2 DEF RowNeed
<1>11. CASE bank[b] = ClosedNode
  BY <1>2, <1>9, <1>10, <1>11
<1>12. ASSUME NEW r \in RowIds, bank[b] = [st |-> "Opened", rows |-> {r}]
       PROVE  \E k \in 0..3 : cmdOf(after[k]) = "RD"
  <2>1. CASE r = row
    <3>1. cmdOf(bank) = "RD"
      BY <1>4, <1>12, <2>1 DEF RowNeed
    <3> QED
      BY <1>9, <3>1
  <2>2. CASE r # row
    <3>1. cmdOf(bank) = "PRE"
      BY <1>4, <1>12, <2>2 DEF RowNeed
    <3>2. step(bank) = [bank EXCEPT ![b] = ClosedNode]
      BY <1>5, <3>1
    <3>3. b \in DOMAIN step(bank) /\ step(bank)[b] = ClosedNode
      BY <1>2, <3>2
    <3> QED
      BY <1>9, <1>10, <3>3
  <2> QED
    BY <2>1, <2>2
<1> QED
  BY <1>11, <1>12, BankShape

\* What the scheduler is told is a hit needs no command first, and nothing else
\* is a hit (DRAM.h's check_row_hit and decode).
THEOREM HitsAreReads == Spec /\ std \in RowPerBank => []HitsAgree
<1>1. Spec /\ std \in RowPerBank => [](RowsMatch /\ RowsExclusive)
  BY RowsMatchInit, RowsMatchNext, PTL DEF Spec
<1> QED
  BY <1>1, HitsFollow, PTL

\* Every row can be read after at most a precharge and an activation: requests
\* cannot close and open rows for ever (DRAM.h's decode and update_state).
THEOREM RowsCanBeRead == Spec /\ std \in RowPerBank => []RowsReachable
<1>1. Spec /\ std \in RowPerBank => [](RowsMatch /\ RowsExclusive)
  BY RowsMatchInit, RowsMatchNext, PTL DEF Spec
<1> QED
  BY <1>1, RowsWithinReach, PTL

(***************************************************************************)
(* The timing tables of these standards.                                   *)
(***************************************************************************)
LevelNames == {"Channel", "Rank", "BankGroup", "Bank", "SubArray"}

\* After a command of "from" a command of "to" waits v cycles or more at level l,
\* if they go to the same node, or to siblings.
Waits(tab, l, from, to, v) ==
  \E t \in tab[l][from] : t.to = to /\ t.dist = 1 /\ ~ t.sibling /\ t.val \in Int /\ t.val >= v
WaitsBeside(tab, l, from, to, v) ==
  \E t \in tab[l][from] : t.to = to /\ t.sibling /\ t.val \in Int /\ t.val >= v
\* A command waits v cycles for the n-th last one of its kind.
WaitsFor(tab, l, cmd, n, v) ==
  \E t \in tab[l][cmd] : t.to = cmd /\ t.dist = n /\ ~ t.sibling /\ t.val = v

\* No entry is longer than 1000 cycles.
Fits(v) == v \in Int /\ v <= 1000
Within(timing) == \A t \in timing : Fits(t.val)

\* An entry of a table is a time that its commands wait at a node, ...
LEMMA EntryWaits ==
  ASSUME NEW timing, NEW l \in LevelNames, NEW from \in Commands, NEW to, NEW v \in Int,
         Gap(l, from, to, v) \subseteq timing
  PROVE  Waits(ByCommand(timing), l, from, to, v)
<1> DEFINE t == [level |-> l, from |-> from, to |-> to, dist |-> 1, val |-> v, sibling |-> FALSE]
<1>1. t \in Gap(l, from, to, v)
  BY DEF Gap, Entries
<1>2. t \in ByCommand(timing)[l][from]
  BY <1>1 DEF ByCommand, LevelNames
<1>3. t.to = to /\ t.dist = 1 /\ ~ t.sibling /\ t.val = v
  OBVIOUS
<1> QED
  BY <1>2, <1>3 DEF Waits

\* ... at the siblings of a node, ...
LEMMA EntryWaitsBeside ==
  ASSUME NEW timing, NEW l \in LevelNames, NEW from \in Commands, NEW to, NEW v \in Int,
         Beside(l, from, to, v) \subseteq timing
  PROVE  WaitsBeside(ByCommand(timing), l, from, to, v)
<1> DEFINE t == [level |-> l, from |-> from, to |-> to, dist |-> 1, val |-> v, sibling |-> TRUE]
<1>1. t \in Beside(l, from, to, v)
  BY DEF Beside, Entries
<1>2. t \in ByCommand(timing)[l][from]
  BY <1>1 DEF ByCommand, LevelNames
<1>3. t.to = to /\ t.sibling /\ t.val = v
  OBVIOUS
<1> QED
  BY <1>2, <1>3 DEF WaitsBeside

\* ... or for the n-th last command of its kind.
LEMMA EntryWaitsFor ==
  ASSUME NEW timing, NEW l \in LevelNames, NEW cmd \in Commands, NEW n, NEW v \in Int,
         Window(l, cmd, n, v) \subseteq timing
  PROVE  WaitsFor(ByCommand(timing), l, cmd, n, v)
<1> DEFINE t == [level |-> l, from |-> cmd, to |-> cmd, dist |-> n, val |-> v, sibling |-> FALSE]
<1>1. t \in Window(l, cmd, n, v)
  BY DEF Window, Entries
<1>2. t \in ByCommand(timing)[l][cmd]
  BY <1>1 DEF ByCommand, LevelNames
<1>3. t.to = cmd /\ t.dist = n /\ ~ t.sibling /\ t.val = v
  OBVIOUS
<1> QED
  BY <1>2, <1>3 DEF WaitsFor

\* A table has no more than its entries.
LEMMA TableWithin ==
  ASSUME NEW timing, Within(timing), NEW l \in LevelNames, NEW from \in Commands
  PROVE  Within(ByCommand(timing)[l][from])
BY DEF Within, ByCommand, LevelNames

\* The longest entry of each kind of rule.
LEMMA GroupsWithin ==
  /\ \A A, B : Within(A) /\ Within(B) => Within(A \cup B)
  /\ \A A, B, C, E : Within(A) /\ Within(B) /\ Within(C) /\ Within(E) => Within(A \cup B \cup C \cup E)
  /\ \A l, f, t, v : Fits(v) => Within(Gap(l, f, t, v)) /\ Within(Beside(l, f, t, v))
  /\ \A l, c, n, v : Fits(v) => Within(Window(l, c, n, v))
<1>1. /\ \A A, B : Within(A) /\ Within(B) => Within(A \cup B)
      /\ \A A, B, C, E : Within(A) /\ Within(B) /\ Within(C) /\ Within(E) => Within(A \cup B \cup C \cup E)
  BY DEF Within
<1>2. \A l, F, T, n, v, sib : Fits(v) => Within(Entries(l, F, T, n, v, sib))
  BY DEF Within, Entries
<1>3. ASSUME NEW l, NEW f, NEW t, NEW v, Fits(v)
      PROVE  Within(Gap(l, f, t, v)) /\ Within(Beside(l, f, t, v))
  BY <1>2, <1>3 DEF Gap, Beside
<1>4. ASSUME NEW l, NEW c, NEW n, NEW v, Fits(v)
      PROVE  Within(Window(l, c, n, v))
  BY <1>2, <1>4 DEF Window
<1> QED
  BY <1>1, <1>3, <1>4

\* Four entries of one kind of rule.
LEMMA FourWithin ==
  ASSUME NEW S, NEW A, NEW B, NEW C, NEW E, S = A \cup B \cup C \cup E,
         Within(A), Within(B), Within(C), Within(E)
  PROVE  Within(S)
BY DEF Within

\* The groups of rules have no longer entries than the numbers they are given.
LEMMA RulesWithin ==
  ASSUME NEW s, NEW rcdw, NEW rp, NEW rpab, NEW rfc, NEW wr, NEW rtw, NEW wtr,
         Fits(rcdw), Fits(rp), Fits(rpab), Fits(rfc), Fits(wr), Fits(rtw), Fits(wtr),
         Fits(s.nBL), Fits(s.nRTP), Fits(s.nRAS), Fits(s.nRCD), Fits(s.nRC)
  PROVE  /\ Within(Bus(s)) /\ Within(PreAll(s, rpab, wr)) /\ Within(RefreshRank(rp, rpab, rfc))
         /\ Within(Rows("Bank", s, rcdw, rp, wr)) /\ Within(Turns("Rank", rtw, wtr))
<1> DEFINE G(l, f, t, v) == Gap(l, f, t, v)
<1>0. \A l, f, t, v : Fits(v) => Within(G(l, f, t, v))
  BY GroupsWithin
<1>1. /\ \A A, B : Within(A) /\ Within(B) => Within(A \cup B)
      /\ \A A, B, C, E : Within(A) /\ Within(B) /\ Within(C) /\ Within(E) => Within(A \cup B \cup C \cup E)
  BY GroupsWithin
<1>2. Within(Bus(s))
  <2>1. Bus(s) = G("Channel", "RD", "RD", s.nBL) \cup G("Channel", "WR", "WR", s.nBL)
    BY DEF Bus, SameCas
  <2> HIDE DEF G
  <2> QED
    BY <1>0, <1>1, <2>1
<1>3. Within(Turns("Rank", rtw, wtr))
  <2>1. Turns("Rank", rtw, wtr) = G("Rank", "RD", "WR", rtw) \cup G("Rank", "WR", "RD", wtr)
    BY DEF Turns
  <2> HIDE DEF G
  <2> QED
    BY <1>0, <1>1, <2>1
<1>4. Within(PreAll(s, rpab, wr))
  <2>1. PreAll(s, rpab, wr) =
          G("Rank", "RD", "PREA", s.nRTP) \cup G("Rank", "WR", "PREA", wr)
            \cup G("Rank", "ACT", "PREA", s.nRAS) \cup G("Rank", "PREA", "ACT", rpab)
    BY DEF PreAll
  <2> HIDE DEF G
  <2>2. /\ Within(G("Rank", "RD", "PREA", s.nRTP)) /\ Within(G("Rank", "WR", "PREA", wr))
        /\ Within(G("Rank", "ACT", "PREA", s.nRAS)) /\ Within(G("Rank", "PREA", "ACT", rpab))
    BY <1>0
  <2> QED
    BY ONLY <2>1, <2>2, FourWithin
<1>5. Within(RefreshRank(rp, rpab, rfc))
  <2>1. RefreshRank(rp, rpab, rfc) =
          G("Rank", "PRE", "REF", rp) \cup G("Rank", "PREA", "REF", rpab)
            \cup G("Rank", "REF", "ACT", rfc) \cup G("Rank", "REF", "REF", rfc)
    BY DEF RefreshRank
  <2> HIDE DEF G
  <2>2. /\ Within(G("Rank", "PRE", "REF", rp)) /\ Within(G("Rank", "PREA", "REF", rpab))
        /\ Within(G("Rank", "REF", "ACT", rfc)) /\ Within(G("Rank", "REF", "REF", rfc))
    BY <1>0
  <2> QED
    BY ONLY <2>1, <2>2, FourWithin
<1>6. Within(Rows("Bank", s, rcdw, rp, wr))
  <2>1. Rows("Bank", s, rcdw, rp, wr) =
          G("Bank", "ACT", "RD", s.nRCD) \cup G("Bank", "ACT", "WR", rcdw)
            \cup G("Bank", "RD", "PRE", s.nRTP) \cup G("Bank", "WR", "PRE", wr)
            \cup G("Bank", "ACT", "ACT", s.nRC) \cup G("Bank", "ACT", "PRE", s.nRAS)
            \cup G("Bank", "PRE", "ACT", rp)
    BY DEF Rows
  <2> HIDE DEF G
  <2>2. /\ Within(G("Bank", "ACT", "RD", s.nRCD)) /\ Within(G("Bank", "ACT", "WR", rcdw))
        /\ Within(G("Bank", "RD", "PRE", s.nRTP)) /\ Within(G("Bank", "WR", "PRE", wr))
        /\ Within(G("Bank", "ACT", "ACT", s.nRC)) /\ Within(G("Bank", "ACT", "PRE", s.nRAS))
        /\ Within(G("Bank", "PRE", "ACT", rp))
    BY <1>0
  <2> DEFINE first == G("Bank", "ACT", "RD", s.nRCD) \cup G("Bank", "ACT", "WR", rcdw)
                        \cup G("Bank", "RD", "PRE", s.nRTP) \cup G("Bank", "WR", "PRE", wr)
  <2>3. Within(first)
    BY ONLY <2>2, FourWithin
  <2> HIDE DEF first
  <2>4. Rows("Bank", s, rcdw, rp, wr) =
          first \cup G("Bank", "ACT", "ACT", s.nRC) \cup G("Bank", "ACT", "PRE", s.nRAS)
            \cup G("Bank", "PRE", "ACT", rp)
    BY <2>1, Zenon DEF first
  <2> QED
    BY ONLY <2>2, <2>3, <2>4, FourWithin
<1> QED
  BY <1>2, <1>3, <1>4, <1>5, <1>6

\* So do those of one command after another of its kind.
LEMMA CasWithin ==
  ASSUME NEW l, NEW ccd, NEW rrd, NEW n, NEW window, Fits(ccd), Fits(rrd), Fits(window)
  PROVE  Within(SameCas(l, ccd)) /\ Within(Acts(rrd, n, window))
<1>1. Within(SameCas(l, ccd))
  BY GroupsWithin DEF SameCas
<1>2. Within(Acts(rrd, n, window))
  <2> DEFINE W(k, v) == Window("Rank", "ACT", k, v)
  <2>1. \A k, v : Fits(v) => Within(W(k, v))
    BY GroupsWithin
  <2> HIDE DEF W
  <2>2. Within(W(1, rrd)) /\ Within(W(n, window))
    BY <2>1
  <2>3. Acts(rrd, n, window) = W(1, rrd) \cup W(n, window)
    BY DEF Acts, W
  <2> QED
    BY ONLY <2>2, <2>3, GroupsWithin
<1> QED
  BY <1>1, <1>2

\* And those between two ranks.
LEMMA SiblingsWithin ==
  ASSUME NEW s, NEW dq, Fits(s.nBL + s.nRTRS), Fits(s.nCL + s.nBL + dq + s.nRTRS - s.nCWL),
         Fits(s.nCWL + s.nBL + s.nRTRS - s.nCL)
  PROVE  Within(Siblings(s, dq))
<1> DEFINE B(f, t, v) == Beside("Rank", f, t, v)
<1>1. \A f, t, v : Fits(v) => Within(B(f, t, v))
  BY GroupsWithin
<1>2. Siblings(s, dq) =
        B("RD", "RD", s.nBL + s.nRTRS) \cup B("RD", "WR", s.nBL + s.nRTRS)
          \cup B("RD", "WR", s.nCL + s.nBL + dq + s.nRTRS - s.nCWL)
          \cup B("WR", "RD", s.nCWL + s.nBL + s.nRTRS - s.nCL)
  BY DEF Siblings
<1> HIDE DEF B
<1>3. /\ Within(B("RD", "RD", s.nBL + s.nRTRS)) /\ Within(B("RD", "WR", s.nBL + s.nRTRS))
      /\ Within(B("RD", "WR", s.nCL + s.nBL + dq + s.nRTRS - s.nCWL))
      /\ Within(B("WR", "RD", s.nCWL + s.nBL + s.nRTRS - s.nCL))
  BY <1>1
<1> QED
  BY ONLY <1>2, <1>3, FourWithin

\* What a speed says of the times of a bank, as Required reads it.
PreOf(s) == Value(s, "nRP", Value(s, "nRPpb", 0))
PreAllOf(s) == Value(s, "nRPab", PreOf(s))
RefreshOf(s) == Value(s, "nRFC", Value(s, "nRFCab", Value(s, "nRFCpb", 0)))
ToWriteOf(s) == Value(s, "nRCDW", s.nRCD)

\* A table has the times of the banks and ranks of a speed.
RowsKept(tab, s) ==
  /\ {s.nRCD, s.nRAS, s.nRTP, ToWriteOf(s), WriteRecovery(s), PreOf(s), PreAllOf(s), RefreshOf(s)}
       \subseteq Int
  /\ PreAllOf(s) >= PreOf(s)
  /\ Waits(tab, "Bank", "ACT", "RD", s.nRCD) /\ Waits(tab, "Bank", "ACT", "WR", ToWriteOf(s))
  /\ Waits(tab, "Bank", "ACT", "PRE", s.nRAS) /\ Waits(tab, "Rank", "ACT", "PREA", s.nRAS)
  /\ Waits(tab, "Bank", "RD", "PRE", s.nRTP) /\ Waits(tab, "Rank", "RD", "PREA", s.nRTP)
  /\ Waits(tab, "Bank", "WR", "PRE", WriteRecovery(s))
  /\ Waits(tab, "Rank", "WR", "PREA", WriteRecovery(s))
  /\ Waits(tab, "Bank", "PRE", "ACT", PreOf(s)) /\ Waits(tab, "Rank", "PREA", "ACT", PreAllOf(s))
  /\ Waits(tab, "Rank", "PRE", "REF", PreOf(s)) /\ Waits(tab, "Rank", "PREA", "REF", PreAllOf(s))
  /\ Waits(tab, "Rank", "REF", "ACT", RefreshOf(s)) /\ Waits(tab, "Rank", "REF", "REF", RefreshOf(s))
  /\ Waits(tab, "Bank", "ACT", "ACT", s.nRC)

\* It keeps the bursts of a rank apart, and those of two ranks.
DelayOf(s) == Value(s, "nDQSCK", 0)
LeastToWrite(s) == s.nCL + DelayOf(s) + s.nBL - s.nCWL
LeastToRead(s) == s.nCWL + s.nBL - s.nCL - DelayOf(s)
BusKept(tab, s) ==
  /\ {s.nBL, s.nCL, s.nCWL, DelayOf(s)} \subseteq Int
  /\ Waits(tab, "Channel", "RD", "RD", s.nBL) /\ Waits(tab, "Channel", "WR", "WR", s.nBL)
  /\ Waits(tab, "Rank", "RD", "WR", LeastToWrite(s))
  /\ Waits(tab, "Rank", "WR", "RD", LeastToRead(s))
RanksKept(tab, s) ==
  LET rtrs == Value(s, "nRTRS", 0)
  IN  /\ rtrs \in Int
      /\ WaitsBeside(tab, "Rank", "RD", "RD", s.nBL + rtrs)
      /\ WaitsBeside(tab, "Rank", "RD", "WR", s.nCL + DelayOf(s) + s.nBL + rtrs - s.nCWL)
      /\ WaitsBeside(tab, "Rank", "WR", "RD", s.nCWL + s.nBL + rtrs - s.nCL - DelayOf(s))

\* A longer time is a time too.
LEMMA WaitsLess ==
  ASSUME NEW tab, NEW l, NEW from, NEW to, NEW v \in Int, NEW w \in Int, v <= w
  PROVE  /\ Waits(tab, l, from, to, w) => Waits(tab, l, from, to, v)
         /\ WaitsBeside(tab, l, from, to, w) => WaitsBeside(tab, l, from, to, v)
<1>1. \A x \in Int : x >= w => x >= v
  OBVIOUS
<1> QED
  BY <1>1 DEF Waits, WaitsBeside

\* A table with the rules of rows, of all banks and of refresh keeps the times of the banks.
LEMMA RowTable ==
  ASSUME NEW timing, NEW s, NEW wr \in Int,
         PreAll(s, PreAllOf(s), wr) \subseteq timing,
         RefreshRank(PreOf(s), PreAllOf(s), RefreshOf(s)) \subseteq timing,
         Rows("Bank", s, ToWriteOf(s), PreOf(s), wr) \subseteq timing,
         s.nRCD \in Int, s.nRAS \in Int, s.nRTP \in Int, s.nRC \in Int, ToWriteOf(s) \in Int,
         WriteRecovery(s) \in Int, PreOf(s) \in Int, PreAllOf(s) \in Int, RefreshOf(s) \in Int,
         wr >= WriteRecovery(s), PreAllOf(s) >= PreOf(s)
  PROVE  RowsKept(ByCommand(timing), s)
<1> DEFINE tab == ByCommand(timing)
           G(l, f, t, v) == Gap(l, f, t, v)
           C == {"ACT", "PRE", "PREA", "RD", "WR", "REF"}
<1>1. ASSUME NEW l \in {"Rank", "Bank"}, NEW from \in C, NEW to \in C, NEW v \in Int,
             G(l, from, to, v) \subseteq timing
      PROVE  Waits(tab, l, from, to, v)
  BY <1>1, EntryWaits DEF LevelNames, Commands
<1>2. /\ G("Rank", "RD", "PREA", s.nRTP) \subseteq timing /\ G("Rank", "WR", "PREA", wr) \subseteq timing
      /\ G("Rank", "ACT", "PREA", s.nRAS) \subseteq timing
      /\ G("Rank", "PREA", "ACT", PreAllOf(s)) \subseteq timing
  BY Zenon DEF PreAll
<1>3. /\ G("Rank", "PRE", "REF", PreOf(s)) \subseteq timing
      /\ G("Rank", "PREA", "REF", PreAllOf(s)) \subseteq timing
      /\ G("Rank", "REF", "ACT", RefreshOf(s)) \subseteq timing
      /\ G("Rank", "REF", "REF", RefreshOf(s)) \subseteq timing
  BY Zenon DEF RefreshRank
<1>4. /\ G("Bank", "ACT", "RD", s.nRCD) \subseteq timing
      /\ G("Bank", "ACT", "WR", ToWriteOf(s)) \subseteq timing
      /\ G("Bank", "RD", "PRE", s.nRTP) \subseteq timing /\ G("Bank", "WR", "PRE", wr) \subseteq timing
      /\ G("Bank", "ACT", "ACT", s.nRC) \subseteq timing /\ G("Bank", "ACT", "PRE", s.nRAS) \subseteq timing
      /\ G("Bank", "PRE", "ACT", PreOf(s)) \subseteq timing
  BY Zenon DEF Rows
<1> HIDE DEF G, tab
<1>5. /\ Waits(tab, "Rank", "RD", "PREA", s.nRTP) /\ Waits(tab, "Rank", "WR", "PREA", wr)
      /\ Waits(tab, "Rank", "ACT", "PREA", s.nRAS) /\ Waits(tab, "Rank", "PREA", "ACT", PreAllOf(s))
  BY <1>1, <1>2
<1>6. /\ Waits(tab, "Rank", "PRE", "REF", PreOf(s)) /\ Waits(tab, "Rank", "PREA", "REF", PreAllOf(s))
      /\ Waits(tab, "Rank", "REF", "ACT", RefreshOf(s)) /\ Waits(tab, "Rank", "REF", "REF", RefreshOf(s))
  BY <1>1, <1>3
<1>7. /\ Waits(tab, "Bank", "ACT", "RD", s.nRCD) /\ Waits(tab, "Bank", "ACT", "WR", ToWriteOf(s))
      /\ Waits(tab, "Bank", "RD", "PRE", s.nRTP) /\ Waits(tab, "Bank", "WR", "PRE", wr)
      /\ Waits(tab, "Bank", "ACT", "ACT", s.nRC) /\ Waits(tab, "Bank", "ACT", "PRE", s.nRAS)
      /\ Waits(tab, "Bank", "PRE", "ACT", PreOf(s))
  BY <1>1, <1>4
<1>8. /\ Waits(tab, "Bank", "WR", "PRE", WriteRecovery(s))
      /\ Waits(tab, "Rank", "WR", "PREA", WriteRecovery(s))
  BY <1>5, <1>7, WaitsLess
<1> QED
  BY <1>5, <1>6, <1>7, <1>8 DEF RowsKept, tab

\* A table with the rules of column commands keeps the bursts of a rank apart.
LEMMA BusTable ==
  ASSUME NEW timing, NEW s, NEW rtw \in Int, NEW wtr \in Int,
         Bus(s) \subseteq timing, Turns("Rank", rtw, wtr) \subseteq timing,
         s.nBL \in Int, s.nCL \in Int, s.nCWL \in Int, DelayOf(s) \in Int,
         LeastToWrite(s) \in Int, LeastToRead(s) \in Int,
         rtw >= LeastToWrite(s), wtr >= LeastToRead(s)
  PROVE  BusKept(ByCommand(timing), s)
<1> DEFINE tab == ByCommand(timing)
           G(l, f, t, v) == Gap(l, f, t, v)
<1>1. ASSUME NEW l \in {"Channel", "Rank"}, NEW from \in {"RD", "WR"}, NEW to, NEW v \in Int,
             G(l, from, to, v) \subseteq timing
      PROVE  Waits(tab, l, from, to, v)
  BY <1>1, EntryWaits DEF LevelNames, Commands
<1>2. /\ G("Channel", "RD", "RD", s.nBL) \subseteq timing /\ G("Channel", "WR", "WR", s.nBL) \subseteq timing
      /\ G("Rank", "RD", "WR", rtw) \subseteq timing /\ G("Rank", "WR", "RD", wtr) \subseteq timing
  BY Zenon DEF Bus, SameCas, Turns
<1> HIDE DEF G, tab
<1>3. /\ Waits(tab, "Channel", "RD", "RD", s.nBL) /\ Waits(tab, "Channel", "WR", "WR", s.nBL)
      /\ Waits(tab, "Rank", "RD", "WR", rtw) /\ Waits(tab, "Rank", "WR", "RD", wtr)
  BY <1>1, <1>2
<1>4. /\ Waits(tab, "Rank", "RD", "WR", LeastToWrite(s))
      /\ Waits(tab, "Rank", "WR", "RD", LeastToRead(s))
  BY <1>3, WaitsLess
<1> QED
  BY <1>3, <1>4 DEF BusKept, tab

\* A table with the rules of sibling ranks keeps the bursts of two ranks apart.
LEMMA RankTable ==
  ASSUME NEW timing, NEW s, NEW dq \in Int, Siblings(s, dq) \subseteq timing,
         s.nBL \in Int, s.nCL \in Int, s.nCWL \in Int, s.nRTRS \in Int, DelayOf(s) \in Int,
         Value(s, "nRTRS", 0) = s.nRTRS, dq >= DelayOf(s), DelayOf(s) >= 0
  PROVE  RanksKept(ByCommand(timing), s)
<1> DEFINE tab == ByCommand(timing)
           B(f, t, v) == Beside("Rank", f, t, v)
           rr == s.nBL + s.nRTRS
           rw == s.nCL + s.nBL + dq + s.nRTRS - s.nCWL
           wr == s.nCWL + s.nBL + s.nRTRS - s.nCL
           rwLeast == s.nCL + DelayOf(s) + s.nBL + s.nRTRS - s.nCWL
           wrLeast == s.nCWL + s.nBL + s.nRTRS - s.nCL - DelayOf(s)
<1>1. ASSUME NEW from \in {"RD", "WR"}, NEW to, NEW v \in Int, B(from, to, v) \subseteq timing
      PROVE  WaitsBeside(tab, "Rank", from, to, v)
  BY <1>1, EntryWaitsBeside DEF LevelNames, Commands
<1>2. B("RD", "RD", rr) \subseteq timing /\ B("RD", "WR", rw) \subseteq timing /\ B("WR", "RD", wr) \subseteq timing
  BY Zenon DEF Siblings
<1>3. /\ rr \in Int /\ rw \in Int /\ wr \in Int /\ rwLeast \in Int /\ wrLeast \in Int
      /\ rwLeast <= rw /\ wrLeast <= wr
  OBVIOUS
<1> HIDE DEF B, tab, rr, rw, wr, rwLeast, wrLeast
<1>4. /\ WaitsBeside(tab, "Rank", "RD", "RD", rr) /\ WaitsBeside(tab, "Rank", "RD", "WR", rw)
      /\ WaitsBeside(tab, "Rank", "WR", "RD", wr)
  BY <1>1, <1>2, <1>3
<1>5. /\ WaitsBeside(tab, "Rank", "RD", "WR", rwLeast)
      /\ WaitsBeside(tab, "Rank", "WR", "RD", wrLeast)
  BY <1>3, <1>4, WaitsLess
<1> QED
  BY <1>4, <1>5 DEF RanksKept, tab, rr, rwLeast, wrLeast

\* A table with the rules of activations keeps them to their window.
LEMMA WindowTable ==
  ASSUME NEW timing, NEW rrd, NEW n, NEW v \in Int, Acts(rrd, n, v) \subseteq timing
  PROVE  WaitsFor(ByCommand(timing), "Rank", "ACT", n, v)
<1>1. Window("Rank", "ACT", n, v) \subseteq timing
  BY Zenon DEF Acts
<1> QED
  BY <1>1, EntryWaitsFor DEF LevelNames, Commands

\* All that a table promises.
Kept(timing, s) == Within(timing) /\ RowsKept(ByCommand(timing), s) /\ BusKept(ByCommand(timing), s)

\* The numbers of a speed, and the times of it that some standards have names of their own for.
Short(v) == v \in Nat /\ v <= 200
SpeedIs(s, toWrite, pre, preAll, refresh, delay) ==
  /\ Short(s.nBL) /\ Short(s.nCL) /\ Short(s.nRCD) /\ Short(s.nCWL) /\ Short(s.nRAS)
  /\ Short(s.nRC) /\ Short(s.nRTP) /\ Short(s.nWR)
  /\ Short(toWrite) /\ Short(pre) /\ Short(preAll) /\ Short(delay)
  /\ refresh \in Nat /\ refresh <= 1000 /\ preAll >= pre
  /\ ToWriteOf(s) = toWrite /\ PreOf(s) = pre /\ PreAllOf(s) = preAll
  /\ RefreshOf(s) = refresh /\ DelayOf(s) = delay

\* A table with the groups of rules that all of these standards have.
LEMMA TableKept ==
  ASSUME NEW timing, NEW s, NEW toWrite, NEW rp, NEW rpab, NEW rfc, NEW delay,
         NEW rtw \in Int, NEW wtr \in Int, NEW wr \in Int, NEW ccd, NEW rrd, NEW n, NEW window,
         NEW other,
         SpeedIs(s, toWrite, rp, rpab, rfc, delay), Short(ccd), Short(rrd), Short(window),
         rtw >= LeastToWrite(s), wtr >= LeastToRead(s), wr >= WriteRecovery(s),
         Fits(rtw), Fits(wtr), Fits(wr), Within(other),
         Bus(s) \subseteq timing, Turns("Rank", rtw, wtr) \subseteq timing,
         PreAll(s, rpab, wr) \subseteq timing, Acts(rrd, n, window) \subseteq timing,
         RefreshRank(rp, rpab, rfc) \subseteq timing, Rows("Bank", s, toWrite, rp, wr) \subseteq timing,
         \A t \in timing :
           \/ t \in Bus(s) \/ t \in SameCas("Rank", ccd) \/ t \in Turns("Rank", rtw, wtr)
           \/ t \in PreAll(s, rpab, wr) \/ t \in Acts(rrd, n, window)
           \/ t \in RefreshRank(rp, rpab, rfc) \/ t \in Rows("Bank", s, toWrite, rp, wr)
           \/ t \in other
  PROVE  Kept(timing, s) /\ WaitsFor(ByCommand(timing), "Rank", "ACT", n, window)
<1>1. /\ s.nBL \in Nat /\ s.nCL \in Nat /\ s.nRCD \in Nat /\ s.nCWL \in Nat /\ s.nRAS \in Nat
      /\ s.nRC \in Nat /\ s.nRTP \in Nat /\ s.nWR \in Nat
      /\ toWrite \in Nat /\ rp \in Nat /\ rpab \in Nat /\ delay \in Nat /\ rpab >= rp
      /\ rfc \in Nat /\ window \in Nat
  BY DEF SpeedIs, Short
<1>2. /\ ToWriteOf(s) = toWrite /\ PreOf(s) = rp /\ PreAllOf(s) = rpab
      /\ RefreshOf(s) = rfc /\ DelayOf(s) = delay
  BY DEF SpeedIs
<1>3. /\ Fits(s.nBL) /\ Fits(s.nRCD) /\ Fits(s.nRAS) /\ Fits(s.nRC) /\ Fits(s.nRTP)
      /\ Fits(toWrite) /\ Fits(rp) /\ Fits(rpab) /\ Fits(rfc)
      /\ Fits(ccd) /\ Fits(rrd) /\ Fits(window) /\ Fits(rtw) /\ Fits(wtr) /\ Fits(wr)
  BY DEF SpeedIs, Short, Fits
<1>4. /\ WriteRecovery(s) \in Int /\ LeastToWrite(s) \in Int /\ LeastToRead(s) \in Int
  BY <1>1, <1>2 DEF WriteRecovery, LeastToWrite, LeastToRead
<1>5. Within(Bus(s)) /\ Within(Turns("Rank", rtw, wtr)) /\ Within(PreAll(s, rpab, wr))
      /\ Within(RefreshRank(rp, rpab, rfc)) /\ Within(Rows("Bank", s, toWrite, rp, wr))
  <2>1. Within(Bus(s)) /\ Within(Turns("Rank", rtw, wtr))
    BY ONLY <1>3, RulesWithin
  <2>2. Within(PreAll(s, rpab, wr)) /\ Within(RefreshRank(rp, rpab, rfc))
    BY ONLY <1>3, RulesWithin
  <2>3. Within(Rows("Bank", s, toWrite, rp, wr))
    BY ONLY <1>3, RulesWithin
  <2> QED
    BY <2>1, <2>2, <2>3
<1>6. Within(SameCas("Rank", ccd)) /\ Within(Acts(rrd, n, window))
  BY <1>3, CasWithin
<1>7. Within(timing)
  BY <1>5, <1>6 DEF Within
<1>8. RowsKept(ByCommand(timing), s)
  BY <1>1, <1>2, <1>4, RowTable
<1>9. BusKept(ByCommand(timing), s)
  BY <1>1, <1>2, <1>4, BusTable
<1>10. WaitsFor(ByCommand(timing), "Rank", "ACT", n, window)
  BY <1>1, WindowTable
<1> QED
  BY <1>7, <1>8, <1>9, <1>10 DEF Kept

\* The tables of DDR3, PCM and, at both temperatures, ALDRAM.
LEMMA ClassicKept ==
  ASSUME NEW s, SpeedIs(s, s.nRCD, s.nRP, s.nRP, s.nRFC, 0),
         Short(s.nCCD), Short(s.nRRD), Short(s.nFAW), Short(s.nRTRS), Short(s.nWTR),
         s.nCCD >= s.nBL, Value(s, "nRTRS", 0) = s.nRTRS
  PROVE  /\ Kept(ClassicTiming(s), s) /\ RanksKept(ByCommand(ClassicTiming(s)), s)
         /\ WaitsFor(ByCommand(ClassicTiming(s)), "Rank", "ACT", 4, s.nFAW)
<1> DEFINE wr == WriteRecovery(s)
           rtw == ReadToWrite(s, s.nCCD)
           wtr == WriteToRead(s, s.nWTR)
           timing == ClassicTiming(s)
<1>1. timing = Bus(s) \cup SameCas("Rank", s.nCCD) \cup Turns("Rank", rtw, wtr)
                 \cup Siblings(s, 0) \cup PreAll(s, s.nRP, wr) \cup Acts(s.nRRD, 4, s.nFAW)
                 \cup RefreshRank(s.nRP, s.nRP, s.nRFC) \cup Rows("Bank", s, s.nRCD, s.nRP, wr)
  BY DEF ClassicTiming
<1>2. /\ s.nBL \in Nat /\ s.nCL \in Nat /\ s.nCWL \in Nat /\ s.nWTR \in Nat /\ s.nWR \in Nat
      /\ s.nCCD \in Nat /\ s.nRTRS \in Nat
      /\ s.nBL <= 200 /\ s.nCL <= 200 /\ s.nCWL <= 200 /\ s.nWTR <= 200 /\ s.nWR <= 200
      /\ s.nCCD <= 200 /\ s.nRTRS <= 200 /\ DelayOf(s) = 0
  BY DEF SpeedIs, Short
<1>3. /\ wr \in Int /\ rtw \in Int /\ wtr \in Int /\ Fits(wr) /\ Fits(rtw) /\ Fits(wtr)
      /\ wr >= WriteRecovery(s) /\ rtw >= LeastToWrite(s) /\ wtr >= LeastToRead(s)
  BY <1>2 DEF WriteRecovery, ReadToWrite, WriteToRead, Fits, LeastToWrite, LeastToRead
<1>4. /\ Fits(s.nBL + s.nRTRS) /\ Fits(s.nCL + s.nBL + 0 + s.nRTRS - s.nCWL)
      /\ Fits(s.nCWL + s.nBL + s.nRTRS - s.nCL)
  BY <1>2 DEF Fits
<1>5. Within(Siblings(s, 0))
  BY <1>4, SiblingsWithin
<1> HIDE DEF wr, rtw, wtr, timing
<1>6. Kept(timing, s) /\ WaitsFor(ByCommand(timing), "Rank", "ACT", 4, s.nFAW)
  <2>1. \A t \in timing :
           \/ t \in Bus(s) \/ t \in SameCas("Rank", s.nCCD) \/ t \in Turns("Rank", rtw, wtr)
           \/ t \in PreAll(s, s.nRP, wr) \/ t \in Acts(s.nRRD, 4, s.nFAW)
           \/ t \in RefreshRank(s.nRP, s.nRP, s.nRFC) \/ t \in Rows("Bank", s, s.nRCD, s.nRP, wr)
           \/ t \in Siblings(s, 0)
    BY ONLY <1>1, Zenon
  <2>2. /\ Bus(s) \subseteq timing /\ Turns("Rank", rtw, wtr) \subseteq timing
        /\ PreAll(s, s.nRP, wr) \subseteq timing /\ Acts(s.nRRD, 4, s.nFAW) \subseteq timing
        /\ RefreshRank(s.nRP, s.nRP, s.nRFC) \subseteq timing
        /\ Rows("Bank", s, s.nRCD, s.nRP, wr) \subseteq timing
    BY ONLY <1>1, Zenon
  <2> QED
    BY <1>3, <1>5, <2>1, <2>2, TableKept
<1>7. RanksKept(ByCommand(timing), s)
  <2>1. Siblings(s, 0) \subseteq timing
    BY ONLY <1>1, Zenon
  <2> QED
    BY <1>2, <2>1, RankTable
<1> QED
  BY <1>6, <1>7 DEF timing

\* DDR3 (DDR3.cpp): its table keeps the times of its speed.
LEMMA DDR3Kept ==
  /\ Kept(DDR3Timing, DDR3Speed) /\ RanksKept(ByCommand(DDR3Timing), DDR3Speed)
  /\ WaitsFor(ByCommand(DDR3Timing), "Rank", "ACT", 4, DDR3Speed.nFAW)
<1> DEFINE s == DDR3Speed
<1>1. SpeedIs(s, s.nRCD, s.nRP, s.nRP, s.nRFC, 0)
  BY DEF SpeedIs, Short, DDR3Speed, ToWriteOf, PreOf, PreAllOf, RefreshOf, DelayOf, Value
<1>2. /\ Short(s.nCCD) /\ Short(s.nRRD) /\ Short(s.nFAW) /\ Short(s.nRTRS) /\ Short(s.nWTR)
      /\ s.nCCD >= s.nBL /\ Value(s, "nRTRS", 0) = s.nRTRS
  BY DEF Short, DDR3Speed, Value
<1> QED
  BY <1>1, <1>2, ClassicKept DEF DDR3Timing

\* PCM (PCM.cpp).
LEMMA PCMKept ==
  /\ Kept(PCMTiming, PCMSpeed) /\ RanksKept(ByCommand(PCMTiming), PCMSpeed)
  /\ WaitsFor(ByCommand(PCMTiming), "Rank", "ACT", 4, PCMSpeed.nFAW)
<1> DEFINE s == PCMSpeed
<1>1. SpeedIs(s, s.nRCD, s.nRP, s.nRP, s.nRFC, 0)
  BY DEF SpeedIs, Short, PCMSpeed, ToWriteOf, PreOf, PreAllOf, RefreshOf, DelayOf, Value
<1>2. /\ Short(s.nCCD) /\ Short(s.nRRD) /\ Short(s.nFAW) /\ Short(s.nRTRS) /\ Short(s.nWTR)
      /\ s.nCCD >= s.nBL /\ Value(s, "nRTRS", 0) = s.nRTRS
  BY DEF Short, PCMSpeed, Value
<1> QED
  BY <1>1, <1>2, ClassicKept DEF PCMTiming

\* ALDRAM (ALDRAM.cpp) when it is hot: two activations of a bank are as far apart as it
\* takes to close the row between them.
LEMMA ALDRAMHotKept ==
  /\ Kept(ALDRAMTiming("HOT"), ALDRAMHot) /\ RanksKept(ByCommand(ALDRAMTiming("HOT")), ALDRAMHot)
  /\ ALDRAMHot.nRC >= ALDRAMHot.nRAS + PreOf(ALDRAMHot) /\ ALDRAMHot.nRC \in Int
<1> DEFINE s == ALDRAMHot
<1>1. SpeedIs(s, s.nRCD, s.nRP, s.nRP, s.nRFC, 0)
  BY DEF SpeedIs, Short, DDR3Speed, ALDRAMHot, ALDRAMCold, ToWriteOf, PreOf, PreAllOf, RefreshOf,
         DelayOf, Value
<1>2. /\ Short(s.nCCD) /\ Short(s.nRRD) /\ Short(s.nFAW) /\ Short(s.nRTRS) /\ Short(s.nWTR)
      /\ s.nCCD >= s.nBL /\ Value(s, "nRTRS", 0) = s.nRTRS
  BY DEF Short, DDR3Speed, ALDRAMHot, ALDRAMCold, Value
<1>3. s.nRC >= s.nRAS + PreOf(s) /\ s.nRC \in Int
  BY DEF DDR3Speed, ALDRAMHot, Value, PreOf
<1> HIDE DEF s
<1>4. ALDRAMTiming("HOT") = ClassicTiming(s)
  BY DEF ALDRAMTiming, s
<1> QED
  BY <1>1, <1>2, <1>3, <1>4, ClassicKept DEF s

\* ALDRAM when it is cold: the bus has the times it has when hot.
LEMMA ALDRAMColdKept ==
  /\ Kept(ALDRAMTiming("COLD"), ALDRAMCold) /\ RanksKept(ByCommand(ALDRAMTiming("COLD")), ALDRAMCold)
  /\ ALDRAMCold.nRC >= ALDRAMCold.nRAS + PreOf(ALDRAMCold) /\ ALDRAMCold.nRC \in Int
  /\ ALDRAMCold.nBL = ALDRAMHot.nBL /\ ALDRAMCold.nCL = ALDRAMHot.nCL /\ ALDRAMCold.nCWL = ALDRAMHot.nCWL
  /\ DelayOf(ALDRAMCold) = DelayOf(ALDRAMHot) /\ Value(ALDRAMCold, "nRTRS", 0) = Value(ALDRAMHot, "nRTRS", 0)
<1> DEFINE s == ALDRAMCold
<1>1. SpeedIs(s, s.nRCD, s.nRP, s.nRP, s.nRFC, 0)
  BY DEF SpeedIs, Short, DDR3Speed, ALDRAMHot, ALDRAMCold, ToWriteOf, PreOf, PreAllOf, RefreshOf,
         DelayOf, Value
<1>2. /\ Short(s.nCCD) /\ Short(s.nRRD) /\ Short(s.nFAW) /\ Short(s.nRTRS) /\ Short(s.nWTR)
      /\ s.nCCD >= s.nBL /\ Value(s, "nRTRS", 0) = s.nRTRS
  BY DEF Short, DDR3Speed, ALDRAMHot, ALDRAMCold, Value
<1>3. /\ s.nRC >= s.nRAS + PreOf(s) /\ s.nRC \in Int /\ s.nBL = ALDRAMHot.nBL /\ s.nCL = ALDRAMHot.nCL
      /\ s.nCWL = ALDRAMHot.nCWL
      /\ DelayOf(s) = DelayOf(ALDRAMHot) /\ Value(s, "nRTRS", 0) = Value(ALDRAMHot, "nRTRS", 0)
  BY DEF DDR3Speed, ALDRAMHot, ALDRAMCold, Value, PreOf, DelayOf
<1> HIDE DEF s
<1>4. ALDRAMTiming("COLD") = ClassicTiming(s)
  BY DEF ALDRAMTiming, s
<1> QED
  BY <1>1, <1>2, <1>3, <1>4, ClassicKept DEF s

\* DDR4 (DDR4.cpp).
LEMMA DDR4Kept ==
  /\ Kept(DDR4Timing, DDR4Speed)
  /\ WaitsFor(ByCommand(DDR4Timing), "Rank", "ACT", 4, DDR4Speed.nFAW)
  /\ RanksKept(ByCommand(DDR4Timing), DDR4Speed)
<1> DEFINE s == DDR4Speed
           wr == WriteRecovery(s)
           rtw == ReadToWrite(s, s.nCCDS)
           wtr == WriteToRead(s, s.nWTRS)
           timing == DDR4Timing
           other1 == Siblings(s, 0)
           other2 == SameCas("BankGroup", s.nCCDL)
           other3 == Gap("BankGroup", "WR", "RD", WriteToRead(s, s.nWTRL))
           other4 == Window("BankGroup", "ACT", 1, s.nRRDL)
           other == other1 \cup other2 \cup other3 \cup other4
<1>1. timing =
         Bus(s) \cup SameCas("Rank", s.nCCDS) \cup Turns("Rank", rtw, wtr)
           \cup other1 \cup PreAll(s, s.nRP, wr) \cup Acts(s.nRRDS, 4, s.nFAW)
           \cup RefreshRank(s.nRP, s.nRP, s.nRFC) \cup other2 \cup other3
           \cup other4 \cup Rows("Bank", s, s.nRCD, s.nRP, wr)
  BY DEF DDR4Timing
<1>2. /\ s.nBL = 4 /\ s.nCCDS = 4 /\ s.nCCDL = 6 /\ s.nRTRS = 2 /\ s.nCL = 16
      /\ s.nRCD = 16 /\ s.nRP = 16 /\ s.nCWL = 12 /\ s.nRAS = 39 /\ s.nRC = 55
      /\ s.nRTP = 9 /\ s.nWTRS = 3 /\ s.nWTRL = 9 /\ s.nWR = 18 /\ s.nRRDS = 4
      /\ s.nRRDL = 6 /\ s.nFAW = 26 /\ s.nRFC = 312
  BY DEF DDR4Speed
<1>3. SpeedIs(s, s.nRCD, s.nRP, s.nRP, s.nRFC, 0)
  BY DEF SpeedIs, Short, DDR4Speed, ToWriteOf, PreOf, PreAllOf, RefreshOf, DelayOf, Value
<1>4. DelayOf(s) = 0
  BY <1>3 DEF SpeedIs
<1> HIDE DEF s
<1>5. Short(s.nCCDS) /\ Short(s.nRRDS) /\ Short(s.nFAW)
  BY <1>2 DEF Short
<1>6. /\ wr \in Int /\ rtw \in Int /\ wtr \in Int /\ Fits(wr) /\ Fits(rtw) /\ Fits(wtr)
      /\ wr >= WriteRecovery(s) /\ rtw >= LeastToWrite(s) /\ wtr >= LeastToRead(s)
  BY <1>2, <1>4 DEF WriteRecovery, ReadToWrite, WriteToRead, Fits, LeastToWrite, LeastToRead
<1>7. Within(other1)
  <2>1. /\ Fits(s.nBL + s.nRTRS) /\ Fits(s.nCL + s.nBL + (0) + s.nRTRS - s.nCWL)
        /\ Fits(s.nCWL + s.nBL + s.nRTRS - s.nCL)
    BY <1>2 DEF Fits
  <2> QED
    BY <2>1, SiblingsWithin
<1>8. Within(other2)
  <2>1. Fits(s.nCCDL)
    BY <1>2 DEF Fits
  <2> QED
    BY <2>1, CasWithin
<1>9. Within(other3)
  <2>1. Fits(WriteToRead(s, s.nWTRL))
    BY <1>2 DEF Fits, WriteToRead
  <2> QED
    BY <2>1, GroupsWithin
<1>10. Within(other4)
  <2>1. Fits(s.nRRDL)
    BY <1>2 DEF Fits
  <2> QED
    BY <2>1, GroupsWithin
<1> HIDE DEF wr, rtw, wtr, timing, other1, other2, other3, other4
<1>11. Within(other)
  BY <1>7, <1>8, <1>9, <1>10, Zenon DEF Within
<1>12. \A t \in timing :
           \/ t \in Bus(s)
           \/ t \in SameCas("Rank", s.nCCDS)
           \/ t \in Turns("Rank", rtw, wtr)
           \/ t \in PreAll(s, s.nRP, wr)
           \/ t \in Acts(s.nRRDS, 4, s.nFAW)
           \/ t \in RefreshRank(s.nRP, s.nRP, s.nRFC)
           \/ t \in Rows("Bank", s, s.nRCD, s.nRP, wr)
           \/ t \in other
  BY ONLY <1>1, Zenon
<1>13. /\ Bus(s) \subseteq timing
       /\ Turns("Rank", rtw, wtr) \subseteq timing
       /\ PreAll(s, s.nRP, wr) \subseteq timing
       /\ Acts(s.nRRDS, 4, s.nFAW) \subseteq timing
       /\ RefreshRank(s.nRP, s.nRP, s.nRFC) \subseteq timing
       /\ Rows("Bank", s, s.nRCD, s.nRP, wr) \subseteq timing
  BY ONLY <1>1, Zenon
<1> HIDE DEF other
<1>14. Kept(timing, s) /\ WaitsFor(ByCommand(timing), "Rank", "ACT", 4, s.nFAW)
  BY <1>3, <1>5, <1>6, <1>11, <1>12, <1>13, TableKept
<1>15. RanksKept(ByCommand(timing), s)
  <2>1. other1 \subseteq timing
    BY ONLY <1>1, Zenon
  <2>2. /\ s.nBL \in Int /\ s.nCL \in Int /\ s.nCWL \in Int /\ s.nRTRS \in Int /\ DelayOf(s) \in Int
        /\ DelayOf(s) >= 0 /\ 0 \in Int /\ 0 >= DelayOf(s)
    BY <1>2, <1>4
  <2>3. Value(s, "nRTRS", 0) = s.nRTRS
    BY DEF Value, s, DDR4Speed
  <2> QED
    BY <2>1, <2>2, <2>3, RankTable DEF other1
<1> QED
  BY <1>14, <1>15 DEF timing, s

\* HBM (HBM.cpp), whose reads and writes wait differently long for an activation.
LEMMA HBMKept ==
  /\ Kept(HBMTiming, HBMSpeed)
  /\ WaitsFor(ByCommand(HBMTiming), "Rank", "ACT", 4, HBMSpeed.nFAW)
<1> DEFINE s == HBMSpeed
           wr == WriteRecovery(s)
           rtw == ReadToWrite(s, s.nCCDS)
           wtr == WriteToRead(s, s.nWTRS)
           timing == HBMTiming
           other1 == SameCas("BankGroup", s.nCCDL)
           other2 == Gap("BankGroup", "WR", "RD", WriteToRead(s, s.nWTRL))
           other3 == Window("BankGroup", "ACT", 1, s.nRRDL)
           other == other1 \cup other2 \cup other3
<1>1. timing =
         Bus(s) \cup SameCas("Rank", s.nCCDS) \cup Turns("Rank", rtw, wtr)
           \cup PreAll(s, s.nRP, wr) \cup Acts(s.nRRDS, 4, s.nFAW) \cup RefreshRank(s.nRP, s.nRP, s.nRFC)
           \cup other1 \cup other2 \cup other3
           \cup Rows("Bank", s, s.nRCDW, s.nRP, wr)
  BY DEF HBMTiming
<1>2. /\ s.nBL = 2 /\ s.nCCDS = 2 /\ s.nCCDL = 3 /\ s.nCL = 14 /\ s.nRCD = 14
      /\ s.nRCDW = 12 /\ s.nRP = 14 /\ s.nCWL = 8 /\ s.nRAS = 34 /\ s.nRC = 48
      /\ s.nRTP = 7 /\ s.nWTRS = 2 /\ s.nWTRL = 4 /\ s.nWR = 16 /\ s.nRRDS = 8
      /\ s.nRRDL = 10 /\ s.nFAW = 40 /\ s.nRFC = 110
  BY DEF HBMSpeed
<1>3. SpeedIs(s, s.nRCDW, s.nRP, s.nRP, s.nRFC, 0)
  BY DEF SpeedIs, Short, HBMSpeed, ToWriteOf, PreOf, PreAllOf, RefreshOf, DelayOf, Value
<1>4. DelayOf(s) = 0
  BY <1>3 DEF SpeedIs
<1> HIDE DEF s
<1>5. Short(s.nCCDS) /\ Short(s.nRRDS) /\ Short(s.nFAW)
  BY <1>2 DEF Short
<1>6. /\ wr \in Int /\ rtw \in Int /\ wtr \in Int /\ Fits(wr) /\ Fits(rtw) /\ Fits(wtr)
      /\ wr >= WriteRecovery(s) /\ rtw >= LeastToWrite(s) /\ wtr >= LeastToRead(s)
  BY <1>2, <1>4 DEF WriteRecovery, ReadToWrite, WriteToRead, Fits, LeastToWrite, LeastToRead
<1>7. Within(other1)
  <2>1. Fits(s.nCCDL)
    BY <1>2 DEF Fits
  <2> QED
    BY <2>1, CasWithin
<1>8. Within(other2)
  <2>1. Fits(WriteToRead(s, s.nWTRL))
    BY <1>2 DEF Fits, WriteToRead
  <2> QED
    BY <2>1, GroupsWithin
<1>9. Within(other3)
  <2>1. Fits(s.nRRDL)
    BY <1>2 DEF Fits
  <2> QED
    BY <2>1, GroupsWithin
<1> HIDE DEF wr, rtw, wtr, timing, other1, other2, other3
<1>10. Within(other)
  BY <1>7, <1>8, <1>9, Zenon DEF Within
<1>11. \A t \in timing :
           \/ t \in Bus(s)
           \/ t \in SameCas("Rank", s.nCCDS)
           \/ t \in Turns("Rank", rtw, wtr)
           \/ t \in PreAll(s, s.nRP, wr)
           \/ t \in Acts(s.nRRDS, 4, s.nFAW)
           \/ t \in RefreshRank(s.nRP, s.nRP, s.nRFC)
           \/ t \in Rows("Bank", s, s.nRCDW, s.nRP, wr)
           \/ t \in other
  BY ONLY <1>1, Zenon
<1>12. /\ Bus(s) \subseteq timing
       /\ Turns("Rank", rtw, wtr) \subseteq timing
       /\ PreAll(s, s.nRP, wr) \subseteq timing
       /\ Acts(s.nRRDS, 4, s.nFAW) \subseteq timing
       /\ RefreshRank(s.nRP, s.nRP, s.nRFC) \subseteq timing
       /\ Rows("Bank", s, s.nRCDW, s.nRP, wr) \subseteq timing
  BY ONLY <1>1, Zenon
<1> HIDE DEF other
<1>13. Kept(timing, s) /\ WaitsFor(ByCommand(timing), "Rank", "ACT", 4, s.nFAW)
  BY <1>3, <1>5, <1>6, <1>10, <1>11, <1>12, TableKept
<1> QED
  BY <1>13 DEF timing, s

\* GDDR5 (GDDR5.cpp).
LEMMA GDDR5Kept ==
  /\ Kept(GDDR5Timing, GDDR5Speed)
  /\ WaitsFor(ByCommand(GDDR5Timing), "Rank", "ACT", 4, GDDR5Speed.nFAW)
<1> DEFINE s == GDDR5Speed
           wr == WriteRecovery(s)
           rtw == ReadToWrite(s, s.nCCDS)
           wtr == WriteToRead(s, s.nWTR)
           timing == GDDR5Timing
           other1 == Window("Rank", "ACT", 32, s.n32AW)
           other2 == Window("Rank", "PRE", 1, s.nPPD)
           other3 == SameCas("BankGroup", s.nCCDL)
           other == other1 \cup other2 \cup other3
<1>1. timing =
         Bus(s) \cup SameCas("Rank", s.nCCDS) \cup Turns("Rank", rtw, wtr)
           \cup PreAll(s, s.nRP, wr) \cup Acts(s.nRRD, 4, s.nFAW) \cup other1
           \cup other2 \cup RefreshRank(s.nRP, s.nRP, s.nRFC) \cup other3
           \cup Rows("Bank", s, s.nRCDW, s.nRP, wr)
  BY DEF GDDR5Timing
<1>2. /\ s.nBL = 2 /\ s.nCCDS = 2 /\ s.nCCDL = 3 /\ s.nCL = 18 /\ s.nRCD = 18
      /\ s.nRCDW = 15 /\ s.nRP = 18 /\ s.nCWL = 5 /\ s.nRAS = 42 /\ s.nRC = 60
      /\ s.nPPD = 2 /\ s.nRTP = 2 /\ s.nWTR = 8 /\ s.nWR = 18 /\ s.nRRD = 9
      /\ s.nFAW = 35 /\ s.n32AW = 276 /\ s.nRFC = 525
  BY DEF GDDR5Speed
<1>3. SpeedIs(s, s.nRCDW, s.nRP, s.nRP, s.nRFC, 0)
  BY DEF SpeedIs, Short, GDDR5Speed, ToWriteOf, PreOf, PreAllOf, RefreshOf, DelayOf, Value
<1>4. DelayOf(s) = 0
  BY <1>3 DEF SpeedIs
<1> HIDE DEF s
<1>5. Short(s.nCCDS) /\ Short(s.nRRD) /\ Short(s.nFAW)
  BY <1>2 DEF Short
<1>6. /\ wr \in Int /\ rtw \in Int /\ wtr \in Int /\ Fits(wr) /\ Fits(rtw) /\ Fits(wtr)
      /\ wr >= WriteRecovery(s) /\ rtw >= LeastToWrite(s) /\ wtr >= LeastToRead(s)
  BY <1>2, <1>4 DEF WriteRecovery, ReadToWrite, WriteToRead, Fits, LeastToWrite, LeastToRead
<1>7. Within(other1)
  <2>1. Fits(s.n32AW)
    BY <1>2 DEF Fits
  <2> QED
    BY <2>1, GroupsWithin
<1>8. Within(other2)
  <2>1. Fits(s.nPPD)
    BY <1>2 DEF Fits
  <2> QED
    BY <2>1, GroupsWithin
<1>9. Within(other3)
  <2>1. Fits(s.nCCDL)
    BY <1>2 DEF Fits
  <2> QED
    BY <2>1, CasWithin
<1> HIDE DEF wr, rtw, wtr, timing, other1, other2, other3
<1>10. Within(other)
  BY <1>7, <1>8, <1>9, Zenon DEF Within
<1>11. \A t \in timing :
           \/ t \in Bus(s)
           \/ t \in SameCas("Rank", s.nCCDS)
           \/ t \in Turns("Rank", rtw, wtr)
           \/ t \in PreAll(s, s.nRP, wr)
           \/ t \in Acts(s.nRRD, 4, s.nFAW)
           \/ t \in RefreshRank(s.nRP, s.nRP, s.nRFC)
           \/ t \in Rows("Bank", s, s.nRCDW, s.nRP, wr)
           \/ t \in other
  BY ONLY <1>1, Zenon
<1>12. /\ Bus(s) \subseteq timing
       /\ Turns("Rank", rtw, wtr) \subseteq timing
       /\ PreAll(s, s.nRP, wr) \subseteq timing
       /\ Acts(s.nRRD, 4, s.nFAW) \subseteq timing
       /\ RefreshRank(s.nRP, s.nRP, s.nRFC) \subseteq timing
       /\ Rows("Bank", s, s.nRCDW, s.nRP, wr) \subseteq timing
  BY ONLY <1>1, Zenon
<1> HIDE DEF other
<1>13. Kept(timing, s) /\ WaitsFor(ByCommand(timing), "Rank", "ACT", 4, s.nFAW)
  BY <1>3, <1>5, <1>6, <1>10, <1>11, <1>12, TableKept
<1> QED
  BY <1>13 DEF timing, s

\* LPDDR3 (LPDDR3.cpp).
LEMMA LPDDR3Kept ==
  /\ Kept(LPDDR3Timing, LPDDR3Speed)
  /\ WaitsFor(ByCommand(LPDDR3Timing), "Rank", "ACT", 4, LPDDR3Speed.nFAW)
  /\ RanksKept(ByCommand(LPDDR3Timing), LPDDR3Speed)
<1> DEFINE s == LPDDR3Speed
           wr == WriteRecovery(s)
           rtw == s.nCL + s.nBL + s.nDQSCK + 1 - s.nCWL
           wtr == WriteToRead(s, s.nWTR + 1)
           timing == LPDDR3Timing
           other1 == Siblings(s, s.nDQSCK + 1)
           other == other1
<1>1. timing =
         Bus(s) \cup SameCas("Rank", s.nCCD) \cup Turns("Rank", rtw, wtr)
           \cup PreAll(s, s.nRPab, wr) \cup RefreshRank(s.nRPpb, s.nRPab, s.nRFCab) \cup Rows("Bank", s, s.nRCD, s.nRPpb, wr)
           \cup other1 \cup Acts(s.nRRD, 4, s.nFAW)
  BY DEF LPDDR3Timing, LowPower
<1>2. /\ s.nBL = 4 /\ s.nCCD = 4 /\ s.nRTRS = 2 /\ s.nDQSCK = 2 /\ s.nCL = 12
      /\ s.nRCD = 15 /\ s.nRPpb = 15 /\ s.nRPab = 17 /\ s.nCWL = 6 /\ s.nRAS = 34
      /\ s.nRC = 48 /\ s.nRTP = 6 /\ s.nWTR = 6 /\ s.nWR = 12 /\ s.nRRD = 8
      /\ s.nFAW = 40 /\ s.nRFCab = 168
  BY DEF LPDDR3Speed
<1>3. SpeedIs(s, s.nRCD, s.nRPpb, s.nRPab, s.nRFCab, s.nDQSCK)
  BY DEF SpeedIs, Short, LPDDR3Speed, ToWriteOf, PreOf, PreAllOf, RefreshOf, DelayOf, Value
<1>4. DelayOf(s) = s.nDQSCK
  BY <1>3 DEF SpeedIs
<1> HIDE DEF s
<1>5. Short(s.nCCD) /\ Short(s.nRRD) /\ Short(s.nFAW)
  BY <1>2 DEF Short
<1>6. /\ wr \in Int /\ rtw \in Int /\ wtr \in Int /\ Fits(wr) /\ Fits(rtw) /\ Fits(wtr)
      /\ wr >= WriteRecovery(s) /\ rtw >= LeastToWrite(s) /\ wtr >= LeastToRead(s)
  BY <1>2, <1>4 DEF WriteRecovery, ReadToWrite, WriteToRead, Fits, LeastToWrite, LeastToRead
<1>7. Within(other1)
  <2>1. /\ Fits(s.nBL + s.nRTRS) /\ Fits(s.nCL + s.nBL + (s.nDQSCK + 1) + s.nRTRS - s.nCWL)
        /\ Fits(s.nCWL + s.nBL + s.nRTRS - s.nCL)
    BY <1>2 DEF Fits
  <2> QED
    BY <2>1, SiblingsWithin
<1> HIDE DEF wr, rtw, wtr, timing, other1
<1>8. Within(other)
  BY <1>7, Zenon DEF Within
<1>9. \A t \in timing :
           \/ t \in Bus(s)
           \/ t \in SameCas("Rank", s.nCCD)
           \/ t \in Turns("Rank", rtw, wtr)
           \/ t \in PreAll(s, s.nRPab, wr)
           \/ t \in Acts(s.nRRD, 4, s.nFAW)
           \/ t \in RefreshRank(s.nRPpb, s.nRPab, s.nRFCab)
           \/ t \in Rows("Bank", s, s.nRCD, s.nRPpb, wr)
           \/ t \in other
  BY ONLY <1>1, Zenon
<1>10. /\ Bus(s) \subseteq timing
       /\ Turns("Rank", rtw, wtr) \subseteq timing
       /\ PreAll(s, s.nRPab, wr) \subseteq timing
       /\ Acts(s.nRRD, 4, s.nFAW) \subseteq timing
       /\ RefreshRank(s.nRPpb, s.nRPab, s.nRFCab) \subseteq timing
       /\ Rows("Bank", s, s.nRCD, s.nRPpb, wr) \subseteq timing
  BY ONLY <1>1, Zenon
<1> HIDE DEF other
<1>11. Kept(timing, s) /\ WaitsFor(ByCommand(timing), "Rank", "ACT", 4, s.nFAW)
  BY <1>3, <1>5, <1>6, <1>8, <1>9, <1>10, TableKept
<1>12. RanksKept(ByCommand(timing), s)
  <2>1. other1 \subseteq timing
    BY ONLY <1>1, Zenon
  <2>2. /\ s.nBL \in Int /\ s.nCL \in Int /\ s.nCWL \in Int /\ s.nRTRS \in Int /\ DelayOf(s) \in Int
        /\ DelayOf(s) >= 0 /\ s.nDQSCK + 1 \in Int /\ s.nDQSCK + 1 >= DelayOf(s)
    BY <1>2, <1>4
  <2>3. Value(s, "nRTRS", 0) = s.nRTRS
    BY DEF Value, s, LPDDR3Speed
  <2> QED
    BY <2>1, <2>2, <2>3, RankTable DEF other1
<1> QED
  BY <1>11, <1>12 DEF timing, s

\* LPDDR4 (LPDDR4.cpp).
LEMMA LPDDR4Kept ==
  /\ Kept(LPDDR4Timing, LPDDR4Speed)
  /\ WaitsFor(ByCommand(LPDDR4Timing), "Rank", "ACT", 4, LPDDR4Speed.nFAW)
  /\ RanksKept(ByCommand(LPDDR4Timing), LPDDR4Speed)
<1> DEFINE s == LPDDR4Speed
           wr == WriteRecovery(s)
           rtw == s.nCL + s.nBL + s.nDQSCK + 1 - s.nCWL
           wtr == WriteToRead(s, s.nWTR + 1)
           timing == LPDDR4Timing
           other1 == Siblings(s, s.nDQSCK + 1)
           other2 == Window("Rank", "PRE", 1, s.nPPD)
           other == other1 \cup other2
<1>1. timing =
         Bus(s) \cup SameCas("Rank", s.nCCD) \cup Turns("Rank", rtw, wtr)
           \cup PreAll(s, s.nRPab, wr) \cup RefreshRank(s.nRPpb, s.nRPab, s.nRFCab) \cup Rows("Bank", s, s.nRCD, s.nRPpb, wr)
           \cup other1 \cup Acts(s.nRRD, 4, s.nFAW) \cup other2
  BY DEF LPDDR4Timing, LowPower
<1>2. /\ s.nBL = 8 /\ s.nCCD = 8 /\ s.nRTRS = 2 /\ s.nDQSCK = 2 /\ s.nCL = 25
      /\ s.nRCD = 22 /\ s.nRPpb = 20 /\ s.nRPab = 24 /\ s.nCWL = 14 /\ s.nRAS = 51
      /\ s.nRC = 71 /\ s.nRTP = 11 /\ s.nWTR = 12 /\ s.nWR = 21 /\ s.nPPD = 4
      /\ s.nRRD = 12 /\ s.nFAW = 48 /\ s.nRFCab = 216
  BY DEF LPDDR4Speed
<1>3. SpeedIs(s, s.nRCD, s.nRPpb, s.nRPab, s.nRFCab, s.nDQSCK)
  BY DEF SpeedIs, Short, LPDDR4Speed, ToWriteOf, PreOf, PreAllOf, RefreshOf, DelayOf, Value
<1>4. DelayOf(s) = s.nDQSCK
  BY <1>3 DEF SpeedIs
<1> HIDE DEF s
<1>5. Short(s.nCCD) /\ Short(s.nRRD) /\ Short(s.nFAW)
  BY <1>2 DEF Short
<1>6. /\ wr \in Int /\ rtw \in Int /\ wtr \in Int /\ Fits(wr) /\ Fits(rtw) /\ Fits(wtr)
      /\ wr >= WriteRecovery(s) /\ rtw >= LeastToWrite(s) /\ wtr >= LeastToRead(s)
  BY <1>2, <1>4 DEF WriteRecovery, ReadToWrite, WriteToRead, Fits, LeastToWrite, LeastToRead
<1>7. Within(other1)
  <2>1. /\ Fits(s.nBL + s.nRTRS) /\ Fits(s.nCL + s.nBL + (s.nDQSCK + 1) + s.nRTRS - s.nCWL)
        /\ Fits(s.nCWL + s.nBL + s.nRTRS - s.nCL)
    BY <1>2 DEF Fits
  <2> QED
    BY <2>1, SiblingsWithin
<1>8. Within(other2)
  <2>1. Fits(s.nPPD)
    BY <1>2 DEF Fits
  <2> QED
    BY <2>1, GroupsWithin
<1> HIDE DEF wr, rtw, wtr, timing, other1, other2
<1>9. Within(other)
  BY <1>7, <1>8, Zenon DEF Within
<1>10. \A t \in timing :
           \/ t \in Bus(s)
           \/ t \in SameCas("Rank", s.nCCD)
           \/ t \in Turns("Rank", rtw, wtr)
           \/ t \in PreAll(s, s.nRPab, wr)
           \/ t \in Acts(s.nRRD, 4, s.nFAW)
           \/ t \in RefreshRank(s.nRPpb, s.nRPab, s.nRFCab)
           \/ t \in Rows("Bank", s, s.nRCD, s.nRPpb, wr)
           \/ t \in other
  BY ONLY <1>1, Zenon
<1>11. /\ Bus(s) \subseteq timing
       /\ Turns("Rank", rtw, wtr) \subseteq timing
       /\ PreAll(s, s.nRPab, wr) \subseteq timing
       /\ Acts(s.nRRD, 4, s.nFAW) \subseteq timing
       /\ RefreshRank(s.nRPpb, s.nRPab, s.nRFCab) \subseteq timing
       /\ Rows("Bank", s, s.nRCD, s.nRPpb, wr) \subseteq timing
  BY ONLY <1>1, Zenon
<1> HIDE DEF other
<1>12. Kept(timing, s) /\ WaitsFor(ByCommand(timing), "Rank", "ACT", 4, s.nFAW)
  BY <1>3, <1>5, <1>6, <1>9, <1>10, <1>11, TableKept
<1>13. RanksKept(ByCommand(timing), s)
  <2>1. other1 \subseteq timing
    BY ONLY <1>1, Zenon
  <2>2. /\ s.nBL \in Int /\ s.nCL \in Int /\ s.nCWL \in Int /\ s.nRTRS \in Int /\ DelayOf(s) \in Int
        /\ DelayOf(s) >= 0 /\ s.nDQSCK + 1 \in Int /\ s.nDQSCK + 1 >= DelayOf(s)
    BY <1>2, <1>4
  <2>3. Value(s, "nRTRS", 0) = s.nRTRS
    BY DEF Value, s, LPDDR4Speed
  <2> QED
    BY <2>1, <2>2, <2>3, RankTable DEF other1
<1> QED
  BY <1>12, <1>13 DEF timing, s

\* WideIO2 (WideIO2.cpp).
LEMMA WideIO2Kept ==
  /\ Kept(WideIO2Timing, WideIO2Speed)
  /\ WaitsFor(ByCommand(WideIO2Timing), "Rank", "ACT", 4, WideIO2Speed.nFAW)
  /\ RanksKept(ByCommand(WideIO2Timing), WideIO2Speed)
<1> DEFINE s == WideIO2Speed
           wr == WriteRecovery(s) + 1
           rtw == s.nCL + s.nDQSCK + s.nBL + 1 - s.nCWL
           wtr == WriteToRead(s, s.nWTR + 1)
           timing == WideIO2Timing
           other1 == Siblings(s, s.nDQSCK + 1)
           other == other1
<1>1. timing =
         Bus(s) \cup SameCas("Rank", s.nCCD) \cup Turns("Rank", rtw, wtr)
           \cup PreAll(s, s.nRPab, wr) \cup RefreshRank(s.nRPpb, s.nRPab, s.nRFCab) \cup Rows("Bank", s, s.nRCD, s.nRPpb, wr)
           \cup other1 \cup Acts(s.nRRD, 4, s.nFAW)
  BY DEF WideIO2Timing, LowPower
<1>2. /\ s.nBL = 2 /\ s.nCCD = 2 /\ s.nDQSCK = 1 /\ s.nRTRS = 2 /\ s.nCL = 9
      /\ s.nRCD = 10 /\ s.nRPpb = 10 /\ s.nRPab = 10 /\ s.nCWL = 7 /\ s.nRAS = 23
      /\ s.nRC = 33 /\ s.nRTP = 4 /\ s.nWTR = 6 /\ s.nWR = 11 /\ s.nRRD = 6
      /\ s.nFAW = 32 /\ s.nRFCab = 96
  BY DEF WideIO2Speed
<1>3. SpeedIs(s, s.nRCD, s.nRPpb, s.nRPab, s.nRFCab, s.nDQSCK)
  BY DEF SpeedIs, Short, WideIO2Speed, ToWriteOf, PreOf, PreAllOf, RefreshOf, DelayOf, Value
<1>4. DelayOf(s) = s.nDQSCK
  BY <1>3 DEF SpeedIs
<1> HIDE DEF s
<1>5. Short(s.nCCD) /\ Short(s.nRRD) /\ Short(s.nFAW)
  BY <1>2 DEF Short
<1>6. /\ wr \in Int /\ rtw \in Int /\ wtr \in Int /\ Fits(wr) /\ Fits(rtw) /\ Fits(wtr)
      /\ wr >= WriteRecovery(s) /\ rtw >= LeastToWrite(s) /\ wtr >= LeastToRead(s)
  BY <1>2, <1>4 DEF WriteRecovery, ReadToWrite, WriteToRead, Fits, LeastToWrite, LeastToRead
<1>7. Within(other1)
  <2>1. /\ Fits(s.nBL + s.nRTRS) /\ Fits(s.nCL + s.nBL + (s.nDQSCK + 1) + s.nRTRS - s.nCWL)
        /\ Fits(s.nCWL + s.nBL + s.nRTRS - s.nCL)
    BY <1>2 DEF Fits
  <2> QED
    BY <2>1, SiblingsWithin
<1> HIDE DEF wr, rtw, wtr, timing, other1
<1>8. Within(other)
  BY <1>7, Zenon DEF Within
<1>9. \A t \in timing :
           \/ t \in Bus(s)
           \/ t \in SameCas("Rank", s.nCCD)
           \/ t \in Turns("Rank", rtw, wtr)
           \/ t \in PreAll(s, s.nRPab, wr)
           \/ t \in Acts(s.nRRD, 4, s.nFAW)
           \/ t \in RefreshRank(s.nRPpb, s.nRPab, s.nRFCab)
           \/ t \in Rows("Bank", s, s.nRCD, s.nRPpb, wr)
           \/ t \in other
  BY ONLY <1>1, Zenon
<1>10. /\ Bus(s) \subseteq timing
       /\ Turns("Rank", rtw, wtr) \subseteq timing
       /\ PreAll(s, s.nRPab, wr) \subseteq timing
       /\ Acts(s.nRRD, 4, s.nFAW) \subseteq timing
       /\ RefreshRank(s.nRPpb, s.nRPab, s.nRFCab) \subseteq timing
       /\ Rows("Bank", s, s.nRCD, s.nRPpb, wr) \subseteq timing
  BY ONLY <1>1, Zenon
<1> HIDE DEF other
<1>11. Kept(timing, s) /\ WaitsFor(ByCommand(timing), "Rank", "ACT", 4, s.nFAW)
  BY <1>3, <1>5, <1>6, <1>8, <1>9, <1>10, TableKept
<1>12. RanksKept(ByCommand(timing), s)
  <2>1. other1 \subseteq timing
    BY ONLY <1>1, Zenon
  <2>2. /\ s.nBL \in Int /\ s.nCL \in Int /\ s.nCWL \in Int /\ s.nRTRS \in Int /\ DelayOf(s) \in Int
        /\ DelayOf(s) >= 0 /\ s.nDQSCK + 1 \in Int /\ s.nDQSCK + 1 >= DelayOf(s)
    BY <1>2, <1>4
  <2>3. Value(s, "nRTRS", 0) = s.nRTRS
    BY DEF Value, s, WideIO2Speed
  <2> QED
    BY <2>1, <2>2, <2>3, RankTable DEF other1
<1> QED
  BY <1>11, <1>12 DEF timing, s

\* WideIO (WideIO.cpp), which opens two rows in a window.
LEMMA WideIOKept ==
  /\ Kept(WideIOTiming, WideIOSpeed)
  /\ WaitsFor(ByCommand(WideIOTiming), "Rank", "ACT", 2, WideIOSpeed.nTAW)
<1> DEFINE s == WideIOSpeed
           wr == WriteRecovery(s)
           rtw == s.nRTW
           wtr == WriteToRead(s, s.nWTR)
           timing == WideIOTiming
           other == {}
<1>1. timing =
         Bus(s) \cup SameCas("Rank", s.nCCD) \cup Turns("Rank", rtw, wtr)
           \cup PreAll(s, s.nRP, wr) \cup Acts(s.nRRD, 2, s.nTAW) \cup RefreshRank(s.nRP, s.nRP, s.nRFC)
           \cup Rows("Bank", s, s.nRCD, s.nRP, wr)
  BY DEF WideIOTiming
<1>2. /\ s.nBL = 4 /\ s.nCCD = 4 /\ s.nCL = 3 /\ s.nRCD = 5 /\ s.nRP = 5
      /\ s.nCWL = 1 /\ s.nRAS = 12 /\ s.nRC = 16 /\ s.nRTP = 4 /\ s.nRTW = 8
      /\ s.nWTR = 4 /\ s.nWR = 4 /\ s.nRRD = 3 /\ s.nTAW = 14 /\ s.nRFC = 56
  BY DEF WideIOSpeed
<1>3. SpeedIs(s, s.nRCD, s.nRP, s.nRP, s.nRFC, 0)
  BY DEF SpeedIs, Short, WideIOSpeed, ToWriteOf, PreOf, PreAllOf, RefreshOf, DelayOf, Value
<1>4. DelayOf(s) = 0
  BY <1>3 DEF SpeedIs
<1> HIDE DEF s
<1>5. Short(s.nCCD) /\ Short(s.nRRD) /\ Short(s.nTAW)
  BY <1>2 DEF Short
<1>6. /\ wr \in Int /\ rtw \in Int /\ wtr \in Int /\ Fits(wr) /\ Fits(rtw) /\ Fits(wtr)
      /\ wr >= WriteRecovery(s) /\ rtw >= LeastToWrite(s) /\ wtr >= LeastToRead(s)
  BY <1>2, <1>4 DEF WriteRecovery, ReadToWrite, WriteToRead, Fits, LeastToWrite, LeastToRead
<1> HIDE DEF wr, rtw, wtr, timing
<1>7. Within(other)
  BY Zenon DEF Within
<1>8. \A t \in timing :
           \/ t \in Bus(s)
           \/ t \in SameCas("Rank", s.nCCD)
           \/ t \in Turns("Rank", rtw, wtr)
           \/ t \in PreAll(s, s.nRP, wr)
           \/ t \in Acts(s.nRRD, 2, s.nTAW)
           \/ t \in RefreshRank(s.nRP, s.nRP, s.nRFC)
           \/ t \in Rows("Bank", s, s.nRCD, s.nRP, wr)
           \/ t \in other
  BY ONLY <1>1, Zenon
<1>9. /\ Bus(s) \subseteq timing
       /\ Turns("Rank", rtw, wtr) \subseteq timing
       /\ PreAll(s, s.nRP, wr) \subseteq timing
       /\ Acts(s.nRRD, 2, s.nTAW) \subseteq timing
       /\ RefreshRank(s.nRP, s.nRP, s.nRFC) \subseteq timing
       /\ Rows("Bank", s, s.nRCD, s.nRP, wr) \subseteq timing
  BY ONLY <1>1, Zenon
<1> HIDE DEF other
<1>10. Kept(timing, s) /\ WaitsFor(ByCommand(timing), "Rank", "ACT", 2, s.nTAW)
  BY <1>3, <1>5, <1>6, <1>7, <1>8, <1>9, TableKept
<1> QED
  BY <1>10 DEF timing, s

(***************************************************************************)
(* The times of a command that has been issued.                            *)
(***************************************************************************)
\* A command was issued at one of the temperatures; only ALDRAM cools down.
Warmth(t) == t = "HOT" \/ (t = "COLD" /\ std = "ALDRAM")
\* A rank of WideIO opens two rows in a window, one of the others four.
MostActs == IF std = "WideIO" THEN 2 ELSE 4
ActWindow == Value(Speed, "nFAW", Value(Speed, "nTAW", 0))
\* The standards that leave a bubble on the bus between two ranks.
Bubbled == RowPerBank \ {"HBM", "GDDR5", "WideIO"}

\* Which table and which speed a standard has.
LEMMA TablesOf ==
  LET is(s, speed, timing) == Standard[s].speed = speed /\ Standard[s].timing = ByCommand(timing)
  IN  /\ is("DDR3", DDR3Speed, DDR3Timing) /\ is("PCM", PCMSpeed, PCMTiming)
      /\ is("DDR4", DDR4Speed, DDR4Timing) /\ is("GDDR5", GDDR5Speed, GDDR5Timing)
      /\ is("HBM", HBMSpeed, HBMTiming) /\ is("LPDDR3", LPDDR3Speed, LPDDR3Timing)
      /\ is("LPDDR4", LPDDR4Speed, LPDDR4Timing) /\ is("WideIO", WideIOSpeed, WideIOTiming)
      /\ is("WideIO2", WideIO2Speed, WideIO2Timing) /\ is("ALDRAM", ALDRAMHot, ALDRAMTiming("HOT"))
BY DEF Standard, Tables

\* The window of a standard, by the name its speed has for it.
LEMMA WindowsAre ==
  LET is(s, v) == Value(s, "nFAW", Value(s, "nTAW", 0)) = v
  IN  /\ is(DDR3Speed, DDR3Speed.nFAW) /\ is(PCMSpeed, PCMSpeed.nFAW) /\ is(DDR4Speed, DDR4Speed.nFAW)
      /\ is(GDDR5Speed, GDDR5Speed.nFAW) /\ is(HBMSpeed, HBMSpeed.nFAW)
      /\ is(LPDDR3Speed, LPDDR3Speed.nFAW) /\ is(LPDDR4Speed, LPDDR4Speed.nFAW)
      /\ is(WideIOSpeed, WideIOSpeed.nTAW) /\ is(WideIO2Speed, WideIO2Speed.nFAW)
      /\ {DDR3Speed.nFAW, PCMSpeed.nFAW, DDR4Speed.nFAW, GDDR5Speed.nFAW, HBMSpeed.nFAW,
          LPDDR3Speed.nFAW, LPDDR4Speed.nFAW, WideIOSpeed.nTAW, WideIO2Speed.nFAW} \subseteq Nat
BY DEF Value, DDR3Speed, PCMSpeed, DDR4Speed, GDDR5Speed, HBMSpeed, LPDDR3Speed, LPDDR4Speed,
       WideIOSpeed, WideIO2Speed

\* The bus is timed alike at both temperatures.
LEMMA ColdBus ==
  /\ BusKept(ByCommand(ALDRAMTiming("COLD")), ALDRAMHot)
  /\ RanksKept(ByCommand(ALDRAMTiming("COLD")), ALDRAMHot)
<1>1. /\ ALDRAMCold.nBL = ALDRAMHot.nBL /\ ALDRAMCold.nCL = ALDRAMHot.nCL
      /\ ALDRAMCold.nCWL = ALDRAMHot.nCWL /\ DelayOf(ALDRAMCold) = DelayOf(ALDRAMHot)
      /\ Value(ALDRAMCold, "nRTRS", 0) = Value(ALDRAMHot, "nRTRS", 0)
      /\ BusKept(ByCommand(ALDRAMTiming("COLD")), ALDRAMCold)
      /\ RanksKept(ByCommand(ALDRAMTiming("COLD")), ALDRAMCold)
  BY ALDRAMColdKept DEF Kept
<1>2. BusKept(ByCommand(ALDRAMTiming("COLD")), ALDRAMHot)
  BY <1>1 DEF BusKept, LeastToWrite, LeastToRead
<1>3. RanksKept(ByCommand(ALDRAMTiming("COLD")), ALDRAMHot)
  BY <1>1 DEF RanksKept
<1> QED
  BY <1>2, <1>3

\* What the table in force when a command was issued keeps.
LEMMA TimesAre ==
  ASSUME std \in RowPerBank, NEW e, Warmth(e.temp)
  PROVE  /\ \A l \in LevelNames, c \in Commands : Within(TimingOf(e)[l][c])
         /\ RowsKept(TimingOf(e), SpeedAt(e)) /\ BusKept(TimingOf(e), Speed)
         /\ std \in Bubbled => RanksKept(TimingOf(e), Speed)
         /\ std # "ALDRAM" => WaitsFor(TimingOf(e), "Rank", "ACT", MostActs, ActWindow)
         /\ std # "ALDRAM" => ActWindow \in Nat
         /\ std = "ALDRAM" => /\ SpeedAt(e).nRC \in Int
                              /\ SpeedAt(e).nRC >= SpeedAt(e).nRAS + PreOf(SpeedAt(e))
<1> DEFINE good(timing, s) ==
             /\ Kept(timing, s)
             /\ std \in Bubbled => RanksKept(ByCommand(timing), s)
             /\ std # "ALDRAM" =>
                  /\ WaitsFor(ByCommand(timing), "Rank", "ACT", MostActs, Value(s, "nFAW", Value(s, "nTAW", 0)))
                  /\ Value(s, "nFAW", Value(s, "nTAW", 0)) \in Nat
             /\ std = "ALDRAM" => s.nRC \in Int /\ s.nRC >= s.nRAS + PreOf(s)
<1>1. ASSUME e.temp # "COLD"
      PROVE  \E timing : TimingOf(e) = ByCommand(timing) /\ good(timing, Speed)
  <2>1. CASE std = "DDR3"
    BY <1>1, <2>1, TablesOf, WindowsAre, DDR3Kept DEF TimingOf, Speed, MostActs
  <2>2. CASE std = "PCM"
    BY <1>1, <2>2, TablesOf, WindowsAre, PCMKept DEF TimingOf, Speed, MostActs
  <2>3. CASE std = "DDR4"
    BY <1>1, <2>3, TablesOf, WindowsAre, DDR4Kept DEF TimingOf, Speed, MostActs
  <2>4. CASE std = "GDDR5"
    BY <1>1, <2>4, TablesOf, WindowsAre, GDDR5Kept DEF TimingOf, Speed, MostActs, Bubbled
  <2>5. CASE std = "HBM"
    BY <1>1, <2>5, TablesOf, WindowsAre, HBMKept DEF TimingOf, Speed, MostActs, Bubbled
  <2>6. CASE std = "LPDDR3"
    BY <1>1, <2>6, TablesOf, WindowsAre, LPDDR3Kept DEF TimingOf, Speed, MostActs
  <2>7. CASE std = "LPDDR4"
    BY <1>1, <2>7, TablesOf, WindowsAre, LPDDR4Kept DEF TimingOf, Speed, MostActs
  <2>8. CASE std = "WideIO"
    BY <1>1, <2>8, TablesOf, WindowsAre, WideIOKept DEF TimingOf, Speed, MostActs, Bubbled
  <2>9. CASE std = "WideIO2"
    BY <1>1, <2>9, TablesOf, WindowsAre, WideIO2Kept DEF TimingOf, Speed, MostActs
  <2>10. CASE std = "ALDRAM"
    BY <1>1, <2>10, TablesOf, ALDRAMHotKept DEF TimingOf, Speed
  <2> QED
    BY <2>1, <2>2, <2>3, <2>4, <2>5, <2>6, <2>7, <2>8, <2>9, <2>10 DEF RowPerBank
<1>2. CASE e.temp # "COLD"
  <2>1. PICK timing : TimingOf(e) = ByCommand(timing) /\ good(timing, Speed)
    BY <1>1, <1>2
  <2>2. SpeedAt(e) = Speed
    BY <1>2 DEF SpeedAt
  <2> QED
    BY <2>1, <2>2, TableWithin DEF Kept, ActWindow
<1>3. CASE e.temp = "COLD"
  <2>1. std = "ALDRAM" /\ Speed = ALDRAMHot
    BY <1>3, TablesOf DEF Warmth, Speed
  <2>2. SpeedAt(e) = ALDRAMCold /\ TimingOf(e) = ByCommand(ALDRAMTiming("COLD"))
    BY <1>3 DEF SpeedAt, TimingOf, ColdTiming
  <2> QED
    BY <2>1, <2>2, ALDRAMColdKept, ColdBus, TableWithin DEF Kept
<1> QED
  BY <1>2, <1>3

(***************************************************************************)
(* The log, and the earliest cycle of the next command.                    *)
(***************************************************************************)
\* Column commands and those of a row go to a bank, the others to a rank.
ToBank == {"ACT", "PRE", "RD", "WR"}
ToRank == {"REF", "PREA"}
Goes(cmd, addr) ==
  \/ cmd \in ToBank /\ \E b \in BankNodes : \E row : addr = Append(b, row)
  \/ cmd \in ToRank /\ \E r : addr = <<r>>
Reach(cmd) == IF cmd \in ToRank THEN 1 ELSE D

\* Commands are where they belong, and one at a time.
EntryOk(e) == Goes(e.cmd, e.addr) /\ e.clk \in Int /\ Warmth(e.temp)
LogOk ==
  /\ LogIsSeq
  /\ \A i \in 1..Len(log) : EntryOk(log[i])
  /\ \A i, j \in 1..Len(log) : i < j => log[i].clk < log[j].clk

\* The way of a command, from the channel down to what it goes to.
LEMMA WayDown ==
  ASSUME std \in RowPerBank, NEW cmd, NEW addr, Goes(cmd, addr)
  PROVE  /\ cmd \in Commands /\ Reach(cmd) \in {1, 2, 3}
         /\ Min({Len(addr), ScopeDepth(cmd)}) = Reach(cmd)
         /\ \A d \in 0..Reach(cmd) : Len(Prefix(addr, d)) = d /\ Level(Prefix(addr, d)) \in LevelNames
<1>1. D \in {2, 3}
  BY UpperLevels
<1>2. \A n : Len(n) \in 0..D => Level(n) \in LevelNames
  <2>1. \A n : Len(n) \in 0..D => Len(n) \in 0..(D - 1) \/ Len(n) = D
    BY <1>1
  <2> QED
    BY <2>1, UpperLevels DEF LevelNames
<1>3. ASSUME cmd \in ToBank, NEW b \in BankNodes, NEW row, addr = Append(b, row)
      PROVE  /\ Reach(cmd) = D /\ ScopeDepth(cmd) = D
             /\ Len(addr) = D + 1 /\ \A d \in 0..D : Len(Prefix(addr, d)) = d
  BY <1>3, RowPath, ScopesAre DEF Reach, ToBank, ToRank
<1>4. ASSUME cmd \in ToRank, NEW r, addr = <<r>>
      PROVE  /\ Reach(cmd) = 1 /\ ScopeDepth(cmd) = 1 /\ Len(addr) = 1
             /\ \A d \in 0..1 : Len(Prefix(addr, d)) = d
  <2>1. \A d \in 0..1 : d = 0 \/ d = 1
    OBVIOUS
  <2> QED
    BY <1>4, <2>1, RankPath, ScopesAre DEF Reach, ToRank
<1>5. Min({D + 1, D}) = D /\ Min({1, 1}) = 1
  <2>1. \A x \in {D + 1, D} : (\A y \in {D + 1, D} : x <= y) <=> x = D
    BY <1>1
  <2>2. \A x \in {1, 1} : (\A y \in {1, 1} : x <= y) <=> x = 1
    OBVIOUS
  <2> QED
    BY <2>1, <2>2 DEF Min
<1>6. cmd \in Commands
  BY DEF Goes, ToBank, ToRank, Commands
<1>7. CASE cmd \in ToBank /\ \E b \in BankNodes : \E row : addr = Append(b, row)
  BY <1>1, <1>2, <1>3, <1>5, <1>6, <1>7
<1>8. CASE cmd \in ToRank /\ \E r : addr = <<r>>
  <2>1. \A d \in 0..1 : d \in 0..D
    BY <1>1
  <2> QED
    BY <1>2, <1>4, <1>5, <1>6, <1>8, <2>1
<1> QED
  BY <1>7, <1>8 DEF Goes

\* A set of integers that has an upper bound has a greatest element.
LEMMA MaxBounded ==
  ASSUME NEW S \in SUBSET Int, S # {}, NEW bound \in Int, \A x \in S : x <= bound
  PROVE  Max(S) \in S /\ \A x \in S : Max(S) >= x
<1> DEFINE R == {p \in Nat \X Nat : p[1] < p[2]}
           T == {bound - x : x \in S}
<1>1. IsWellFoundedOn(R, Nat)
  BY NatLessThanWellFounded DEF OpToRel
<1>2. \A i, j \in Nat : i < j => <<i, j>> \in R
  OBVIOUS
<1>3. T \in SUBSET Nat /\ T # {}
  OBVIOUS
<1> HIDE DEF R
<1>4. PICK t \in T : \A y \in T : ~ (<<y, t>> \in R)
  BY <1>1, <1>3, WFMin
<1>5. PICK m \in S : t = bound - m
  OBVIOUS
<1>6. ASSUME NEW x \in S
      PROVE  m >= x
  <2>1. bound - x \in T /\ bound - x \in Nat /\ bound - m \in Nat
    OBVIOUS
  <2>2. ~ (bound - x < bound - m)
    BY <1>2, <1>4, <1>5, <2>1
  <2> QED
    BY <2>2
<1> QED
  BY <1>6 DEF Max

\* The next command of a kind is issued after the last one of any, and no earlier
\* than any of the cycles that update_timing has computed for the nodes on its way.
LEMMA EarliestIs ==
  ASSUME std \in RowPerBank, LogOk, NEW cmd, NEW addr, Goes(cmd, addr)
  PROVE  /\ Earliest(cmd, addr) \in Int
         /\ \A i \in 1..Len(log) : log[i].clk < Earliest(cmd, addr)
         /\ \A d \in 0..Reach(cmd) : \A x \in Futures(Prefix(addr, d), cmd) : Earliest(cmd, addr) >= x
<1> DEFINE S == {now + 1} \cup UNION {Futures(Prefix(addr, d), cmd) : d \in 0..Reach(cmd)}
<1>1. Earliest(cmd, addr) = Max(S)
  BY WayDown DEF Earliest
<1>2. /\ DOMAIN log = 1..Len(log) /\ Len(log) \in Nat
      /\ log # <<>> => Len(log) > 0 /\ Last(log) = log[Len(log)]
  <2>1. PICK X : log \in Seq(X)
    BY DEF LogOk, LogIsSeq
  <2>2. log # <<>> => Len(log) # 0
    BY <2>1
  <2> QED
    BY <2>1, <2>2 DEF Last
<1>3. now \in Int /\ \A i \in 1..Len(log) : log[i].clk \in Int /\ log[i].clk <= now
  <2>1. CASE log = <<>>
    BY <2>1 DEF now
  <2>2. CASE log # <<>>
    <3>1. now = log[Len(log)].clk /\ Len(log) \in 1..Len(log)
      BY <1>2, <2>2 DEF now
    <3>2. \A i \in 1..Len(log) : log[i].clk \in Int
      BY DEF LogOk, EntryOk
    <3>3. \A i \in 1..Len(log) : i = Len(log) \/ i < Len(log)
      <4>1. \A n \in Nat : \A i \in 1..n : i = n \/ i < n
        OBVIOUS
      <4> QED
        BY ONLY <1>2, <4>1
    <3>4. \A i \in 1..Len(log) : i = Len(log) \/ log[i].clk < log[Len(log)].clk
      BY <3>1, <3>3 DEF LogOk
    <3> QED
      BY <3>1, <3>2, <3>4
  <2> QED
    BY <2>1, <2>2
<1>4. ASSUME NEW d \in 0..Reach(cmd), NEW x \in Futures(Prefix(addr, d), cmd)
      PROVE  x \in Int /\ x <= now + 1000
  <2> DEFINE n == Prefix(addr, d)
  <2>1. PICK i \in DOMAIN log :
          x \in {log[i].clk + t.val :
                   t \in {y \in TimingOf(log[i])[Level(n)][log[i].cmd] : y.to = cmd /\ Applies(y, i, n)}}
    BY DEF Futures
  <2>2. PICK t \in TimingOf(log[i])[Level(n)][log[i].cmd] : x = log[i].clk + t.val
    BY <2>1
  <2>3. Level(n) \in LevelNames
    BY WayDown
  <2>4. EntryOk(log[i]) /\ i \in 1..Len(log)
    BY <1>2 DEF LogOk
  <2>5. log[i].cmd \in Commands /\ Warmth(log[i].temp)
    BY <2>4, WayDown DEF EntryOk
  <2> HIDE DEF n
  <2>6. Within(TimingOf(log[i])[Level(n)][log[i].cmd])
    BY <2>3, <2>5, TimesAre
  <2>7. t.val \in Int /\ t.val <= 1000
    BY <2>6 DEF Within, Fits
  <2>8. log[i].clk \in Int /\ log[i].clk <= now
    BY <1>3, <2>4
  <2> QED
    BY <1>3, <2>2, <2>7, <2>8
<1> DEFINE bound == now + 1000
<1>5. S \in SUBSET Int /\ S # {} /\ bound \in Int /\ \A x \in S : x <= bound
  BY <1>3, <1>4
<1> HIDE DEF S, bound
<1>6. Max(S) \in S /\ \A x \in S : Max(S) >= x
  BY ONLY <1>5, MaxBounded
<1>7. Max(S) \in Int /\ Max(S) >= now + 1
  BY <1>5, <1>6 DEF S
<1>8. \A i \in 1..Len(log) : log[i].clk < Max(S)
  BY <1>3, <1>7
<1>9. \A d \in 0..Reach(cmd) : \A x \in Futures(Prefix(addr, d), cmd) : Max(S) >= x
  BY <1>6 DEF S
<1> QED
  BY <1>1, <1>7, <1>8, <1>9

\* The first element of a list as a list.
LEMMA HeadPrefix ==
  ASSUME NEW X, NEW s \in Seq(X), Len(s) >= 1
  PROVE  Prefix(s, 1) = <<s[1]>>
<1>1. SubSeq(s, 1, 1) \in Seq(X) /\ Len(SubSeq(s, 1, 1)) = 1 /\ SubSeq(s, 1, 1)[1] = s[1]
  OBVIOUS
<1>2. s[1] \in X
  OBVIOUS
<1>3. <<s[1]>> \in Seq(X) /\ Len(<<s[1]>>) = 1 /\ <<s[1]>>[1] = s[1]
  BY <1>2
<1>4. \A i \in 1..1 : i = 1
  OBVIOUS
<1>5. SubSeq(s, 1, 1) = <<s[1]>>
  BY <1>1, <1>3, <1>4, SeqEqual
<1> QED
  BY <1>5 DEF Prefix

\* A set of positions has as many as any subset of it.
LEMMA CountAtLeast ==
  ASSUME NEW n \in Nat, NEW T \in SUBSET (1..n), NEW S \in SUBSET T
  PROVE  /\ IsFiniteSet(T) /\ Cardinality(T) \in Nat
         /\ IsFiniteSet(S) /\ Cardinality(S) \in Nat /\ Cardinality(S) <= Cardinality(T)
<1>1. IsFiniteSet(1..n)
  BY FS_Interval
<1>2. IsFiniteSet(T)
  BY <1>1, FS_Subset
<1> QED
  BY <1>2, FS_Subset, FS_CardinalityType

\* The rank that a command goes by.
LEMMA RankOf ==
  ASSUME std \in RowPerBank, NEW b \in BankNodes, NEW row
  PROVE  LET a == Append(b, row)
         IN  /\ Prefix(a, 1) = <<b[1]>> /\ a[1] = b[1]
             /\ OnPath(<<>>, a) /\ OnPath(b, a)
             /\ \A r : (OnPath(<<r>>, a) <=> r = b[1]) /\ (OnPath(<<r>>, b) <=> r = b[1])
             /\ \A r : ~ OnPath(b, <<r>>)
<1> DEFINE a == Append(b, row)
<1>1. D \in {2, 3} /\ b \in Seq(0..4) /\ Len(b) = D
  BY BanksAre, UpperLevels
<1>2. Prefix(b, 1) = <<b[1]>>
  BY <1>1, HeadPrefix
<1>3. /\ Len(a) = D + 1 /\ Prefix(a, D) = b /\ a[1] = b[1]
      /\ \A d \in 0..D : Len(Prefix(a, d)) = d /\ Prefix(a, d) = Prefix(b, d)
  <2>1. Len(a) = D + 1 /\ a[1] = b[1]
    BY RowPath
  <2>2. Prefix(a, D) = b
    BY RowPath
  <2>3. \A d \in 0..D : Len(Prefix(a, d)) = d /\ Prefix(a, d) = Prefix(b, d)
    BY RowPath
  <2> QED
    BY <2>1, <2>2, <2>3
<1> HIDE DEF a
<1>4. 1 \in 0..D /\ 0 \in 0..D /\ 1 <= D /\ 1 <= D + 1 /\ D <= D + 1 /\ 0 <= D + 1 /\ ~(D <= 1)
  BY <1>1
<1>5. Prefix(a, 1) = <<b[1]>>
  BY <1>2, <1>3, <1>4
<1>6. OnPath(<<>>, a)
  BY <1>3, <1>4, RankPath DEF OnPath, Prefix
<1>7. OnPath(b, a)
  BY <1>1, <1>3, <1>4 DEF OnPath
<1>8. ASSUME NEW r
      PROVE  /\ OnPath(<<r>>, a) <=> r = b[1]
             /\ OnPath(<<r>>, b) <=> r = b[1]
             /\ ~ OnPath(b, <<r>>)
  <2>1. Len(<<r>>) = 1 /\ \A x : <<r>> = <<x>> <=> r = x
    OBVIOUS
  <2> QED
    BY <1>1, <1>2, <1>3, <1>4, <1>5, <2>1 DEF OnPath
<1> QED
  BY <1>3, <1>5, <1>6, <1>7, <1>8 DEF a

\* A command waits for each earlier one as the tables say, if both go by one node ...
LEMMA WaitsAfter ==
  ASSUME std \in RowPerBank, LogOk, NEW cmd, NEW addr, Goes(cmd, addr),
         NEW i \in 1..Len(log), NEW d \in 0..Reach(cmd), OnPath(Prefix(addr, d), log[i].addr),
         NEW v \in Int, Waits(TimingOf(log[i]), Level(Prefix(addr, d)), log[i].cmd, cmd, v)
  PROVE  Earliest(cmd, addr) >= log[i].clk + v
<1> DEFINE n == Prefix(addr, d)
<1>1. PICK t \in TimingOf(log[i])[Level(n)][log[i].cmd] :
        t.to = cmd /\ t.dist = 1 /\ ~ t.sibling /\ t.val \in Int /\ t.val >= v
  BY DEF Waits
<1>2. DOMAIN log = 1..Len(log) /\ Len(log) \in Nat /\ log[i].clk \in Int
  <2>1. PICK X : log \in Seq(X)
    BY DEF LogOk, LogIsSeq
  <2> QED
    BY <2>1 DEF LogOk, EntryOk
<1>3. Applies(t, i, n)
  <2> DEFINE since == {j \in i..Len(log) : log[j].cmd = log[i].cmd /\ OnPath(n, log[j].addr)}
  <2>1. {i} \in SUBSET since
    BY <1>2
  <2>2. since \in SUBSET (1..Len(log))
    BY <1>2
  <2> HIDE DEF since
  <2>3. Cardinality({i}) = 1
    BY FS_Singleton
  <2>4. Cardinality(since) \in Nat /\ Cardinality(since) >= 1
    BY <1>2, <2>1, <2>2, <2>3, CountAtLeast
  <2> QED
    BY <1>1, <2>4 DEF Applies, since
<1>4. log[i].clk + t.val \in Futures(n, cmd)
  BY <1>1, <1>2, <1>3 DEF Futures
<1>5. Earliest(cmd, addr) \in Int /\ Earliest(cmd, addr) >= log[i].clk + t.val
  BY <1>4, EarliestIs
<1> QED
  BY <1>1, <1>2, <1>5

\* ... or, for entries of siblings, if the node the command goes by is a sibling of one
\* that the earlier one went by.
LEMMA WaitsAfterBeside ==
  ASSUME std \in RowPerBank, LogOk, NEW cmd, NEW addr, Goes(cmd, addr),
         NEW i \in 1..Len(log), NEW d \in 0..Reach(cmd), NextToPath(Prefix(addr, d), log[i].addr),
         NEW v \in Int, WaitsBeside(TimingOf(log[i]), Level(Prefix(addr, d)), log[i].cmd, cmd, v)
  PROVE  Earliest(cmd, addr) >= log[i].clk + v
<1> DEFINE n == Prefix(addr, d)
<1>1. PICK t \in TimingOf(log[i])[Level(n)][log[i].cmd] :
        t.to = cmd /\ t.sibling /\ t.val \in Int /\ t.val >= v
  BY DEF WaitsBeside
<1>2. DOMAIN log = 1..Len(log) /\ log[i].clk \in Int
  <2>1. PICK X : log \in Seq(X)
    BY DEF LogOk, LogIsSeq
  <2> QED
    BY <2>1 DEF LogOk, EntryOk
<1>3. Applies(t, i, n)
  BY <1>1 DEF Applies
<1>4. log[i].clk + t.val \in Futures(n, cmd)
  BY <1>1, <1>2, <1>3 DEF Futures
<1>5. Earliest(cmd, addr) \in Int /\ Earliest(cmd, addr) >= log[i].clk + t.val
  BY <1>4, EarliestIs
<1> QED
  BY <1>1, <1>2, <1>5

\* An activation waits for the n-th last one of its rank, n being what a window allows.
LEMMA WaitsForWindow ==
  ASSUME std \in RowPerBank, LogOk, NEW b \in BankNodes, NEW row,
         NEW i \in 1..Len(log), log[i].cmd = "ACT", std # "ALDRAM",
         NEW S \in SUBSET (i..Len(log)), Cardinality(S) >= MostActs,
         i \in S, \A j \in S : log[j].cmd = "ACT" /\ log[j].addr[1] = b[1]
  PROVE  Earliest("ACT", Append(b, row)) >= log[i].clk + ActWindow
<1> DEFINE addr == Append(b, row)
           n == Prefix(addr, 1)
<1>1. Goes("ACT", addr)
  BY DEF Goes, ToBank
<1>2. D \in {2, 3} /\ Reach("ACT") = D
  BY UpperLevels DEF Reach, ToRank
<1>3. n = <<b[1]>> /\ Level(n) = "Rank"
  <2>1. n = <<b[1]>>
    BY RankOf
  <2>2. Len(<<b[1]>>) = 1
    OBVIOUS
  <2> QED
    BY <2>1, <2>2, UpperLevels
<1>4. PICK t \in TimingOf(log[i])["Rank"]["ACT"] :
        t.to = "ACT" /\ t.dist = MostActs /\ ~ t.sibling /\ t.val = ActWindow
  BY TimesAre DEF WaitsFor, LogOk, EntryOk
<1>5. DOMAIN log = 1..Len(log) /\ Len(log) \in Nat /\ log[i].clk \in Int
  <2>1. PICK X : log \in Seq(X)
    BY DEF LogOk, LogIsSeq
  <2> QED
    BY <2>1 DEF LogOk, EntryOk
<1>6. ASSUME NEW j \in S
      PROVE  OnPath(n, log[j].addr)
  <2>1. j \in 1..Len(log) /\ log[j].cmd = "ACT" /\ log[j].addr[1] = b[1]
    BY <1>5
  <2>2. PICK c \in BankNodes : \E r : log[j].addr = Append(c, r)
    BY <2>1 DEF LogOk, EntryOk, Goes, ToRank
  <2>3. PICK r : log[j].addr = Append(c, r)
    BY <2>2
  <2>4. log[j].addr[1] = c[1] /\ OnPath(<<c[1]>>, log[j].addr)
    BY <2>3, RankOf
  <2> QED
    BY <1>3, <2>1, <2>4
<1>7. Applies(t, i, n)
  <2> DEFINE since == {j \in i..Len(log) : log[j].cmd = log[i].cmd /\ OnPath(n, log[j].addr)}
  <2>1. S \in SUBSET since
    BY <1>6
  <2>2. since \in SUBSET (1..Len(log))
    BY <1>5
  <2> HIDE DEF since
  <2>3. /\ Cardinality(since) \in Nat /\ Cardinality(S) \in Nat
        /\ Cardinality(S) <= Cardinality(since)
    BY <1>5, <2>1, <2>2, CountAtLeast
  <2>4. MostActs \in Nat
    BY DEF MostActs
  <2>5. Cardinality(since) >= MostActs
    BY <2>3, <2>4
  <2>6. OnPath(n, log[i].addr)
    BY <1>6
  <2> QED
    BY <1>4, <2>5, <2>6 DEF Applies, since
<1>8. log[i].clk + ActWindow \in Futures(n, "ACT")
  BY <1>3, <1>4, <1>5, <1>7 DEF Futures
<1> QED
  BY <1>1, <1>2, <1>8, EarliestIs

(***************************************************************************)
(* The times of a bank.                                                    *)
(***************************************************************************)
\* The table of Required for the commands of these standards.
LEMMA RequiredIs ==
  ASSUME std \in RowPerBank, NEW e, NEW f, e.cmd \in ToBank \cup ToRank, f.cmd \in ToBank \cup ToRank
  PROVE  LET s == SpeedAt(e)
             is(from, to, v) == e.cmd = from /\ f.cmd = to => Required(e, f) = v
         IN  /\ is("ACT", "RD", s.nRCD) /\ is("ACT", "WR", ToWriteOf(s))
             /\ is("ACT", "PRE", s.nRAS) /\ is("ACT", "PREA", s.nRAS) /\ is("ACT", "REF", s.nRAS)
             /\ is("ACT", "ACT", s.nRAS + PreOf(s))
             /\ is("RD", "PRE", s.nRTP) /\ is("RD", "PREA", s.nRTP)
             /\ is("WR", "PRE", WriteRecovery(s)) /\ is("WR", "PREA", WriteRecovery(s))
             /\ is("PRE", "ACT", PreOf(s)) /\ is("PRE", "REF", PreOf(s))
             /\ is("PREA", "ACT", PreAllOf(s)) /\ is("PREA", "REF", PreAllOf(s))
             /\ is("REF", "ACT", RefreshOf(s)) /\ is("REF", "REF", RefreshOf(s))
             /\ \/ e.cmd = "ACT"
                \/ e.cmd \in {"RD", "WR"} /\ f.cmd \in {"PRE", "PREA"}
                \/ e.cmd \in {"PRE", "PREA", "REF"} /\ f.cmd \in {"ACT", "REF"}
                \/ Required(e, f) = 0
<1>1. std # "DSARP"
  BY DEF RowPerBank
<1> DEFINE s == SpeedAt(e)
           r == Required(e, f)
<1>2. r = CASE e.cmd = "ACT" /\ f.cmd = "RD"                           -> s.nRCD
            [] e.cmd = "ACT" /\ f.cmd = "WR"                           -> ToWriteOf(s)
            [] e.cmd = "ACT" /\ f.cmd \in {"PRE", "PREA", "REF"}       -> s.nRAS
            [] e.cmd = "ACT" /\ f.cmd = "ACT"                          -> s.nRAS + PreOf(s)
            [] e.cmd = "RD" /\ f.cmd \in {"PRE", "PREA"}               -> s.nRTP
            [] e.cmd = "WR" /\ f.cmd \in {"PRE", "PREA"}               -> WriteRecovery(s)
            [] e.cmd = "PRE" /\ f.cmd \in {"ACT", "REF"}               -> PreOf(s)
            [] e.cmd = "PREA" /\ f.cmd \in {"ACT", "REF"}              -> PreAllOf(s)
            [] e.cmd = "REF" /\ f.cmd \in {"ACT", "REF"}               -> RefreshOf(s)
            [] OTHER -> 0
  <2>1. CASE e.cmd = "ACT"
    BY <2>1, Zenon DEF Required, ToBank, ToRank, Activations, Reads, Closings, Pres, Refreshes,
       ToWriteOf, PreOf
  <2>2. CASE e.cmd = "RD"
    BY <2>2, Zenon DEF Required, ToBank, ToRank, Activations, Reads, Closings, Pres, Refreshes
  <2>3. CASE e.cmd = "WR"
    BY <2>3, Zenon DEF Required, ToBank, ToRank, Activations, Reads, Closings, Pres, Refreshes
  <2>4. CASE e.cmd = "PRE"
    BY <2>4, Zenon DEF Required, ToBank, ToRank, Activations, Reads, Closings, Pres, Refreshes, PreOf
  <2>5. CASE e.cmd = "PREA"
    BY <2>5, Zenon DEF Required, ToBank, ToRank, Activations, Reads, Closings, Pres, Refreshes, PreOf,
       PreAllOf
  <2>6. CASE e.cmd = "REF"
    BY <1>1, <2>6, Zenon DEF Required, ToBank, ToRank, Activations, Reads, Closings, Pres, Refreshes,
       RefreshOf
  <2> QED
    BY <2>1, <2>2, <2>3, <2>4, <2>5, <2>6 DEF ToBank, ToRank
<1> HIDE DEF s, r
<1>3. e.cmd \in {"ACT", "PRE", "RD", "WR", "REF", "PREA"}
  BY DEF ToBank, ToRank
<1> QED
  BY <1>2, <1>3 DEF s, r

\* Two commands that are about common rows go by one bank, or by one rank.
LEMMA MeetBy ==
  ASSUME std \in RowPerBank, NEW x, NEW e, Goes(x.cmd, x.addr), Goes(e.cmd, e.addr), Meet(x, e)
  PROVE  \/ /\ x.cmd \in ToBank /\ e.cmd \in ToBank /\ Reach(e.cmd) = D
            /\ OnPath(Prefix(e.addr, D), x.addr) /\ Level(Prefix(e.addr, D)) = "Bank"
         \/ /\ x.cmd \in ToRank \/ e.cmd \in ToRank
            /\ OnPath(Prefix(e.addr, 1), x.addr) /\ Level(Prefix(e.addr, 1)) = "Rank"
<1>1. D \in {2, 3} /\ \A r : Level(<<r>>) = "Rank"
  <2>1. \A r : Len(<<r>>) = 1
    OBVIOUS
  <2> QED
    BY <2>1, UpperLevels
<1>2. ASSUME NEW b \in BankNodes, NEW row, e.addr = Append(b, row), e.cmd \in ToBank
      PROVE  /\ Unit(e) = b /\ Prefix(e.addr, D) = b /\ Level(b) = "Bank"
             /\ Prefix(e.addr, 1) = <<b[1]>> /\ Reach(e.cmd) = D
  <2>1. Reach(e.cmd) = D
    BY <1>2 DEF Reach, ToBank, ToRank
  <2>2. Unit(e) = b
    BY <1>2, UnitsAre
  <2>3. Prefix(Append(b, row), D) = b
    BY RowPath
  <2>4. Prefix(Append(b, row), 1) = <<b[1]>>
    BY RankOf
  <2>5. Level(b) = "Bank"
    BY BanksAre
  <2> QED
    BY <1>2, <2>1, <2>2, <2>3, <2>4, <2>5
<1>3. ASSUME NEW r, e.addr = <<r>>
      PROVE  Unit(e) = <<r>> /\ Prefix(e.addr, 1) = <<r>>
  BY <1>3, UnitsAre, RankPath
<1>4. ASSUME NEW b \in BankNodes, NEW row, x.addr = Append(b, row)
      PROVE  /\ Unit(x) = b /\ OnPath(b, x.addr) /\ \A r : ~ OnPath(b, <<r>>)
             /\ \A r : (OnPath(<<r>>, x.addr) <=> r = b[1]) /\ (OnPath(<<r>>, b) <=> r = b[1])
  <2> DEFINE a == Append(b, row)
  <2>1. Unit(x) = b
    BY <1>4, UnitsAre
  <2>2. OnPath(b, a) /\ \A r : ~ OnPath(b, <<r>>)
    BY RankOf
  <2>3. \A r : (OnPath(<<r>>, a) <=> r = b[1]) /\ (OnPath(<<r>>, b) <=> r = b[1])
    BY RankOf
  <2>4. x.addr = a
    BY <1>4
  <2> HIDE DEF a
  <2> QED
    BY <2>1, <2>2, <2>3, <2>4
<1>5. ASSUME NEW r, x.addr = <<r>>
      PROVE  /\ Unit(x) = <<r>> /\ \A q : OnPath(<<q>>, <<r>>) <=> q = r
  <2>1. ASSUME NEW q
        PROVE  OnPath(<<q>>, <<r>>) <=> q = r
    BY RankPath DEF OnPath
  <2> QED
    BY <1>5, <2>1, UnitsAre
<1>6. CASE e.cmd \in ToBank /\ \E b \in BankNodes : \E row : e.addr = Append(b, row)
  <2>1. PICK b \in BankNodes : \E row : e.addr = Append(b, row)
    BY <1>6
  <2>2. PICK row : e.addr = Append(b, row)
    BY <2>1
  <2>3. /\ Unit(e) = b /\ Prefix(e.addr, D) = b /\ Level(b) = "Bank"
        /\ Prefix(e.addr, 1) = <<b[1]>> /\ Reach(e.cmd) = D
    BY <1>2, <1>6, <2>2
  <2>4. CASE x.cmd \in ToBank /\ \E c \in BankNodes : \E r : x.addr = Append(c, r)
    <3>1. PICK c \in BankNodes : \E r : x.addr = Append(c, r)
      BY <2>4
    <3>2. Unit(x) = c /\ OnPath(c, x.addr)
      BY <1>4, <3>1
    <3>3. b = c
      BY <2>3, <3>2, UnitsAre DEF Meet
    <3> QED
      BY <1>6, <2>3, <2>4, <3>2, <3>3
  <2>5. CASE x.cmd \in ToRank /\ \E r : x.addr = <<r>>
    <3>1. PICK r : x.addr = <<r>>
      BY <2>5
    <3>2. Unit(x) = <<r>> /\ OnPath(<<r>>, x.addr)
      BY <1>5, <3>1
    <3>3. r = b[1]
      BY <2>3, <3>2, RankOf DEF Meet
    <3> QED
      BY <1>1, <2>3, <2>5, <3>2, <3>3
  <2> QED
    BY <2>4, <2>5 DEF Goes
<1>7. CASE e.cmd \in ToRank /\ \E r : e.addr = <<r>>
  <2>1. PICK q : e.addr = <<q>>
    BY <1>7
  <2>2. Unit(e) = <<q>> /\ Prefix(e.addr, 1) = <<q>>
    BY <1>3, <2>1
  <2>3. CASE x.cmd \in ToBank /\ \E c \in BankNodes : \E r : x.addr = Append(c, r)
    <3>1. PICK c \in BankNodes : \E r : x.addr = Append(c, r)
      BY <2>3
    <3>2. /\ Unit(x) = c /\ ~ OnPath(c, <<q>>)
          /\ (OnPath(<<q>>, x.addr) <=> q = c[1]) /\ (OnPath(<<q>>, c) <=> q = c[1])
      BY <1>4, <3>1
    <3> QED
      BY <1>1, <1>7, <2>2, <3>2 DEF Meet
  <2>4. CASE x.cmd \in ToRank /\ \E r : x.addr = <<r>>
    <3>1. PICK r : x.addr = <<r>>
      BY <2>4
    <3>2. q = r
      BY <1>5, <2>1, <2>2, <3>1, RankPath DEF Meet, OnPath
    <3> QED
      BY <1>1, <1>5, <1>7, <2>2, <3>1, <3>2
  <2> QED
    BY <2>3, <2>4 DEF Goes
<1> QED
  BY <1>6, <1>7 DEF Goes

\* A row that is opened or refreshed finds its bank precharged, so these two wait for
\* the precharge and not for the activation before it (but ALDRAM's times of a
\* precharge change as it cools down, and an activation waits for the last one there).
Between(x, y) == x.cmd = "ACT" /\ (y.cmd = "REF" \/ (y.cmd = "ACT" /\ std # "ALDRAM"))
TimeKept(x, y) == Meet(x, y) /\ ~ Between(x, y) => y.clk >= x.clk + Required(x, y)
PairsKept ==
  \A x, y : \A i, j \in 1..Len(log) :
    i < j /\ log[i] = x /\ log[j] = y => TimeKept(x, y)

\* The next command keeps its time from each earlier one.
LEMMA NextIsTimed ==
  ASSUME std \in RowPerBank, LogOk, NEW e, Goes(e.cmd, e.addr), e.clk = Earliest(e.cmd, e.addr),
         NEW i \in 1..Len(log)
  PROVE  TimeKept(log[i], e)
<1> DEFINE x == log[i]
           s == SpeedAt(x)
           tab == TimingOf(x)
           R == Required(x, e)
<1>1. EntryOk(x) /\ x.clk \in Int
  BY DEF LogOk, EntryOk
<1>2. e.clk \in Int /\ x.clk < e.clk
  BY EarliestIs
<1>3. RowsKept(tab, s)
  BY <1>1, TimesAre DEF EntryOk
<1>4. /\ {s.nRCD, s.nRAS, s.nRTP, ToWriteOf(s), WriteRecovery(s), PreOf(s), PreAllOf(s), RefreshOf(s)}
           \subseteq Int
      /\ PreAllOf(s) >= PreOf(s)
  BY <1>3 DEF RowsKept
<1>5. x.cmd \in ToBank \cup ToRank /\ e.cmd \in ToBank \cup ToRank
  BY <1>1 DEF EntryOk, Goes
<1> SUFFICES ASSUME Meet(x, e), ~ Between(x, e)
             PROVE  e.clk >= x.clk + R
  BY DEF TimeKept
<1>6. CASE R = 0
  BY <1>1, <1>2, <1>6
<1>7. ASSUME x.cmd \in ToBank, e.cmd \in ToBank, NEW v \in Int, R = v, Waits(tab, "Bank", x.cmd, e.cmd, v)
      PROVE  e.clk >= x.clk + R
  <2>1. /\ Reach(e.cmd) = D /\ OnPath(Prefix(e.addr, D), x.addr)
        /\ Level(Prefix(e.addr, D)) = "Bank"
    BY <1>1, <1>7, MeetBy DEF EntryOk, ToBank, ToRank
  <2>2. D \in 0..Reach(e.cmd)
    BY <2>1, UpperLevels
  <2> QED
    BY <1>7, <2>1, <2>2, WaitsAfter
<1>8. ASSUME x.cmd \in ToRank \/ e.cmd \in ToRank, NEW v \in Int, R = v,
             Waits(tab, "Rank", x.cmd, e.cmd, v)
      PROVE  e.clk >= x.clk + R
  <2>1. OnPath(Prefix(e.addr, 1), x.addr) /\ Level(Prefix(e.addr, 1)) = "Rank"
    BY <1>1, <1>8, MeetBy DEF EntryOk, ToBank, ToRank
  <2>2. Reach(e.cmd) \in {1, 2, 3}
    BY WayDown
  <2>3. 1 \in 0..Reach(e.cmd)
    BY <2>2
  <2> QED
    BY <1>8, <2>1, <2>3, WaitsAfter
<1> HIDE DEF x, s, tab, R
<1>9. CASE x.cmd = "ACT"
  <2>1. CASE e.cmd = "RD"
    BY <1>3, <1>4, <1>5, <1>7, <1>9, <2>1, RequiredIs DEF RowsKept, R, s, ToBank
  <2>2. CASE e.cmd = "WR"
    BY <1>3, <1>4, <1>5, <1>7, <1>9, <2>2, RequiredIs DEF RowsKept, R, s, ToBank
  <2>3. CASE e.cmd = "PRE"
    BY <1>3, <1>4, <1>5, <1>7, <1>9, <2>3, RequiredIs DEF RowsKept, R, s, ToBank
  <2>4. CASE e.cmd = "PREA"
    BY <1>3, <1>4, <1>5, <1>8, <1>9, <2>4, RequiredIs DEF RowsKept, R, s, ToRank
  <2>5. CASE e.cmd = "ACT" /\ std = "ALDRAM"
    <3>1. s.nRC \in Int /\ s.nRC >= s.nRAS + PreOf(s)
      BY <1>1, <2>5, TimesAre DEF EntryOk, s
    <3>2. Waits(tab, "Bank", "ACT", "ACT", s.nRC)
      BY <1>3 DEF RowsKept
    <3>3. s.nRAS + PreOf(s) \in Int /\ s.nRAS + PreOf(s) <= s.nRC
      BY <1>4, <3>1
    <3>4. Waits(tab, "Bank", "ACT", "ACT", s.nRAS + PreOf(s))
      BY <3>1, <3>2, <3>3, WaitsLess
    <3>5. R = s.nRAS + PreOf(s)
      BY <1>5, <1>9, <2>5, RequiredIs DEF R, s
    <3> QED
      BY <1>7, <1>9, <2>5, <3>3, <3>4, <3>5 DEF ToBank
  <2> QED
    BY <1>5, <1>9, <2>1, <2>2, <2>3, <2>4, <2>5 DEF Between, ToBank, ToRank
<1>10. CASE x.cmd \in {"RD", "WR"} /\ e.cmd \in {"PRE", "PREA"}
  <2>1. CASE x.cmd = "RD" /\ e.cmd = "PRE"
    BY <1>3, <1>4, <1>5, <1>7, <2>1, RequiredIs DEF RowsKept, R, s, ToBank
  <2>2. CASE x.cmd = "RD" /\ e.cmd = "PREA"
    BY <1>3, <1>4, <1>5, <1>8, <2>2, RequiredIs DEF RowsKept, R, s, ToRank
  <2>3. CASE x.cmd = "WR" /\ e.cmd = "PRE"
    BY <1>3, <1>4, <1>5, <1>7, <2>3, RequiredIs DEF RowsKept, R, s, ToBank
  <2>4. CASE x.cmd = "WR" /\ e.cmd = "PREA"
    BY <1>3, <1>4, <1>5, <1>8, <2>4, RequiredIs DEF RowsKept, R, s, ToRank
  <2> QED
    BY <1>10, <2>1, <2>2, <2>3, <2>4
<1>11. CASE x.cmd \in {"PRE", "PREA", "REF"} /\ e.cmd \in {"ACT", "REF"}
  <2>1. CASE x.cmd = "PRE" /\ e.cmd = "ACT"
    BY <1>3, <1>4, <1>5, <1>7, <2>1, RequiredIs DEF RowsKept, R, s, ToBank
  <2>2. CASE x.cmd = "PRE" /\ e.cmd = "REF"
    BY <1>3, <1>4, <1>5, <1>8, <2>2, RequiredIs DEF RowsKept, R, s, ToRank
  <2>3. CASE x.cmd = "PREA" /\ e.cmd = "ACT"
    BY <1>3, <1>4, <1>5, <1>8, <2>3, RequiredIs DEF RowsKept, R, s, ToRank
  <2>4. CASE x.cmd = "PREA" /\ e.cmd = "REF"
    BY <1>3, <1>4, <1>5, <1>8, <2>4, RequiredIs DEF RowsKept, R, s, ToRank
  <2>5. CASE x.cmd = "REF" /\ e.cmd = "ACT"
    BY <1>3, <1>4, <1>5, <1>8, <2>5, RequiredIs DEF RowsKept, R, s, ToRank
  <2>6. CASE x.cmd = "REF" /\ e.cmd = "REF"
    BY <1>3, <1>4, <1>5, <1>8, <2>6, RequiredIs DEF RowsKept, R, s, ToRank
  <2> QED
    BY <1>11, <2>1, <2>2, <2>3, <2>4, <2>5, <2>6
<1> QED
  BY <1>5, <1>6, <1>9, <1>10, <1>11, RequiredIs DEF R

(***************************************************************************)
(* The invariant of the times.                                             *)
(***************************************************************************)
TimesMatch == RowsMatch /\ RowsExclusive /\ Warmth(temp) /\ LogOk /\ PairsKept

\* A command is issued in the first cycle that the tables allow.
Issued(e) ==
  /\ Goes(e.cmd, e.addr) /\ e.clk = Earliest(e.cmd, e.addr) /\ e.temp = temp
  /\ log' = Append(log, e) /\ std' = std /\ temp' = temp

\* Each step issues a command or none.
LEMMA StepIssues ==
  ASSUME TimesMatch, [Next]_vars
  PROVE  \/ std' = std /\ UNCHANGED <<bank, log>> /\ (temp' = temp \/ (std = "ALDRAM" /\ temp' = "COLD"))
         \/ \E e : Issued(e)
<1>1. std \in RowPerBank /\ DOMAIN bank = BankNodes
  BY DEF TimesMatch, RowsMatch
<1>2. ASSUME NEW b \in BankNodes, NEW row, NEW e, AccessStep(b, row, e), std' = std, temp' = temp
      PROVE  Issued(e)
  <2>1. e.cmd \in ToBank
    BY <1>2 DEF AccessStep, RowNeed, ToBank
  <2>2. Goes(e.cmd, e.addr)
    BY <1>2, <2>1 DEF AccessStep, Goes
  <2> QED
    BY <1>2, <2>2 DEF AccessStep, Issued
<1>3. ASSUME NEW r, NEW e, RankStep(r, e), std' = std, temp' = temp
      PROVE  Issued(e)
  <2>1. e.cmd \in ToRank
    BY <1>3 DEF RankStep, ToRank
  <2>2. Goes(e.cmd, e.addr)
    BY <1>3, <2>1 DEF RankStep, Goes
  <2> QED
    BY <1>3, <2>2 DEF RankStep, Issued
<1>4. CASE Next
  BY <1>1, <1>2, <1>3, <1>4, StepIs
<1> QED
  BY <1>4 DEF vars

\* What is said of a command does not change while the standard does not.
LEMMA SaidOfCommands ==
  ASSUME std' = std
  PROVE  /\ \A x : EntryOk(x)' <=> EntryOk(x)
         /\ \A x, y : TimeKept(x, y)' <=> TimeKept(x, y)
<1>1. /\ BankNodes' = BankNodes /\ \A x : Unit(x)' = Unit(x)
      /\ Speed' = Speed /\ \A x : SpeedAt(x)' = SpeedAt(x)
  BY DEF BankNodes, Nodes, Level, LeafDepth, Unit, UnitDepth, Speed, SpeedAt
<1>2. \A x : EntryOk(x)' <=> EntryOk(x)
  BY <1>1 DEF EntryOk, Goes, Warmth
<1>3. \A x, y : Required(x, y)' = Required(x, y)
  BY <1>1 DEF Required
<1>4. \A x, y : Meet(x, y)' <=> Meet(x, y)
  BY <1>1 DEF Meet
<1> QED
  BY <1>2, <1>3, <1>4 DEF TimeKept, Between

\* At the start there is no command to keep a time from.
LEMMA TimesMatchInit ==
  ASSUME std \in RowPerBank, Init
  PROVE  TimesMatch
<1>1. RowsMatch /\ RowsExclusive
  BY RowsMatchInit
<1>2. log = <<>> /\ Len(log) = 0 /\ temp = "HOT"
  BY DEF Init
<1>3. LogIsSeq
  BY <1>1 DEF RowsMatch
<1> QED
  BY <1>1, <1>2, <1>3 DEF TimesMatch, LogOk, PairsKept, Warmth

\* A command more.
LEMMA IssuedKeepsTimes ==
  ASSUME TimesMatch, NEW e, Issued(e)
  PROVE  LogOk' /\ PairsKept'
<1> DEFINE k == Len(log)
<1>1. std \in RowPerBank /\ LogOk /\ LogIsSeq /\ std' = std
  BY DEF TimesMatch, RowsMatch, Issued
<1>2. /\ LogIsSeq' /\ k \in Nat /\ Len(log') = k + 1
      /\ log'[k + 1] = e /\ \A i \in 1..k : log'[i] = log[i]
  BY <1>1, LastOf DEF Issued
<1>3. /\ EntryOk(e) /\ \A i \in 1..k : log[i].clk < e.clk
  BY <1>1, EarliestIs DEF Issued, EntryOk, TimesMatch
<1>4. \A i \in 1..k : TimeKept(log[i], e)
  BY <1>1, NextIsTimed DEF Issued
<1>5. \A i \in 1..(k + 1) : i \in 1..k \/ i = k + 1
  BY <1>2
<1>6. \A i, j \in 1..(k + 1) : i < j => i \in 1..k
  BY <1>2
<1>7. LogOk'
  <2>1. \A i \in 1..(k + 1) : EntryOk(log'[i])
    BY <1>1, <1>2, <1>3, <1>5 DEF LogOk
  <2>2. \A i \in 1..(k + 1) : \A x : x = log'[i] => EntryOk(x)'
    BY <1>1, <2>1, SaidOfCommands
  <2>3. \A i \in 1..(k + 1) : EntryOk(log[i])'
    BY <2>2 DEF EntryOk, Goes, Warmth
  <2>4. \A i, j \in 1..(k + 1) : i < j => log'[i].clk < log'[j].clk
    <3>1. SUFFICES ASSUME NEW i \in 1..(k + 1), NEW j \in 1..(k + 1), i < j
                   PROVE  log'[i].clk < log'[j].clk
      OBVIOUS
    <3>2. i \in 1..k /\ log'[i] = log[i]
      BY <1>2, <1>6, <3>1
    <3>3. CASE j = k + 1
      BY <1>2, <1>3, <3>2, <3>3
    <3>4. CASE j \in 1..k
      BY <1>1, <1>2, <3>1, <3>2, <3>4 DEF LogOk
    <3> QED
      BY <1>5, <3>3, <3>4
  <2> QED
    BY <1>2, <2>3, <2>4 DEF LogOk
<1>8. PairsKept'
  <2>1. SUFFICES ASSUME NEW x, NEW y, NEW i \in 1..(k + 1), NEW j \in 1..(k + 1),
                        i < j, log'[i] = x, log'[j] = y
                 PROVE  TimeKept(x, y)
    BY <1>1, <1>2, SaidOfCommands DEF PairsKept
  <2>2. i \in 1..k /\ x = log[i]
    BY <1>2, <1>6, <2>1
  <2>3. CASE j = k + 1
    BY <1>2, <1>4, <2>1, <2>2, <2>3
  <2>4. CASE j \in 1..k
    <3>1. y = log[j]
      BY <1>2, <2>1, <2>4
    <3> QED
      BY <2>1, <2>2, <2>4, <3>1 DEF TimesMatch, PairsKept
  <2> QED
    BY <1>5, <2>3, <2>4
<1> QED
  BY <1>7, <1>8

\* No command more.
LEMMA IdleKeepsTimes ==
  ASSUME LogOk, PairsKept, std' = std, log' = log
  PROVE  LogOk' /\ PairsKept'
<1>1. \A i \in 1..Len(log) : \A x : x = log[i] => EntryOk(x)'
  BY SaidOfCommands DEF LogOk
<1>2. \A i \in 1..Len(log) : EntryOk(log[i])'
  BY <1>1 DEF EntryOk, Goes, Warmth
<1>3. LogOk'
  BY <1>2 DEF LogOk, LogIsSeq
<1>4. PairsKept'
  BY SaidOfCommands DEF PairsKept
<1> QED
  BY <1>3, <1>4

\* Every step keeps the times.
LEMMA TimesMatchNext ==
  ASSUME TimesMatch, [Next]_vars
  PROVE  TimesMatch'
<1>1. RowsMatch' /\ RowsExclusive'
  BY RowsMatchNext DEF TimesMatch
<1>2. CASE /\ std' = std /\ UNCHANGED <<bank, log>>
           /\ temp' = temp \/ (std = "ALDRAM" /\ temp' = "COLD")
  <2>1. LogOk' /\ PairsKept'
    BY <1>2, IdleKeepsTimes DEF TimesMatch
  <2>2. Warmth(temp)'
    BY <1>2 DEF TimesMatch, Warmth
  <2> QED
    BY <1>1, <2>1, <2>2 DEF TimesMatch
<1>3. ASSUME NEW e, Issued(e)
      PROVE  TimesMatch'
  <2>1. Warmth(temp)'
    BY <1>3 DEF TimesMatch, Warmth, Issued
  <2> QED
    BY <1>1, <1>3, <2>1, IssuedKeepsTimes DEF TimesMatch
<1> QED
  BY <1>2, <1>3, StepIssues

\* Between the activation of a bank and a time at which it is closed, it was closed.
LEMMA ClosedBetween ==
  ASSUME std \in RowPerBank, LogOk, NEW k \in Nat, k <= Len(log), NEW i \in 1..k,
         NEW b \in BankNodes, NEW row, log[i].cmd = "ACT", log[i].addr = Append(b, row),
         OpenAt(b, k) = <<>>
  PROVE  \E m \in 1..k : i < m /\ log[m].cmd \in Closings /\ OnPath(Unit(log[m]), b)
<1> DEFINE about == {j \in 1..k : log[j].cmd \in Activations \cup Closings /\ OnPath(Unit(log[j]), b)}
<1>1. i \in about
  <2>1. Unit(log[i]) = b
    BY UnitsAre
  <2> QED
    BY <2>1, UnitsAre DEF Activations
<1>2. about \in SUBSET (1..k)
  OBVIOUS
<1>3. IF about = {} \/ log[Max(about)].cmd \in Closings THEN TRUE ELSE log[Max(about)].addr = <<>>
  BY DEF OpenAt
<1>4. \A j \in about : log[j].cmd \in Activations \cup Closings /\ OnPath(Unit(log[j]), b)
  OBVIOUS
<1> HIDE DEF about
<1>5. PICK m \in about : \A j \in about : m >= j
  BY <1>1, <1>2, GreatestOf
<1>6. Max(about) \in about /\ \A j \in about : Max(about) >= j
  BY <1>5 DEF Max
<1>7. PICK n \in 1..k : n = Max(about)
  BY <1>2, <1>6
<1>8. n \in 1..k /\ n >= i /\ log[n].cmd \in Activations \cup Closings /\ OnPath(Unit(log[n]), b)
  BY <1>1, <1>4, <1>6, <1>7
<1>9. log[n].addr # <<>>
  <2>1. n \in 1..Len(log)
    <3>1. Len(log) \in Nat
      <4>1. PICK X : log \in Seq(X)
        BY DEF LogOk, LogIsSeq
      <4> QED
        BY <4>1
    <3> QED
      BY <1>8, <3>1
  <2>2. Goes(log[n].cmd, log[n].addr)
    BY <2>1 DEF LogOk, EntryOk
  <2>3. ASSUME NEW c \in BankNodes, NEW r
        PROVE  Append(c, r) # <<>>
    <3> DEFINE a == Append(c, r)
    <3>1. Len(a) = D + 1
      BY RowPath
    <3> HIDE DEF a
    <3>2. D \in {2, 3} /\ Len(<<>>) = 0
      BY UpperLevels
    <3>3. a # <<>>
      BY <3>1, <3>2
    <3> QED
      BY <3>3 DEF a
  <2>4. \A r : <<r>> # <<>>
    OBVIOUS
  <2> QED
    BY <2>2, <2>3, <2>4 DEF Goes
<1>10. log[n].cmd \in Closings
  BY <1>1, <1>3, <1>7, <1>9
<1>11. n # i
  BY <1>10 DEF Closings, Pres
<1> QED
  BY <1>8, <1>10, <1>11

\* The pairs that wait for a precharge keep their times as well.
LEMMA BankTimesFollow ==
  ASSUME TimesMatch
  PROVE  BankTimesKept
<1> DEFINE n == Len(log)
           f == Last(log)
<1>1. /\ std \in RowPerBank /\ LogOk /\ RowsExclusive /\ PairsKept /\ DOMAIN bank = BankNodes
  BY DEF TimesMatch, RowsMatch
<1>2. SUFFICES ASSUME NEW i \in Earlier, Meet(log[i], f)
               PROVE  f.clk >= log[i].clk + Required(log[i], f)
  BY Zenon DEF BankTimesKept, TimesKept
<1> DEFINE e == log[i]
<1>3. n \in Nat /\ i \in 1..n /\ i < n /\ n \in 1..n /\ f = log[n] /\ log # <<>> /\ n - 1 \in Nat
      /\ i \in 1..(n - 1) /\ n - 1 <= n
  <2>1. PICK X : log \in Seq(X)
    BY <1>1 DEF LogOk, LogIsSeq
  <2>2. n \in Nat /\ i \in 1..(n - 1)
    BY <2>1 DEF Earlier
  <2>3. log # <<>>
    BY <2>2
  <2> QED
    BY <2>2, <2>3 DEF Last
<1>4. EntryOk(e) /\ EntryOk(f)
  BY <1>1, <1>3 DEF LogOk
<1>5. CASE ~ Between(e, f)
  BY <1>1, <1>2, <1>3, <1>5 DEF PairsKept, TimeKept
<1>6. CASE Between(e, f)
  <2>1. e.cmd = "ACT" /\ (f.cmd = "REF" \/ (f.cmd = "ACT" /\ std # "ALDRAM"))
    BY <1>6 DEF Between
  <2>2. PICK b \in BankNodes : \E row : e.addr = Append(b, row)
    BY <1>4, <2>1 DEF EntryOk, Goes, ToRank
  <2>3. PICK row : e.addr = Append(b, row)
    BY <2>2
  <2>4. Unit(e) = b
    BY <1>1, <2>3, UnitsAre
  <2>5. OpenAt(b, n - 1) = <<>> /\ (f.cmd = "ACT" => Unit(f) = b)
    <3>1. CASE f.cmd = "ACT"
      <4>1. PICK c \in BankNodes : \E r : f.addr = Append(c, r)
        BY <1>4, <3>1 DEF EntryOk, Goes, ToRank
      <4>2. Unit(f) = c
        BY <1>1, <4>1, UnitsAre
      <4>3. b = c
        BY <1>1, <1>2, <2>4, <4>2, UnitsAre DEF Meet
      <4> QED
        BY <1>1, <1>3, <3>1, <4>2, <4>3 DEF RowsExclusive, Activations
    <3>2. CASE f.cmd = "REF"
      <4>1. PICK r : f.addr = <<r>>
        BY <1>4, <3>2 DEF EntryOk, Goes, ToBank
      <4>2. Unit(f) = <<r>>
        BY <1>1, <4>1, UnitsAre
      <4>3. OnPath(<<r>>, b)
        BY <1>1, <1>2, <2>4, <4>2, RankOf DEF Meet
      <4>4. {Prefix(m, UnitDepth) : m \in Leaves} = BankNodes
        BY <1>1, BankUnits
      <4>5. \A v \in BankNodes : OnPath(<<r>>, v) => OpenAt(v, n - 1) = <<>>
        BY <1>1, <1>3, <3>2, <4>2, <4>4 DEF RowsExclusive, Refreshes
      <4> QED
        BY <3>2, <4>3, <4>5
    <3> QED
      BY <2>1, <3>1, <3>2
  <2>6. PICK m \in 1..(n - 1) : i < m /\ log[m].cmd \in Closings /\ OnPath(Unit(log[m]), b)
    BY <1>1, <1>3, <2>1, <2>3, <2>5, ClosedBetween
  <2> DEFINE c == log[m]
  <2>7. m \in 1..n /\ m < n /\ EntryOk(c) /\ c.cmd \in {"PRE", "PREA"}
    <3>1. m \in 1..n /\ m < n
      BY <1>3
    <3>2. EntryOk(c)
      BY <1>1, <3>1 DEF LogOk
    <3> QED
      BY <2>6, <3>1, <3>2 DEF EntryOk, Goes, ToBank, ToRank, Closings, Pres
  <2>8. /\ e.clk \in Int /\ c.clk \in Int /\ f.clk \in Int /\ c.clk < f.clk
        /\ e.cmd \in ToBank \cup ToRank /\ c.cmd \in ToBank \cup ToRank /\ f.cmd \in ToBank \cup ToRank
    BY <1>1, <1>3, <1>4, <2>7 DEF LogOk, EntryOk, Goes
  <2>9. TimeKept(e, c)
    BY <1>1, <1>3, <2>6, <2>7 DEF PairsKept
  <2>10. TimeKept(c, f)
    BY <1>1, <1>3, <2>7 DEF PairsKept
  <2> DEFINE s == SpeedAt(e)
  <2>11. /\ s.nRAS \in Int /\ PreOf(s) \in Int
    BY <1>1, <1>4, TimesAre DEF EntryOk, RowsKept
  <2>12. c.clk >= e.clk + s.nRAS
    <3>1. Required(e, c) = s.nRAS
      BY <1>1, <2>1, <2>7, <2>8, RequiredIs
    <3>2. Meet(e, c) /\ ~ Between(e, c)
      BY <2>4, <2>6, <2>7 DEF Meet, Between
    <3> QED
      BY <2>9, <3>1, <3>2 DEF TimeKept
  <2>13. CASE f.cmd = "REF"
    <3>1. Required(e, f) = s.nRAS
      BY <1>1, <2>1, <2>8, <2>13, RequiredIs
    <3> QED
      BY <2>8, <2>11, <2>12, <3>1
  <2>14. CASE f.cmd = "ACT" /\ std # "ALDRAM"
    <3>1. Required(e, f) = s.nRAS + PreOf(s)
      BY <1>1, <2>1, <2>8, <2>14, RequiredIs
    <3>2. SpeedAt(c) = s
      BY <1>4, <2>7, <2>14 DEF SpeedAt, EntryOk, Warmth
    <3>3. PreAllOf(s) \in Int /\ PreAllOf(s) >= PreOf(s)
      BY <1>1, <1>4, TimesAre DEF EntryOk, RowsKept
    <3>4. Required(c, f) \in {PreOf(s), PreAllOf(s)}
      BY <1>1, <2>7, <2>8, <2>14, <3>2, RequiredIs
    <3>5. Meet(c, f) /\ ~ Between(c, f)
      BY <2>5, <2>6, <2>7, <2>14 DEF Meet, Between
    <3>6. f.clk >= c.clk + PreOf(s)
      BY <2>8, <2>10, <2>11, <3>3, <3>4, <3>5 DEF TimeKept
    <3>7. \A x, y, z, t, p \in Int : y >= x + t /\ z >= y + p => z >= x + (t + p)
      OBVIOUS
    <3> QED
      BY ONLY <2>8, <2>11, <2>12, <3>1, <3>6, <3>7
  <2> QED
    BY <2>1, <2>13, <2>14
<1> QED
  BY <1>5, <1>6

\* Each bank gets its times, in spite of what went to its siblings in between and
\* of all the other entries of the tables (DRAM.h's update_timing and check).
THEOREM BankTimesAreKept == Spec /\ std \in RowPerBank => []BankTimesKept
<1>1. Spec /\ std \in RowPerBank => []TimesMatch
  BY TimesMatchInit, TimesMatchNext, PTL DEF Spec
<1> QED
  BY <1>1, BankTimesFollow, PTL

(***************************************************************************)
(* The activations of a rank.                                              *)
(***************************************************************************)
\* A set of positions in a list has a least one.
LEMMA LeastOf ==
  ASSUME NEW n \in Nat, NEW S \in SUBSET (1..n), S # {}
  PROVE  \E m \in S : \A x \in S : m <= x
<1> DEFINE T == {0 - x : x \in S}
<1>1. T \in SUBSET Int /\ T # {} /\ \A x \in T : x <= 0
  <2>1. \A x \in S : x \in Nat /\ 0 - x \in Int /\ 0 - x <= 0
    OBVIOUS
  <2>2. T # {}
    OBVIOUS
  <2> QED
    BY <2>1, <2>2
<1>2. \A x \in S : 0 - x \in T
  OBVIOUS
<1>3. \A y \in T : \E x \in S : y = 0 - x
  OBVIOUS
<1> HIDE DEF T
<1>4. Max(T) \in T /\ \A y \in T : Max(T) >= y
  BY <1>1, MaxBounded
<1>5. PICK m \in S : Max(T) = 0 - m
  BY <1>3, <1>4
<1>6. \A x \in S : 0 - m >= 0 - x
  BY <1>2, <1>4, <1>5
<1>7. \A x \in S : m \in Int /\ x \in Int
  OBVIOUS
<1>8. \A x, y \in Int : 0 - y >= 0 - x => y <= x
  OBVIOUS
<1> QED
  BY <1>6, <1>7, <1>8

\* The activations in the window of a new one are no more than the standard allows.
LEMMA ActsStep ==
  ASSUME TimesMatch, NEW e, Issued(e), e.cmd = "ACT", std # "ALDRAM"
  PROVE  Cardinality({i \in DOMAIN log' : /\ log'[i].cmd \in Activations /\ log'[i].addr[1] = e.addr[1]
                                          /\ log'[i].clk > e.clk - ActWindow}) <= MostActs
<1> DEFINE k == Len(log)
           recent == {i \in DOMAIN log' : /\ log'[i].cmd \in Activations /\ log'[i].addr[1] = e.addr[1]
                                          /\ log'[i].clk > e.clk - ActWindow}
           R == recent \ {k + 1}
<1>1. std \in RowPerBank /\ LogOk /\ LogIsSeq
  BY DEF TimesMatch, RowsMatch
<1>2. /\ k \in Nat /\ DOMAIN log' = 1..(k + 1)
      /\ log'[k + 1] = e /\ \A i \in 1..k : log'[i] = log[i]
  BY <1>1, LastOf DEF Issued
<1>3. PICK b \in BankNodes : \E row : e.addr = Append(b, row)
  BY DEF Issued, Goes, ToRank
<1>4. PICK row : e.addr = Append(b, row)
  BY <1>3
<1>5. e.addr[1] = b[1]
  <2>1. Append(b, row)[1] = b[1]
    BY <1>1, RankOf
  <2> QED
    BY <1>4, <2>1
<1>6. MostActs \in {2, 4} /\ ActWindow \in Nat
  <2>1. Warmth(temp) /\ temp = e.temp
    BY DEF TimesMatch, Issued
  <2> QED
    BY <1>1, <2>1, TimesAre DEF MostActs
<1>7. ASSUME NEW i \in R
      PROVE  /\ i \in 1..k /\ log[i].cmd = "ACT" /\ log[i].addr[1] = b[1]
             /\ log[i].clk \in Int /\ log[i].clk > e.clk - ActWindow
  <2>1. i \in 1..k /\ log'[i] = log[i]
    BY <1>2
  <2>2. EntryOk(log[i]) /\ log[i].cmd \in Activations
    BY <1>1, <2>1 DEF LogOk
  <2>3. log[i].cmd = "ACT"
    BY <2>2 DEF EntryOk, Goes, ToBank, ToRank, Activations
  <2> QED
    BY <1>5, <2>1, <2>2, <2>3 DEF EntryOk
<1>8. recent \in SUBSET (1..(k + 1)) /\ R \in SUBSET (1..k)
  BY <1>2, <1>7
<1> HIDE DEF recent
<1>9. IsFiniteSet(recent) /\ Cardinality(recent) \in Nat
  <2>1. k + 1 \in Int /\ 1 \in Int
    BY <1>2
  <2>2. IsFiniteSet(1..(k + 1))
    BY <2>1, FS_Interval
  <2> QED
    BY <1>8, <2>2, FS_Subset, FS_CardinalityType
<1> SUFFICES ASSUME Cardinality(recent) > MostActs
             PROVE  FALSE
  BY <1>6, <1>9 DEF recent
<1>10. Cardinality(R) \in Nat /\ Cardinality(R) >= MostActs
  <2>1. Cardinality(R) \in {Cardinality(recent), Cardinality(recent) - 1}
    BY <1>9, FS_RemoveElement
  <2>2. Cardinality(R) \in Nat
    BY <1>9, FS_RemoveElement, FS_CardinalityType
  <2> HIDE DEF R
  <2> QED
    BY <1>6, <1>9, <2>1, <2>2
<1> HIDE DEF R
<1>11. R # {}
  BY <1>6, <1>10, FS_EmptySet
<1>12. PICK i \in R : \A x \in R : i <= x
  BY <1>2, <1>8, <1>11, LeastOf
<1>13. R \in SUBSET (i..k)
  BY <1>2, <1>7, <1>12
<1>14. e.clk >= log[i].clk + ActWindow
  <2>1. Earliest("ACT", Append(b, row)) >= log[i].clk + ActWindow
    BY <1>1, <1>7, <1>10, <1>12, <1>13, WaitsForWindow
  <2> QED
    BY <1>4, <2>1 DEF Issued
<1>15. e.clk \in Int
  BY <1>1, EarliestIs DEF Issued
<1> QED
  BY <1>6, <1>7, <1>14, <1>15

\* Every step keeps the activations to their windows.
LEMMA WindowNext ==
  ASSUME TimesMatch, ActsInWindow, [Next]_vars
  PROVE  ActsInWindow'
<1>1. std' = std
  BY StepIssues DEF Issued
<1>2. CASE log' = log
  BY <1>1, <1>2 DEF ActsInWindow, WindowKept, Speed
<1>3. ASSUME NEW e, Issued(e)
      PROVE  ActsInWindow'
  <2> DEFINE recent == {i \in DOMAIN log' : /\ log'[i].cmd \in Activations /\ log'[i].addr[1] = e.addr[1]
                                            /\ log'[i].clk > e.clk - ActWindow}
  <2>1. LogIsSeq
    BY DEF TimesMatch, RowsMatch
  <2>2. Last(log') = e
    BY <1>3, <2>1, LastOf DEF Issued
  <2>3. e.cmd \in Activations => e.cmd = "ACT"
    BY <1>3 DEF Issued, Goes, ToBank, ToRank, Activations
  <2>4. e.cmd \in Activations /\ std # "ALDRAM" => Cardinality(recent) <= MostActs
    BY <1>3, <2>3, ActsStep
  <2> QED
    BY <1>1, <2>2, <2>4 DEF ActsInWindow, WindowKept, MostActs, ActWindow, Speed
<1> QED
  BY <1>2, <1>3, StepIssues

\* A rank opens no more rows in a window than its standard allows, in whatever bank
\* groups and banks they are, though the code keeps only the last four (or two)
\* activations of each node (DRAM.h's prev).
THEOREM ActsKeepToWindow == Spec /\ std \in RowPerBank => []ActsInWindow
<1>1. Init => ActsInWindow
  BY DEF Init, ActsInWindow, WindowKept
<1>2. Spec /\ std \in RowPerBank => [](TimesMatch /\ ActsInWindow)
  BY <1>1, TimesMatchInit, TimesMatchNext, WindowNext, PTL DEF Spec
<1> QED
  BY <1>2, PTL

(***************************************************************************)
(* The data bus.                                                           *)
(***************************************************************************)
\* There is one rank, or the table has entries for commands to another one.
RanksTimed == std \in Bubbled \/ Count[std][1] = 1

\* A column command leaves the bus to the bursts of the ones before it.
LEMMA BusStep ==
  ASSUME TimesMatch, RanksTimed, NEW e, Issued(e), NEW i \in 1..Len(log),
         {log[i].cmd, e.cmd} \subseteq {"RD", "WR"}
  PROVE  e.clk + Latency(e) >= log[i].clk + Latency(log[i]) + Speed.nBL + Bubble(log[i], e)
<1> DEFINE x == log[i]
           tab == TimingOf(x)
           s == Speed
           rtrs == Value(s, "nRTRS", 0)
<1>1. std \in RowPerBank /\ LogOk /\ LogIsSeq
  BY DEF TimesMatch, RowsMatch
<1>2. EntryOk(x) /\ x.clk \in Int /\ Goes(e.cmd, e.addr) /\ e.clk = Earliest(e.cmd, e.addr)
  BY <1>1 DEF LogOk, EntryOk, Issued
<1>3. e.clk \in Int
  BY <1>1, <1>2, EarliestIs
<1>4. BusKept(tab, s) /\ (std \in Bubbled => RanksKept(tab, s))
  BY <1>1, <1>2, TimesAre DEF EntryOk
<1>5. /\ s.nBL \in Int /\ s.nCL \in Int /\ s.nCWL \in Int /\ DelayOf(s) \in Int
      /\ LeastToWrite(s) \in Int /\ LeastToRead(s) \in Int
  BY <1>4 DEF BusKept, LeastToWrite, LeastToRead
<1>6. PICK b \in BankNodes : \E row : e.addr = Append(b, row)
  BY <1>2 DEF Goes, ToRank
<1>7. PICK row : e.addr = Append(b, row)
  BY <1>6
<1>8. PICK c \in BankNodes : \E q : x.addr = Append(c, q)
  BY <1>2 DEF EntryOk, Goes, ToRank
<1>9. PICK q : x.addr = Append(c, q)
  BY <1>8
<1>10. /\ Prefix(e.addr, 0) = <<>> /\ Prefix(e.addr, 1) = <<b[1]>>
       /\ OnPath(<<>>, x.addr) /\ \A r : OnPath(<<r>>, x.addr) <=> r = c[1]
       /\ x.addr[1] = c[1] /\ e.addr[1] = b[1]
  <2>1. Append(b, row)[1] = b[1] /\ Append(c, q)[1] = c[1]
    BY <1>1, RankOf
  <2>2. Prefix(Append(b, row), 1) = <<b[1]>>
    BY <1>1, RankOf
  <2>3. OnPath(<<>>, Append(c, q)) /\ \A r : OnPath(<<r>>, Append(c, q)) <=> r = c[1]
    BY <1>1, RankOf
  <2>4. Prefix(Append(b, row), 0) = <<>>
    BY DEF Prefix
  <2> QED
    BY <1>7, <1>9, <2>1, <2>2, <2>3, <2>4
<1>11. Level(<<>>) = "Channel" /\ Level(<<b[1]>>) = "Rank"
  <2>1. Len(<<>>) = 0 /\ Len(<<b[1]>>) = 1
    OBVIOUS
  <2> QED
    BY <1>1, <2>1, UpperLevels
<1>12. 0 \in 0..Reach(e.cmd) /\ 1 \in 0..Reach(e.cmd)
  <2>1. Reach(e.cmd) \in {1, 2, 3}
    BY <1>1, <1>2, WayDown
  <2> QED
    BY <2>1
<1>13. ASSUME NEW v \in Int, Waits(tab, "Channel", x.cmd, e.cmd, v)
       PROVE  e.clk >= x.clk + v
  BY <1>1, <1>2, <1>10, <1>11, <1>12, <1>13, WaitsAfter
<1>14. ASSUME NEW v \in Int, Waits(tab, "Rank", x.cmd, e.cmd, v), b[1] = c[1]
       PROVE  e.clk >= x.clk + v
  BY <1>1, <1>2, <1>10, <1>11, <1>12, <1>14, WaitsAfter
<1>15. ASSUME NEW v \in Int, WaitsBeside(tab, "Rank", x.cmd, e.cmd, v), b[1] # c[1]
       PROVE  e.clk >= x.clk + v
  <2>1. NextToPath(<<b[1]>>, x.addr)
    <3>1. <<b[1]>> # <<>> /\ ~ OnPath(<<b[1]>>, x.addr)
      BY <1>10, <1>15
    <3>2. Front(<<b[1]>>) = <<>>
      BY DEF Front
    <3> QED
      BY <1>10, <3>1, <3>2 DEF NextToPath
  <2> QED
    BY <1>1, <1>2, <1>10, <1>11, <1>12, <1>15, <2>1, WaitsAfterBeside
<1>16. b[1] = c[1] \/ std \in Bubbled
  BY <1>1, BanksAre DEF RanksTimed
<1>17. /\ e.cmd = "WR" => Latency(e) = s.nCWL
       /\ e.cmd = "RD" => Latency(e) = s.nCL + DelayOf(s)
       /\ x.cmd = "WR" => Latency(x) = s.nCWL
       /\ x.cmd = "RD" => Latency(x) = s.nCL + DelayOf(s)
  BY DEF Latency, DelayOf
<1>18. /\ b[1] = c[1] \/ (x.cmd = "WR" /\ e.cmd = "WR") => Bubble(x, e) = 0
       /\ ~(b[1] = c[1] \/ (x.cmd = "WR" /\ e.cmd = "WR")) => Bubble(x, e) = rtrs
  BY <1>10 DEF Bubble
<1>19. b[1] # c[1] => rtrs \in Int
  BY <1>4, <1>16 DEF RanksKept
<1> DEFINE lateE == Latency(e)
           lateX == Latency(x)
           gap == Bubble(x, e)
           goal == e.clk + lateE >= x.clk + lateX + s.nBL + gap
           delay == DelayOf(s)
           bubbled == s.nBL + rtrs
           toWrite == s.nCL + DelayOf(s) + s.nBL + rtrs - s.nCWL
           toRead == s.nCWL + s.nBL + rtrs - s.nCL - DelayOf(s)
<1>20. SUFFICES goal
  OBVIOUS
<1>21. b[1] # c[1] => /\ WaitsBeside(tab, "Rank", "RD", "RD", bubbled)
                      /\ WaitsBeside(tab, "Rank", "RD", "WR", toWrite)
                      /\ WaitsBeside(tab, "Rank", "WR", "RD", toRead)
                      /\ bubbled \in Int /\ toWrite \in Int /\ toRead \in Int
  <2>1. b[1] # c[1] => RanksKept(tab, s)
    BY <1>4, <1>16
  <2>2. RanksKept(tab, s) => /\ WaitsBeside(tab, "Rank", "RD", "RD", bubbled)
                             /\ WaitsBeside(tab, "Rank", "RD", "WR", toWrite)
                             /\ WaitsBeside(tab, "Rank", "WR", "RD", toRead)
    BY Zenon DEF RanksKept
  <2>3. b[1] # c[1] => bubbled \in Int /\ toWrite \in Int /\ toRead \in Int
    <3>1. \A n, g, l, d, w \in Int : n + g \in Int /\ l + d + n + g - w \in Int /\ w + n + g - l - d \in Int
      OBVIOUS
    <3> HIDE DEF rtrs, s
    <3> QED
      BY <1>5, <1>19, <3>1
  <2> QED
    BY <2>1, <2>2, <2>3
\* The bursts of two commands, by the time that lies between these.
<1>22. \A t, u, l, d, w, n, g \in Int :
         /\ u >= t + n => u + (l + d) >= t + (l + d) + n + 0 /\ u + w >= t + w + n + 0
         /\ u >= t + (n + g) => u + (l + d) >= t + (l + d) + n + g
         /\ u >= t + (l + d + n - w) => u + w >= t + (l + d) + n + 0
         /\ u >= t + (l + d + n + g - w) => u + w >= t + (l + d) + n + g
         /\ u >= t + (w + n - l - d) => u + (l + d) >= t + w + n + 0
         /\ u >= t + (w + n + g - l - d) => u + (l + d) >= t + w + n + g
  OBVIOUS
<1>23. CASE x.cmd = "WR" /\ e.cmd = "WR"
  <2>1. e.clk >= x.clk + s.nBL
    BY <1>4, <1>5, <1>13, <1>23 DEF BusKept
  <2>2. lateE = s.nCWL /\ lateX = s.nCWL /\ gap = 0
    BY <1>17, <1>18, <1>23
  <2> HIDE DEF x, s, lateE, lateX, gap
  <2> QED
    BY <1>2, <1>3, <1>5, <1>22, <2>1, <2>2
<1>24. CASE b[1] = c[1] /\ ~ (x.cmd = "WR" /\ e.cmd = "WR")
  <2>1. gap = 0
    BY <1>18, <1>24
  <2>2. CASE x.cmd = "RD" /\ e.cmd = "RD"
    <3>1. e.clk >= x.clk + s.nBL
      BY <1>4, <1>5, <1>13, <2>2 DEF BusKept
    <3>2. lateE = s.nCL + delay /\ lateX = s.nCL + delay
      BY <1>17, <2>2
    <3> HIDE DEF x, s, lateE, lateX, gap, delay
    <3> QED
      BY <1>2, <1>3, <1>5, <1>22, <2>1, <3>1, <3>2 DEF delay
  <2>3. CASE x.cmd = "RD" /\ e.cmd = "WR"
    <3>1. e.clk >= x.clk + LeastToWrite(s)
      BY <1>4, <1>5, <1>14, <1>24, <2>3 DEF BusKept
    <3>2. lateE = s.nCWL /\ lateX = s.nCL + delay
      BY <1>17, <2>3
    <3>3. LeastToWrite(s) = s.nCL + delay + s.nBL - s.nCWL
      BY DEF LeastToWrite
    <3>4. delay \in Int
      BY <1>5
    <3> HIDE DEF x, s, lateE, lateX, gap, delay
    <3> QED
      BY <1>2, <1>3, <1>5, <1>22, <2>1, <3>1, <3>2, <3>3, <3>4
  <2>4. CASE x.cmd = "WR" /\ e.cmd = "RD"
    <3>1. e.clk >= x.clk + LeastToRead(s)
      BY <1>4, <1>5, <1>14, <1>24, <2>4 DEF BusKept
    <3>2. lateE = s.nCL + delay /\ lateX = s.nCWL
      BY <1>17, <2>4
    <3>3. LeastToRead(s) = s.nCWL + s.nBL - s.nCL - delay
      BY DEF LeastToRead
    <3>4. delay \in Int
      BY <1>5
    <3> HIDE DEF x, s, lateE, lateX, gap, delay
    <3> QED
      BY <1>2, <1>3, <1>5, <1>22, <2>1, <3>1, <3>2, <3>3, <3>4
  <2> QED
    BY <1>24, <2>2, <2>3, <2>4
<1>25. CASE b[1] # c[1] /\ ~ (x.cmd = "WR" /\ e.cmd = "WR")
  <2>1. gap = rtrs /\ rtrs \in Int
    BY <1>18, <1>19, <1>25
  <2>2. delay \in Int
    BY <1>5
  <2>3. CASE x.cmd = "RD" /\ e.cmd = "RD"
    <3>1. e.clk >= x.clk + bubbled
      BY <1>15, <1>21, <1>25, <2>3
    <3>2. lateE = s.nCL + delay /\ lateX = s.nCL + delay
      BY <1>17, <2>3
    <3> HIDE DEF x, s, lateE, lateX, gap, delay, rtrs
    <3> QED
      BY <1>2, <1>3, <1>5, <1>22, <2>1, <2>2, <3>1, <3>2
  <2>4. CASE x.cmd = "RD" /\ e.cmd = "WR"
    <3>1. e.clk >= x.clk + toWrite
      BY <1>15, <1>21, <1>25, <2>4
    <3>2. lateE = s.nCWL /\ lateX = s.nCL + delay
      BY <1>17, <2>4
    <3>3. toWrite = s.nCL + delay + s.nBL + rtrs - s.nCWL
      OBVIOUS
    <3> HIDE DEF x, s, lateE, lateX, gap, delay, rtrs, toWrite
    <3> QED
      BY <1>2, <1>3, <1>5, <1>22, <2>1, <2>2, <3>1, <3>2, <3>3
  <2>5. CASE x.cmd = "WR" /\ e.cmd = "RD"
    <3>1. e.clk >= x.clk + toRead
      BY <1>15, <1>21, <1>25, <2>5
    <3>2. lateE = s.nCL + delay /\ lateX = s.nCWL
      BY <1>17, <2>5
    <3>3. toRead = s.nCWL + s.nBL + rtrs - s.nCL - delay
      OBVIOUS
    <3> HIDE DEF x, s, lateE, lateX, gap, delay, rtrs, toRead
    <3> QED
      BY <1>2, <1>3, <1>5, <1>22, <2>1, <2>2, <3>1, <3>2, <3>3
  <2> QED
    BY <1>25, <2>3, <2>4, <2>5
<1> HIDE DEF goal
<1> QED
  BY <1>23, <1>24, <1>25

\* Every step keeps the bursts apart.
LEMMA BusNext ==
  ASSUME TimesMatch, RanksTimed, DataBusFree, [Next]_vars
  PROVE  DataBusFree' /\ RanksTimed'
<1>1. std' = std
  BY StepIssues DEF Issued
<1>2. RanksTimed'
  BY <1>1 DEF RanksTimed, Bubbled
<1>3. CASE log' = log
  BY <1>1, <1>2, <1>3 DEF DataBusFree, Earlier, Latency, Bubble, Speed
<1>4. ASSUME NEW e, Issued(e)
      PROVE  DataBusFree'
  <2>1. LogIsSeq
    BY DEF TimesMatch, RowsMatch
  <2>2. /\ Last(log') = e /\ Len(log') = Len(log) + 1 /\ Len(log) \in Nat
        /\ \A i \in 1..Len(log) : log'[i] = log[i]
    BY <1>4, <2>1, LastOf DEF Issued
  <2>3. Earlier' = 1..Len(log)
    BY <2>2 DEF Earlier
  <2>4. ASSUME NEW i \in 1..Len(log), {log[i].cmd, e.cmd} \subseteq Reads \cup {"WR"}
        PROVE  e.clk + Latency(e) >= log[i].clk + Latency(log[i]) + Speed.nBL + Bubble(log[i], e)
    <3>1. EntryOk(log[i]) /\ Goes(e.cmd, e.addr)
      BY <1>4 DEF TimesMatch, LogOk, Issued
    <3>2. {log[i].cmd, e.cmd} \subseteq {"RD", "WR"}
      BY <2>4, <3>1 DEF EntryOk, Goes, ToBank, ToRank, Reads
    <3> QED
      BY <1>4, <3>2, BusStep
  <2>5. \A x, y : /\ Latency(x)' = Latency(x) /\ Bubble(x, y)' = Bubble(x, y)
                  /\ Speed' = Speed
    BY <1>1 DEF Latency, Bubble, Speed
  <2>6. \A i \in 1..Len(log) : \A x, y : x = log'[i] /\ y = e /\ {x.cmd, y.cmd} \subseteq Reads \cup {"WR"} =>
          y.clk + Latency(y)' >= x.clk + Latency(x)' + Speed.nBL' + Bubble(x, y)'
    BY <2>2, <2>4, <2>5
  <2>7. \A i : \A x, y : x = log'[i] /\ y = e =>
          /\ Latency(log[i])' = Latency(x)' /\ Latency(Last(log))' = Latency(y)'
          /\ Bubble(log[i], Last(log))' = Bubble(x, y)'
    BY <2>2 DEF Latency, Bubble
  <2>8. \A i \in 1..Len(log) : {log'[i].cmd, e.cmd} \subseteq Reads \cup {"WR"} =>
          e.clk + Latency(Last(log))' >=
            log'[i].clk + Latency(log[i])' + Speed.nBL' + Bubble(log[i], Last(log))'
    BY <2>6, <2>7
  <2> QED
    BY <2>2, <2>3, <2>8 DEF DataBusFree
<1> QED
  BY <1>2, <1>3, <1>4, StepIssues

\* Two bursts never overlap on the data bus, and it gets its bubble when a read and
\* another rank follow each other, whatever the queues and the scheduler choose to
\* send.  The tables of HBM, GDDR5 and WideIO have no entries for a second rank.
THEOREM BurstsKeptApart ==
  Spec /\ std \in RowPerBank /\ (std \in {"HBM", "GDDR5", "WideIO"} => Count[std][1] = 1)
    => []DataBusFree
<1>1. Init => DataBusFree
  <2>1. Init => Len(log) = 0
    BY DEF Init
  <2>2. Init => Earlier = {}
    BY <2>1 DEF Earlier
  <2> QED
    BY <2>2 DEF DataBusFree
<1>2. std \in RowPerBank /\ (std \in {"HBM", "GDDR5", "WideIO"} => Count[std][1] = 1) => RanksTimed
  BY DEF RanksTimed, Bubbled
<1>3. Spec /\ std \in RowPerBank /\ RanksTimed => [](TimesMatch /\ RanksTimed /\ DataBusFree)
  BY <1>1, TimesMatchInit, TimesMatchNext, BusNext, PTL DEF Spec
<1> QED
  BY <1>2, <1>3, PTL
=============================================================================
