----------------------------- MODULE MCDramTiming -----------------------------
(* Instances of DramTiming for TLC. *)
EXTENDS DramTiming

MCCount ==
  [s \in Standards |->
     CASE s \in Salp \cup {"DSARP"} -> <<1, 2, 2>>
       [] s = "DDR4" -> <<2, 2, 3>>
       [] s \in {"HBM", "GDDR5"} -> <<1, 2, 3>>
       [] s = "WideIO" -> <<1, 3>>
       [] OTHER -> <<2, 5>>]

MCMaxCmds ==
  [s \in Standards |-> IF s \in {"ALDRAM", "TLDRAM"} THEN 4
                      ELSE IF s \in Salp THEN 6 ELSE 5]

\* Nodes of one parent behave alike, and so do rows but for TLDRAM's: they are
\* touched for the first time in order of their numbers.
Touched(n) == \E i \in DOMAIN log : OnPath(n, log[i].addr)
InOrder(a) ==
  /\ \A d \in 1..Min({Len(a), LeafDepth(std)}) :
       a[d] = 0 \/ Touched(Append(Prefix(a, d - 1), a[d] - 1))
  /\ Len(a) > LeafDepth(std) /\ std # "TLDRAM" =>
       Last(a) = 0 \/ Touched(Append(Front(a), 0))
MCNext ==
  \/ \E addr \in {a \in Addresses : InOrder(a)} : Access(addr)
  \/ \E n \in {m \in Leaves : InOrder(m)} \cup {<<0>>} : Refresh(n)
  \/ CoolDown
MCSpec == Init /\ [][MCNext]_vars
=============================================================================
