---------------------------- MODULE MCMemController ----------------------------
(***************************************************************************)
(* The instance of MemController for TLC: two banks; two lines share a row,*)
(* a third is in another row of the same bank, a fourth in the other bank. *)
(***************************************************************************)
EXTENDS MemController

FourLines == {<<1, 1, 1>>, <<1, 1, 2>>, <<1, 2, 1>>, <<2, 1, 1>>}
ThreeLines == {<<1, 1, 1>>, <<1, 2, 1>>, <<2, 1, 1>>}
TwoPageLines == <<<<1, 1, 1>>, <<2, 1, 1>>>>
OnePageLine == <<<<1, 1, 1>>>>

\* Bound of the instance: only one line, one of the page's, is asked for under two
\* offsets.
OneUnaligned ==
  \A r \in ToSet(readq) \cup ToSet(writeq) : r.off # 0 => r.ln = <<1, 1, 1>>
MCSpec == Init /\ [][Next /\ OneUnaligned']_vars /\ Fairness
=============================================================================
