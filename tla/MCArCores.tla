------------------------------ MODULE MCArCores ------------------------------
(* ArCores with two cores and three pages, two of which belong to one core. *)
EXTENDS ArCores

CONSTANTS p1, p2, p3
ThreePages == {p1, p2, p3}
TwoCores == [p \in ThreePages |-> IF p = p3 THEN 1 ELSE 0]

\* The cycles of the code, scaled down: the one-page stages take half as long.
Bz(inv) == [s \in {11, 12, 13, 14, 21, 22, 23, 24} |->
              CASE s = 13 -> inv [] s = 23 -> 2 * inv [] OTHER -> 2]
Wait == [s \in {11, 12, 13, 14, 21, 22, 23, 24} |->
           CASE s \in {21, 24} -> 4 [] s \in {13, 23} -> 1 [] OTHER -> 2]
Bz2 == Bz(2)
Bz4 == Bz(4)
=============================================================================
