---------------------------- MODULE MCHmaOnfly ----------------------------
(* Small instances of HmaOnfly for TLC. *)
EXTENDS HmaOnflyRefines, TLC

CONSTANTS p0, p1, p2, p3, f1, f2, f3

FourPages == {p0, p1, p2, p3}
ThreePages == {p0, p1, p2}
TwoFrames == {f1, f2}
ThreeFrames == {f1, f2, f3}

\* Page number 0 is special, the other pages are interchangeable, and so are
\* the frames that both memories have.
Symmetry == {s @@ t : s \in Permutations({p1, p2, p3}),
                      t \in Permutations({f1, f2})}
=============================================================================
