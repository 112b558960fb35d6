--------------------------- MODULE HmaOnflyRefines ---------------------------
(* HmaOnfly implements PageMap.  A page counts as remapped from the moment
   its migration completes, which clears the busy flag of its remap entry. *)
EXTENDS HmaOnfly

Remapped == {p \in Pages : \E i \in 1..Len(remap_table) :
                 remap_table[i].pg = p /\ ~ remap_table[i].busy}

PM == INSTANCE PageMap WITH
        Fast <- {"l1m"} \X L1Frames,
        Slow <- {"l2m"} \X L2Frames,
        Nowhere <- <<"none", NoFrame>>,
        loc <- [p \in Pages |-> Loc(p)],
        partner <- [p \in Pages |-> IF p \in Remapped THEN pair[p] ELSE NoPage],
        remapped <- Remapped

\* Every behaviour of the page tables, remap table and controller is one of
\* the abstract page map: no lookup ever sees a half-moved or shared page.
ImplementsPageMap == PM!Spec
=============================================================================
