------------------------------- MODULE PageMap -------------------------------
(***************************************************************************)
(* What on-the-fly page management promises to whoever looks a page up: at *)
(* every moment each page has one location of its own; a page moves in one *)
(* step, from the slow memory to the fast one or in exchange with a page   *)
(* that goes the other way; and it does not move a second time before it   *)
(* has been reconciled, together with the page it was exchanged with.      *)
(***************************************************************************)
CONSTANTS Pages,    \* the pages
          NoPage,   \* no partner
          Fast,     \* locations of the fast memory
          Slow,     \* locations of the slow memory
          Nowhere   \* the location of a page nobody has touched

VARIABLES loc,       \* page -> location
          partner,   \* page -> the page it was exchanged with
          remapped   \* pages moved since they were last reconciled

vars == <<loc, partner, remapped>>

Unused(l) == \A p \in Pages : loc[p] # l

Init == /\ loc = [p \in Pages |-> Nowhere]
        /\ partner = [p \in Pages |-> NoPage]
        /\ remapped = {}

\* Page p gets its first location.
Allocate(p) == /\ loc[p] = Nowhere
               /\ \E l \in Fast \cup Slow : /\ Unused(l)
                                            /\ loc' = [loc EXCEPT ![p] = l]
               /\ UNCHANGED <<partner, remapped>>

\* Page p moves to the fast memory.
Promote(p) == /\ loc[p] \in Slow /\ p \notin remapped
              /\ \E l \in Fast : Unused(l) /\ loc' = [loc EXCEPT ![p] = l]
              /\ remapped' = remapped \cup {p}
              /\ UNCHANGED partner

\* Page p of the slow memory and page q of the fast one change places.
Swap(p, q) == /\ loc[p] \in Slow /\ loc[q] \in Fast
              /\ p \notin remapped /\ q \notin remapped
              /\ loc' = [loc EXCEPT ![p] = loc[q], ![q] = loc[p]]
              /\ partner' = [partner EXCEPT ![p] = q, ![q] = p]
              /\ remapped' = remapped \cup {p, q}

\* The new locations of the pages S, one page or two partners, become known
\* to the operating system.
Reconcile(S) == /\ S \subseteq remapped
                /\ \A p \in S : S = {p} \cup ({partner[p]} \ {NoPage})
                /\ remapped' = remapped \ S
                /\ partner' = [p \in Pages |-> IF p \in S THEN NoPage ELSE partner[p]]
                /\ UNCHANGED loc

Next == \/ \E p \in Pages : Allocate(p) \/ Promote(p)
        \/ \E p, q \in Pages : Swap(p, q)
        \/ \E p, q \in Pages : Reconcile({p, q})

Spec == Init /\ [][Next]_vars
=============================================================================
