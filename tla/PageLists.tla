------------------------------ MODULE PageLists ------------------------------
(* The lists of the page manager and of the caches: the LRU list of hma.cpp, a
   sequence of pages, the lines of a cache in the same order, and the remap table
   of the migration controller, a sequence of entries [pg, fr, busy]. *)
EXTENDS Integers, Sequences, SequencesExt

PosIn(s, p) == CHOOSE i \in 1..Len(s) : s[i] = p

\* p is erased from the list, if it is there.
Dropped(s, p) == IF \E i \in 1..Len(s) : s[i] = p THEN RemoveAt(s, PosIn(s, p)) ELSE s

\* hma_add_page_lru: p becomes the most recently used page.
Touched(s, p) == Append(Dropped(s, p), p)

\* The first element goes to the other end.
Rotated(s) == Append(Tail(s), Head(s))

Listed(t, p) == \E i \in 1..Len(t) : t[i].pg = p

FirstOf(t, p) == CHOOSE i \in 1..Len(t) :
                   t[i].pg = p /\ \A j \in 1..(i - 1) : t[j].pg # p

\* The first entry of p is erased from the table t, if there is one.
Erased(t, p) == IF Listed(t, p) THEN RemoveAt(t, FirstOf(t, p)) ELSE t

NoRepeats(s) == \A i, j \in 1..Len(s) : s[i] = s[j] => i = j
OneEntryEach(t) == \A i, j \in 1..Len(t) : t[i].pg = t[j].pg => i = j
=============================================================================
