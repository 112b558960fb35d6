------------------------------ MODULE MCMigData ------------------------------
(* MigData on a few pages, frames and lines. *)
EXTENDS MigData

CONSTANTS p1, p2, p3, a1, a2, b1, b2

OnePage == {p1}
TwoPages == {p1, p2}
ThreePages == {p1, p2, p3}
NoFrames == {}
OneL1 == {a1}
TwoL1 == {a1, a2}
TwoL2 == {b1, b2}

\* Swaps of pages of one line, there and back, and one-way migrations of pages of two
\* lines.  Frames of a memory are alike, and so are pages: p2 starts in slow memory.
\* In a swap of pages of two lines that are both missed at once, the migration reads
\* the page too early: the run mig_pending.
MCInit ==
  /\ Init
  /\ frame_addr[p2] = b2
  /\ \/ lines_in_page = 1 /\ frame_addr[p1] = a1 /\ free = {}
     \/ lines_in_page = 2 /\ frame_addr[p1] \in {a1, b1} /\ free = L1Frames \ {frame_addr[p1]}
\* Bounds of the instance: requests under another offset are of one line, of a page
\* of one line that is in fast memory first; and fewer requests for the larger pages.
OneUnaligned ==
  \A i \in 1..Len(wait_list) :
    wait_list[i].off # 0 => wait_list[i].ln = <<p1, 1>> /\ lines_in_page = 1
MCNext == Next /\ OneUnaligned' /\ (lines_in_page = 2 => reqs' + migs' <= 4)
MCSpec == MCInit /\ [][MCNext]_vars /\ Fairness
=============================================================================
