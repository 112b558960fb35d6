------------------------------- MODULE MigData -------------------------------
(***************************************************************************)
(* The migration of a page line by line: the staging queues of the         *)
(* migration controller, the migration queues and the demand queues of the *)
(* two memories, the migration window, the hot and cold buffers, and the   *)
(* demand requests of the last-level cache that meet them.                 *)
(*                                                                         *)
(* The simulator carries addresses and no data.  What each frame, buffer   *)
(* and request would hold is added here: the value of a line is its        *)
(* version, so that reading the wrong frame, or a frame too early or too   *)
(* late, shows.  Which pages are selected is HmaOnfly's subject.           *)
(*                                                                         *)
(* A demand request keeps the offset in its line that the program's trace  *)
(* gives it, and migration requests are for whole lines, at offset 0; the  *)
(* write queues and the buffers compare addresses to the byte.  What can   *)
(* go wrong between requests of one line that do not match is recorded in  *)
(* crossed, and the properties of the data are about all other lines.      *)
(***************************************************************************)
EXTENDS Integers, Sequences, SequencesExt, FiniteSets, Functions

CONSTANTS
  Pages,
  NoPage,        \* -1
  PageSizes,     \* the numbers of lines a page may have
  L1Frames, L2Frames,
  NoFrame,       \* -1
  Offsets,       \* the offsets in a line that a program's requests may have
  NoVal,         \* no value yet
  Junk,          \* what a frame holds that has had no page
  WrMax,         \* wr_q_max, of each memory
  MgMax,         \* mg_q_max, of each memory
  MaxMigs,       \* bound of the model: migrations
  MaxReqs        \* bound of the model: demand requests

ASSUME NoneAssumption == NoPage \notin Pages /\ NoFrame \notin L1Frames \cup L2Frames
ASSUME MgAssumption == \A n \in PageSizes : n \in 1..MgMax
ASSUME OffsetAssumption == 0 \in Offsets
ASSUME ValAssumption == {NoVal, Junk} \cap ((Pages \X Nat) \X Nat) = {} /\ NoVal # Junk
ASSUME BoundAssumption == MaxReqs \in Nat

Mems == {"l1m", "l2m"}
Frames(m) == IF m = "l1m" THEN L1Frames ELSE L2Frames

VARIABLES
  lines_in_page,                   \* never changes
  dom, frame_addr, free,           \* the page table, and the free l1m frames
  mig_status,                      \* 0, 203, 2, 1, 3, 4, 5
  mig_type, hot_pg_num, cold_pg_num, hot_frame_addr, cold_frame_addr,
  hotq, coldq,                     \* staging queues: [pg, fr, pg_backup, fr_backup]
  hot_writes, cold_writes,         \* hot_write_count, cold_write_count
  mig_window,                      \* [ln, ready, val], oldest first
  migq,                            \* memory -> migration reads [ln, fl, val]
  buffer,                          \* memory read from -> line -> [st, val]
  readq, writeq,                   \* memory -> demand reads; writes in order
  mem,                             \* memory -> physical line -> value
  wait_list,                       \* the LLC's requests, oldest first
  mshr,                            \* line -> mig_list flag of its LLC MSHR entry
  cached,                          \* line -> value in the LLC, or NoVal
  latest,                          \* line -> the version last written back
  crossed,                         \* lines a request of which met another it does not match
  migs, reqs                       \* counters of the model

pageVars  == <<lines_in_page, dom, frame_addr, free>>
selVars   == <<mig_type, hot_pg_num, cold_pg_num, hot_frame_addr, cold_frame_addr>>
stageVars == <<hotq, coldq, hot_writes, cold_writes>>
cacheVars == <<wait_list, mshr, cached, latest, crossed, reqs>>
vars == <<pageVars, mig_status, selVars, stageVars, mig_window, migq, buffer,
          readq, writeq, mem, cacheVars, migs>>

LineNums == 1..lines_in_page
Lines == Pages \X LineNums                       \* page-level line addresses
FrameLines(m) == Frames(m) \X LineNums           \* physical line addresses

Vals == (Lines \X (0..MaxReqs)) \cup {Junk}
MigReads(m) == [ln : Lines, fl : FrameLines(m), val : Vals \cup {NoVal}]
StageQ == [pg : Seq(Lines), fr : Seq((L1Frames \cup L2Frames) \X LineNums),
           pg_backup : Seq(Lines), fr_backup : Seq((L1Frames \cup L2Frames) \X LineNums)]
BufEntry == [st : {1, 2}, val : Vals]

TypeOK ==
  /\ lines_in_page \in PageSizes
  /\ dom \in [Pages -> Mems]
  /\ frame_addr \in [Pages -> L1Frames \cup L2Frames]
  /\ free \subseteq L1Frames
  /\ mig_status \in {0, 1, 2, 3, 4, 5, 203}
  /\ mig_type \in 0..2
  /\ hot_pg_num \in Pages \cup {NoPage} /\ cold_pg_num \in Pages \cup {NoPage}
  /\ hot_frame_addr \in L2Frames \cup {NoFrame}
  /\ cold_frame_addr \in L1Frames \cup {NoFrame}
  /\ hotq \in StageQ /\ coldq \in StageQ
  /\ hot_writes \in 0..lines_in_page /\ cold_writes \in 0..lines_in_page
  /\ mig_window \in Seq([ln : Lines, mem : Mems, ready : BOOLEAN, val : Vals \cup {NoVal}])
  /\ \A m \in Mems :
       /\ migq[m] \subseteq MigReads(m) /\ readq[m] \subseteq MigReads(m)
       /\ writeq[m] \in Seq([ln : Lines, off : Offsets, fl : FrameLines(m), val : Vals])
       /\ mem[m] \in [FrameLines(m) -> Vals]
       /\ DOMAIN buffer[m] \subseteq Lines
       /\ \A l \in DOMAIN buffer[m] : buffer[m][l] \in BufEntry
  /\ wait_list \in Seq([type : {"READ", "WRITE"}, ln : Lines, off : Offsets,
                        val : Vals \cup {NoVal}])
  /\ DOMAIN mshr \subseteq Lines /\ \A l \in DOMAIN mshr : mshr[l] \in {0, 1}
  /\ cached \in [Lines -> Vals \cup {NoVal}]
  /\ latest \in [Lines -> 0..MaxReqs]
  /\ crossed \subseteq Lines

EmptyQ == [pg |-> <<>>, fr |-> <<>>, pg_backup |-> <<>>, fr_backup |-> <<>>]

\* Every page has a frame of its own, which holds its lines.  An l1m frame that is
\* not free otherwise belongs to a page that the model does not follow.
Init ==
  /\ lines_in_page \in PageSizes
  /\ \E d \in [Pages -> Mems], f \in [Pages -> L1Frames \cup L2Frames] :
       /\ \A p \in Pages : f[p] \in Frames(d[p])
       /\ \A p, q \in Pages : d[p] = d[q] /\ f[p] = f[q] => p = q
       /\ dom = d /\ frame_addr = f
       /\ free \in SUBSET (L1Frames \ {f[p] : p \in {q \in Pages : d[q] = "l1m"}})
       /\ mem = [m \in Mems |-> [fl \in FrameLines(m) |->
                   IF \E p \in Pages : d[p] = m /\ f[p] = fl[1]
                   THEN <<<<CHOOSE p \in Pages : d[p] = m /\ f[p] = fl[1], fl[2]>>, 0>>
                   ELSE Junk]]
  /\ mig_status = 0 /\ mig_type = 0
  /\ hot_pg_num = NoPage /\ cold_pg_num = NoPage
  /\ hot_frame_addr = NoFrame /\ cold_frame_addr = NoFrame
  /\ hotq = EmptyQ /\ coldq = EmptyQ /\ hot_writes = 0 /\ cold_writes = 0
  /\ mig_window = <<>>
  /\ migq = [m \in Mems |-> {}] /\ buffer = [m \in Mems |-> <<>>]
  /\ readq = [m \in Mems |-> {}] /\ writeq = [m \in Mems |-> <<>>]
  /\ wait_list = <<>> /\ mshr = <<>>
  /\ cached = [l \in Lines |-> NoVal] /\ latest = [l \in Lines |-> 0]
  /\ crossed = {}
  /\ migs = 0 /\ reqs = 0

(***************************************************************************)
(* The memories.                                                           *)
(***************************************************************************)
\* The value of an address in the write queue of m, if a write of it is queued:
\* Controller::enqueue compares the addresses of the requests, offsets included.
IsFor(w, ln, off) == w.ln = ln /\ w.off = off
Queued(m, ln, off) == \E i \in 1..Len(writeq[m]) : IsFor(writeq[m][i], ln, off)
Forwarded(m, ln, off) ==
  IF Queued(m, ln, off)
  THEN writeq[m][CHOOSE i \in 1..Len(writeq[m]) :
                   /\ IsFor(writeq[m][i], ln, off)
                   /\ \A j \in (i+1)..Len(writeq[m]) : ~ IsFor(writeq[m][j], ln, off)].val
  ELSE NoVal
ReadReq(m, ln, off, fl) == [ln |-> ln, fl |-> fl, val |-> Forwarded(m, ln, off)]

\* The last write that is queued of a line, whatever its offset; a read of the line
\* under another offset does not see it.
LineQueued(m, ln) == \E i \in 1..Len(writeq[m]) : writeq[m][i].ln = ln
LastOfLine(m, ln) ==
  writeq[m][CHOOSE i \in 1..Len(writeq[m]) :
              /\ writeq[m][i].ln = ln
              /\ \A j \in (i+1)..Len(writeq[m]) : writeq[m][j].ln # ln]
Misses(m, ln, off) == LineQueued(m, ln) /\ LastOfLine(m, ln).off # off

Cross(ln, met) == crossed' = crossed \cup (IF met THEN {ln} ELSE {})

\* What the read r of memory m returns.
ValueOf(m, r) == IF r.val # NoVal THEN r.val ELSE mem[m][r.fl]

\* While migration reads are served (status 3) nothing else is.
ServeRead(m) ==
  /\ mig_status # 3
  /\ \E r \in readq[m] :
       /\ readq' = [readq EXCEPT ![m] = @ \ {r}]
       /\ cached' = [cached EXCEPT ![r.ln] = ValueOf(m, r)]
       /\ mshr' = RestrictDomain(mshr, LAMBDA l : l # r.ln)
  /\ UNCHANGED <<pageVars, mig_status, selVars, stageVars, mig_window, migq, buffer,
                 writeq, mem, wait_list, latest, crossed, reqs, migs>>

\* Writes to different lines may be reordered, writes to the same may not.
ServeWrite(m) ==
  /\ mig_status # 3
  /\ \E i \in 1..Len(writeq[m]) :
       /\ \A j \in 1..(i-1) : writeq[m][j].fl # writeq[m][i].fl
       /\ mem' = [mem EXCEPT ![m][writeq[m][i].fl] = writeq[m][i].val]
       /\ writeq' = [writeq EXCEPT ![m] = RemoveAt(@, i)]
  /\ UNCHANGED <<pageVars, mig_status, selVars, stageVars, mig_window, migq, buffer,
                 readq, cacheVars, migs>>

\* A migration read returns: mig_receive marks its window entry.
ServeMig(m) ==
  /\ mig_status = 3
  /\ \E r \in migq[m] :
       /\ migq' = [migq EXCEPT ![m] = @ \ {r}]
       /\ mig_window' = [i \in 1..Len(mig_window) |->
                           IF mig_window[i].ln = r.ln
                           THEN [mig_window[i] EXCEPT !.ready = TRUE, !.mem = m,
                                                      !.val = ValueOf(m, r)]
                           ELSE mig_window[i]]
  /\ UNCHANGED <<pageVars, mig_status, selVars, stageVars, buffer, readq, writeq, mem,
                 cacheVars, migs>>

(***************************************************************************)
(* The last-level cache.                                                   *)
(***************************************************************************)
\* A miss: an MSHR entry, and a request in the wait list.
Miss(ln, off) ==
  /\ reqs < MaxReqs /\ cached[ln] = NoVal /\ ln \notin DOMAIN mshr
  /\ mshr' = [l \in DOMAIN mshr \cup {ln} |-> IF l = ln THEN 0 ELSE mshr[l]]
  /\ wait_list' = Append(wait_list, [type |-> "READ", ln |-> ln, off |-> off, val |-> NoVal])
  /\ reqs' = reqs + 1
  /\ UNCHANGED <<pageVars, mig_status, selVars, stageVars, mig_window, migq, buffer,
                 readq, writeq, mem, cached, latest, crossed, migs>>

\* A dirty line is evicted and written back, under the address of its last access:
\* every hit renews the line's address.
WriteBack(ln, off) ==
  /\ reqs < MaxReqs /\ cached[ln] # NoVal
  /\ cached' = [cached EXCEPT ![ln] = NoVal]
  /\ latest' = [latest EXCEPT ![ln] = @ + 1]
  /\ wait_list' = Append(wait_list, [type |-> "WRITE", ln |-> ln, off |-> off,
                                     val |-> <<ln, latest[ln] + 1>>])
  /\ reqs' = reqs + 1
  /\ UNCHANGED <<pageVars, mig_status, selVars, stageVars, mig_window, migq, buffer,
                 readq, writeq, mem, mshr, crossed, migs>>

\* onfly_mig_demand_check: the memory whose lines are being moved to the other,
\* if the page of ln is the hot or the cold page of a migration under way.
MovedFrom(ln) ==
  IF mig_status \in {0, 203} THEN "none"
  ELSE IF ln[1] = hot_pg_num THEN "l2m"
  ELSE IF mig_type = 2 /\ ln[1] = cold_pg_num THEN "l1m"
  ELSE "none"

InBuffer(ln, st) == /\ MovedFrom(ln) # "none"
                    /\ ln \in DOMAIN buffer[MovedFrom(ln)]
                    /\ buffer[MovedFrom(ln)][ln].st = st

\* The buffers hold whole lines, and a request finds its own address alone: one under
\* another offset is kept until the migration is over, as is one of a line that is not
\* in the buffer yet.
HitsBuffer(r, st) == r.off = 0 /\ InBuffer(r.ln, st)
Held(r) == MovedFrom(r.ln) # "none" /\ ~ HitsBuffer(r, 1) /\ ~ HitsBuffer(r, 2)

\* Where a request of ln that is not held is sent: where its page is, or is moving to
\* if the line has been written there already.
WrittenNever(ln) == FALSE                                         \* mutant
WrittenAway(ln) == InBuffer(ln, 2)
TargetMem(ln) == IF WrittenAway(ln)
                 THEN IF MovedFrom(ln) = "l2m" THEN "l1m" ELSE "l2m"
                 ELSE dom[ln[1]]
TargetLine(ln) == IF WrittenAway(ln)
                  THEN <<IF MovedFrom(ln) = "l2m" THEN cold_frame_addr
                                                  ELSE hot_frame_addr, ln[2]>>
                  ELSE <<frame_addr[ln[1]], ln[2]>>

Full(r) == r.type = "WRITE" /\ Len(writeq[TargetMem(r.ln)]) >= WrMax

\* The tick of the cache system walks the wait list; request i has its turn
\* when those before it are kept, or find their queue full.
Turn(i) == /\ i \in 1..Len(wait_list)
           /\ \A j \in 1..(i-1) : \/ Held(wait_list[j])
                                  \/ ~ HitsBuffer(wait_list[j], 1) /\ Full(wait_list[j])

\* It goes before a request of its line under another offset.
Passes(i) == \E j \in 1..(i-1) : /\ wait_list[j].ln = wait_list[i].ln
                                 /\ wait_list[j].off # wait_list[i].off

AbsorbedNot(m, r) == buffer                                       \* mutant
Absorbed(m, r) == [buffer EXCEPT ![m][r.ln].val = r.val]

\* A hit in the buffer answers a read and absorbs a write.
BufferHit ==
  \E i \in 1..Len(wait_list) :
    LET r == wait_list[i]
        m == MovedFrom(r.ln)
    IN /\ Turn(i) /\ HitsBuffer(r, 1)
       /\ Cross(r.ln, Passes(i))
       /\ wait_list' = RemoveAt(wait_list, i)
       /\ IF r.type = "READ"
          THEN /\ cached' = [cached EXCEPT ![r.ln] = buffer[m][r.ln].val]
               /\ mshr' = RestrictDomain(mshr, LAMBDA l : l # r.ln)
               /\ UNCHANGED buffer
          ELSE /\ buffer' = Absorbed(m, r)
               /\ UNCHANGED <<cached, mshr>>
       /\ UNCHANGED <<pageVars, mig_status, selVars, stageVars, mig_window, migq,
                      readq, writeq, mem, latest, reqs, migs>>

SendDemand ==
  \E i \in 1..Len(wait_list) :
    LET r == wait_list[i]
        m == TargetMem(r.ln)
    IN /\ Turn(i) /\ ~ Held(r) /\ ~ HitsBuffer(r, 1) /\ ~ Full(r)
       /\ Cross(r.ln, Passes(i) \/ (r.type = "READ" /\ Misses(m, r.ln, r.off)))
       /\ wait_list' = RemoveAt(wait_list, i)
       /\ IF r.type = "READ"
          THEN /\ readq' = [readq EXCEPT ![m] = @ \cup {ReadReq(m, r.ln, r.off, TargetLine(r.ln))}]
               /\ UNCHANGED writeq
          ELSE /\ writeq' = [writeq EXCEPT ![m] =
                    Append(@, [ln |-> r.ln, off |-> r.off, fl |-> TargetLine(r.ln),
                              val |-> r.val])]
               /\ UNCHANGED readq
       /\ UNCHANGED <<pageVars, mig_status, selVars, stageVars, mig_window, migq,
                      buffer, mem, mshr, cached, latest, reqs, migs>>

(***************************************************************************)
(* The migration controller.                                               *)
(***************************************************************************)
Select ==
  /\ mig_status = 0 /\ migs < MaxMigs
  /\ \E p \in Pages :
       /\ dom[p] = "l2m"
       /\ hot_pg_num' = p /\ hot_frame_addr' = frame_addr[p]
       /\ \/ \E f \in free : /\ mig_type' = 1 /\ cold_frame_addr' = f
                             /\ free' = free \ {f}
                             /\ UNCHANGED cold_pg_num
          \/ \E q \in Pages : /\ free = {} /\ dom[q] = "l1m"
                              /\ mig_type' = 2
                              /\ cold_pg_num' = q /\ cold_frame_addr' = frame_addr[q]
                              /\ UNCHANGED free
  /\ mig_status' = 203 /\ migs' = migs + 1
  /\ UNCHANGED <<lines_in_page, dom, frame_addr, stageVars, mig_window, migq, buffer, readq, writeq,
                 mem, cacheVars>>

\* onfly_search_set_init: the MSHR entries of page p that are waited for.  An
\* entry counts as sent to memory if no request of the page is in the wait list.
SentAlways(p) == {l \in DOMAIN mshr : l[1] = p}                   \* mutant
Sent(p) == {l \in DOMAIN mshr :
              /\ l[1] = p
              /\ mshr[l] = 1 \/ \A i \in 1..Len(wait_list) : wait_list[i].ln[1] # p}

PageLines(p) == [k \in LineNums |-> <<p, k>>]
FrameLinesOf(f) == [k \in LineNums |-> <<f, k>>]

\* onfly_fill_mig_stage_q.  A one-way migration fills the cold frame addresses
\* as well, as its writes take them from fr_backup.
Filled(q, p, f) == [pg |-> q.pg \o PageLines(p), fr |-> q.fr \o FrameLinesOf(f),
                    pg_backup |-> q.pg_backup \o PageLines(p),
                    fr_backup |-> q.fr_backup \o FrameLinesOf(f)]
FilledFrames(q, f) == [q EXCEPT !.fr = @ \o FrameLinesOf(f),
                                !.fr_backup = @ \o FrameLinesOf(f)]

onfly_fill_mig_stage_q ==
  LET sent == Sent(hot_pg_num) \cup IF mig_type = 2 THEN Sent(cold_pg_num) ELSE {}
  IN /\ mig_status = 203
     /\ mshr' = [l \in DOMAIN mshr |-> IF l \in sent THEN 1 ELSE mshr[l]]
     /\ mig_status' = IF sent = {} THEN 1 ELSE 2
     /\ hotq' = IF hotq.pg = <<>> THEN Filled(hotq, hot_pg_num, hot_frame_addr) ELSE hotq
     /\ coldq' = CASE mig_type = 1 /\ hotq.pg = <<>> -> FilledFrames(coldq, cold_frame_addr)
                   [] mig_type = 2 /\ coldq.pg = <<>> ->
                        Filled(coldq, cold_pg_num, cold_frame_addr)
                   [] OTHER -> coldq
     /\ UNCHANGED <<pageVars, selVars, hot_writes, cold_writes, mig_window, migq, buffer,
                    readq, writeq, mem, wait_list, cached, latest, crossed, reqs, migs>>

\* Status 2: no flagged MSHR entry is left, of whatever page.
onfly_mig_demand_pending ==
  /\ mig_status = 2
  /\ \A l \in DOMAIN mshr : mshr[l] = 0
  /\ mig_status' = 1
  /\ UNCHANGED <<pageVars, selVars, stageVars, mig_window, migq, buffer, readq, writeq,
                 mem, cacheVars, migs>>

\* Status 1: the migration reads are sent, the hot page's to l2m and then the
\* cold page's to l1m, at the frame addresses next in the queue.
SentOn(m, q) ==
  /\ Cardinality(migq[m]) < MgMax
  /\ migq' = [migq EXCEPT ![m] = @ \cup {ReadReq(m, Head(q.pg), 0, Head(q.fr))}]
  /\ Cross(Head(q.pg), Misses(m, Head(q.pg), 0))
  /\ mig_window' = Append(mig_window, [ln |-> Head(q.pg), mem |-> m, ready |-> FALSE,
                                       val |-> NoVal])
Popped(q) == [q EXCEPT !.pg = Tail(@), !.fr = Tail(@)]

onfly_mig_send_read ==
  /\ mig_status = 1
  /\ \/ /\ hotq.pg # <<>> /\ SentOn("l2m", hotq)
        /\ hotq' = Popped(hotq) /\ UNCHANGED <<coldq, mig_status>>
     \/ /\ hotq.pg = <<>> /\ coldq.pg # <<>> /\ SentOn("l1m", coldq)
        /\ coldq' = Popped(coldq) /\ UNCHANGED <<hotq, mig_status>>
     \/ /\ hotq.pg = <<>> /\ coldq.pg = <<>>
        /\ mig_status' = 3 /\ UNCHANGED <<hotq, coldq, migq, mig_window, crossed>>
  /\ UNCHANGED <<pageVars, selVars, hot_writes, cold_writes, buffer, readq, writeq, mem,
                 wait_list, mshr, cached, latest, reqs, migs>>

\* Status 3: the oldest entry of the window moves to its buffer once it has
\* arrived; after the last one the writing begins.
onfly_mig_start ==
  /\ mig_status = 3
  /\ mig_window # <<>> /\ Head(mig_window).ready
  /\ LET w == Head(mig_window)
     IN buffer' = [buffer EXCEPT ![w.mem] =
          [l \in DOMAIN @ \cup {w.ln} |-> IF l = w.ln THEN [st |-> 1, val |-> w.val]
                                          ELSE @[l]]]
  /\ mig_window' = Tail(mig_window)
  /\ mig_status' = IF Len(mig_window) = 1 THEN 4 ELSE 3
  /\ UNCHANGED <<pageVars, selVars, stageVars, migq, readq, writeq, mem, cacheVars, migs>>

\* Status 4: the lines in the buffers are written, those of the hot page to the
\* frame addresses fr_backup of the cold queue and the other way round.
Written(from, to, ln, fl) ==
  /\ Len(writeq[to]) < WrMax
  /\ writeq' = [writeq EXCEPT ![to] =
                  Append(@, [ln |-> ln, off |-> 0, fl |-> fl, val |-> buffer[from][ln].val])]
  /\ buffer' = [buffer EXCEPT ![from][ln].st = 2]

HotTarget == Head(coldq.fr_backup)

onfly_mig_send_write ==
  /\ mig_status = 4
  /\ \/ /\ hot_writes < lines_in_page
        /\ Written("l2m", "l1m", Head(hotq.pg_backup), HotTarget)
        /\ hotq' = [hotq EXCEPT !.pg_backup = Tail(@)]
        /\ coldq' = [coldq EXCEPT !.fr_backup = Tail(@)]
        /\ hot_writes' = hot_writes + 1
        /\ UNCHANGED <<cold_writes, mig_status>>
     \/ /\ hot_writes = lines_in_page
        /\ DOMAIN buffer["l1m"] # {} /\ cold_writes < lines_in_page
        /\ Written("l1m", "l2m", Head(coldq.pg_backup), Head(hotq.fr_backup))
        /\ coldq' = [coldq EXCEPT !.pg_backup = Tail(@)]
        /\ hotq' = [hotq EXCEPT !.fr_backup = Tail(@)]
        /\ cold_writes' = cold_writes + 1
        /\ UNCHANGED <<hot_writes, mig_status>>
     \/ /\ hot_writes = lines_in_page /\ (mig_type = 2 => cold_writes = lines_in_page)
        /\ mig_status' = 5 /\ hot_writes' = 0 /\ cold_writes' = 0
        /\ UNCHANGED <<hotq, coldq, writeq, buffer>>
  /\ UNCHANGED <<pageVars, selVars, mig_window, migq, readq, mem, cacheVars, migs>>

\* Where the hot page, and the cold page of a two-way migration, are now.
NewFrames == [p \in Pages |-> CASE p = hot_pg_num -> cold_frame_addr
                               [] p = cold_pg_num /\ mig_type = 2 -> hot_frame_addr
                               [] OTHER -> frame_addr[p]]
NewDoms == [p \in Pages |-> CASE p = hot_pg_num -> "l1m"
                             [] p = cold_pg_num /\ mig_type = 2 -> "l2m"
                             [] OTHER -> dom[p]]

onfly_mig_completion ==
  /\ mig_status = 5
  /\ dom' = NewDoms /\ frame_addr' = NewFrames
  /\ buffer' = [m \in Mems |-> <<>>]
  /\ hot_pg_num' = NoPage /\ cold_pg_num' = NoPage
  /\ hot_frame_addr' = NoFrame /\ cold_frame_addr' = NoFrame
  /\ mig_status' = 0
  /\ UNCHANGED <<lines_in_page, free, mig_type, stageVars, mig_window, migq, readq, writeq, mem,
                 cacheVars, migs>>

(***************************************************************************)
(* The specification.                                                      *)
(***************************************************************************)
MemStep(m) == ServeRead(m) \/ ServeWrite(m) \/ ServeMig(m)
CacheStep == BufferHit \/ SendDemand
MigStep == \/ onfly_fill_mig_stage_q \/ onfly_mig_demand_pending
           \/ onfly_mig_send_read \/ onfly_mig_start \/ onfly_mig_send_write
           \/ onfly_mig_completion

Next == \/ \E ln \in Lines, off \in Offsets : Miss(ln, off) \/ WriteBack(ln, off)
        \/ CacheStep \/ Select \/ MigStep
        \/ \E m \in Mems : MemStep(m)

\* The memories, the cache system and the controller tick for ever; a memory
\* serves its reads and its writes each.
Fairness == /\ WF_vars(CacheStep) /\ WF_vars(MigStep)
            /\ \A m \in Mems : /\ WF_vars(ServeRead(m)) /\ WF_vars(ServeWrite(m))
                               /\ WF_vars(ServeMig(m))

Spec == Init /\ [][Next]_vars /\ Fairness

(***************************************************************************)
(* Properties.                                                             *)
(***************************************************************************)
\* Whatever a migration does to the lines between the miss and the answer, the
\* cache gets the line it asked for, as it was last written back: unless one of its
\* requests was served past another whose address differs in the offset.
CacheCoherent ==
  \A l \in Lines \ crossed : cached[l] # NoVal => cached[l] = <<l, latest[l]>>

\* Between migrations every page can be found: the latest version of each of
\* its lines, but for those same lines, is in the LLC's write-backs, in the write
\* queue of its memory, or in its frame.
PagesWhole ==
  mig_status = 0 =>
    \A l \in Lines \ crossed :
      LET m == dom[l[1]]
      IN \/ \E i \in 1..Len(wait_list) : wait_list[i].type = "WRITE" /\ wait_list[i].ln = l
         \/ LineQueued(m, l) /\ LastOfLine(m, l).val = <<l, latest[l]>>
         \/ /\ ~ LineQueued(m, l)
            /\ mem[m][<<frame_addr[l[1]], l[2]>>] = <<l, latest[l]>>

\* "hot_mig_stage_q always should hold addr of hot pages which must go to PCM",
\* "cold_mig_stage_q always should hold addr of cold pages which must go to HBM":
\* every migration read is for the frame its page occupies.
StageQueuesOwnFrames ==
  \A m \in Mems : \A r \in migq[m] : dom[r.ln[1]] = m /\ r.fl[1] = frame_addr[r.ln[1]]

\* "already sent to mem, so must wait": a demand read of a page being moved that
\* is on its way to the page's old frame holds the migration up.
SentMustWait ==
  mig_status \in {3, 4, 5} =>
    \A m \in Mems : \A r \in readq[m] :
      r.ln[1] \in {hot_pg_num, cold_pg_num} => r.fl[1] # frame_addr[r.ln[1]]

\* A page on the move and the requests that wait for it never wait for each
\* other: every miss is answered, and every migration ends.
DemandServed == \A l \in Pages \X (1..MgMax) : (l \in DOMAIN mshr) ~> (l \notin DOMAIN mshr)
MigrationEnds == (mig_status = 203) ~> (mig_status = 0)
=============================================================================
