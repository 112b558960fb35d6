----------------------------- MODULE MemController -----------------------------
(***************************************************************************)
(* One channel of a memory: its controller, with the scheduler, the row    *)
(* table and the refresh, and the banks below it.                          *)
(*                                                                         *)
(* The clock and the timing table are abstracted: at a tick any of the     *)
(* commands that the queue served would need may be allowed by its timing, *)
(* and the oldest pending read may be due or not.  A line's value is the   *)
(* number of the last write to it, since the simulator carries no data.    *)
(* Requests are for addresses, a line and an offset in it: what decides    *)
(* bank and row is the line, and what the queues compare is the address.   *)
(***************************************************************************)
EXTENDS Integers, Sequences, SequencesExt, FiniteSets, FiniteSetsExt

CONSTANTS
  Lines,          \* lines <<bank, row, column>> of the channel's one rank
  Offsets,        \* the offsets in a line that a program's requests may have
  PageLines,      \* the lines of this channel that a migration reads
  RdMax, WrMax, MgMax,   \* rd_q_max, wr_q_max, mg_q_max
  High, Low,      \* int(0.8 * wr_q_max), int(0.2 * wr_q_max)
  HasRefresh,     \* FALSE for PCM
  MaxReqs,        \* bound of the model: demand requests
  MaxMigs,        \* bound of the model: migrations
  MaxRefresh      \* bound of the model: refreshes

ASSUME LineAssumption == Lines \subseteq Nat \X Nat \X Nat
\* A migration reads whole lines.
ASSUME OffsetAssumption == 0 \in Offsets
ASSUME QueueAssumption == RdMax \in Nat \ {0} /\ WrMax \in Nat \ {0} /\ MgMax \in Nat
\* "2 channels combined should mange 4K page": the reads of a page are all
\* queued before the first is served.
ASSUME PageAssumption == PageLines \in Seq(Lines) /\ Len(PageLines) <= MgMax
ASSUME ModeAssumption == Low \in Nat /\ High \in Nat /\ Low < High /\ High <= WrMax
ASSUME BoundAssumption == MaxReqs \in Nat /\ MaxMigs \in Nat /\ MaxRefresh \in Nat

Bank(l) == l[1]
Row(l) == l[2]
Banks == {Bank(l) : l \in Lines}
Rows == {Row(l) : l \in Lines}
Addrs == Lines \X Offsets

VARIABLES
  readq, writeq, migq,     \* requests, oldest first
  otherq,                  \* number of refresh requests of the rank
  pending, mig_pending,    \* reads about to receive their data
  write_mode,
  row_state,               \* bank -> its open rows; the bank is Closed without
  rowtable,                \* bank -> row, of the banks with an entry
  cur_serving_requests,
  asserts,                 \* FALSE after an assertion of the code failed
  mig_status,              \* 0, 1 (reads are sent), 3 (reads are served)
  to_send,                 \* migration reads not sent yet
  mem,                     \* line -> version in the bank
  latest,                  \* line -> version of the last write accepted
  written,                 \* address -> version of the last write accepted for it
  reqs, migs, refreshes    \* counters of the model

queues == <<readq, writeq, migq, otherq, pending, mig_pending>>
banks == <<row_state, rowtable, mem>>
counters == <<reqs, migs, refreshes>>
vars == <<queues, write_mode, banks, cur_serving_requests, asserts, mig_status,
          to_send, latest, written, counters>>

\* A request; ver is the version written, or the oldest a read may return.
Requests == [type : {"RD", "WR"}, ln : Lines, off : Offsets, first : BOOLEAN,
             ver : 0..MaxReqs]
\* A read about to complete; one that was forwarded has not accessed a row.
Answers == [want : 0..MaxReqs, got : 0..MaxReqs, accessed : BOOLEAN]

TypeOK ==
  /\ readq \in Seq(Requests) /\ writeq \in Seq(Requests) /\ migq \in Seq(Requests)
  /\ Len(readq) <= RdMax /\ Len(writeq) <= WrMax /\ Len(migq) <= MgMax
  /\ otherq \in 0..MaxRefresh
  /\ pending \in Seq(Answers) /\ mig_pending \in Seq(Answers)
  /\ write_mode \in BOOLEAN
  /\ row_state \in [Banks -> SUBSET Rows]
  /\ DOMAIN rowtable \subseteq Banks /\ \A b \in DOMAIN rowtable : rowtable[b] \in Rows
  /\ cur_serving_requests \in Int /\ asserts \in BOOLEAN
  /\ mig_status \in {0, 1, 3} /\ to_send \in Seq(Lines)
  /\ mem \in [Lines -> 0..MaxReqs] /\ latest \in [Lines -> 0..MaxReqs]
  /\ written \in [Addrs -> 0..MaxReqs]

Init ==
  /\ readq = <<>> /\ writeq = <<>> /\ migq = <<>> /\ otherq = 0
  /\ pending = <<>> /\ mig_pending = <<>>
  /\ write_mode = FALSE
  /\ row_state = [b \in Banks |-> {}] /\ rowtable = <<>>
  /\ cur_serving_requests = 0 /\ asserts = TRUE
  /\ mig_status = 0 /\ to_send = <<>>
  /\ mem = [l \in Lines |-> 0] /\ latest = [l \in Lines |-> 0]
  /\ written = [a \in Addrs |-> 0]
  /\ reqs = 0 /\ migs = 0 /\ refreshes = 0

(***************************************************************************)
(* Accepting requests.                                                     *)
(***************************************************************************)
Room(q, max) == Len(q) # max

Request(t, l, off, v) == [type |-> t, ln |-> l, off |-> off, first |-> TRUE, ver |-> v]

\* The queued writes of an address, and the version of the last of them.
WritesOf(l, off) == {i \in 1..Len(writeq) : writeq[i].ln = l /\ writeq[i].off = off}
WriteQueued(l, off) == WritesOf(l, off) # {}
LastWrite(l, off) == writeq[Max(WritesOf(l, off))].ver

\* The lines of a page on the move are held back by the cache system.
OnTheMove(l) == mig_status # 0 /\ l \in ToSet(PageLines)

\* A read of an address with a queued write takes its value from there: "necessary
\* for coherence".  It is refused all the same when the read queue is full.  A write
\* of the line under another offset is not found.
ForwardNever(l, off) == FALSE                                     \* mutant
Forward(l, off) == WriteQueued(l, off)

ForwardedRead(l, off) == [want |-> written[<<l, off>>], got |-> LastWrite(l, off),
                          accessed |-> FALSE]
QueuedRead(l, off) == Request("RD", l, off, written[<<l, off>>])

enqueue_read(l, off) ==
  /\ Room(readq, RdMax)
  /\ IF Forward(l, off)
     THEN pending' = Append(pending, ForwardedRead(l, off)) /\ UNCHANGED readq
     ELSE readq' = Append(readq, QueuedRead(l, off)) /\ UNCHANGED pending
  /\ UNCHANGED <<writeq, latest, written>>

enqueue_write(l, off) ==
  /\ Room(writeq, WrMax)
  /\ writeq' = Append(writeq, Request("WR", l, off, latest[l] + 1))
  /\ latest' = [latest EXCEPT ![l] = @ + 1]
  /\ written' = [written EXCEPT ![<<l, off>>] = latest[l] + 1]
  /\ UNCHANGED <<readq, pending>>

enqueue(l, off) ==
  /\ reqs < MaxReqs /\ ~ OnTheMove(l)
  /\ enqueue_read(l, off) \/ enqueue_write(l, off)
  /\ reqs' = reqs + 1
  /\ UNCHANGED <<migq, otherq, mig_pending, write_mode, banks, cur_serving_requests,
                 asserts, mig_status, to_send, migs, refreshes>>

\* The migration controller sends the reads of a page, and has them served once
\* the last is queued.
enqueue_mig ==
  /\ mig_status = 1 /\ to_send # <<>>
  /\ Room(migq, MgMax)
  /\ LET l == Head(to_send)
     IN IF Forward(l, 0)
        THEN /\ mig_pending' = Append(mig_pending, ForwardedRead(l, 0))
             /\ UNCHANGED migq
        ELSE /\ migq' = Append(migq, QueuedRead(l, 0))
             /\ UNCHANGED mig_pending
  /\ to_send' = Tail(to_send)
  /\ UNCHANGED <<readq, writeq, otherq, pending, write_mode, banks,
                 cur_serving_requests, asserts, mig_status, latest, written, counters>>

MigStatus ==
  /\ \/ /\ mig_status = 0 /\ migs < MaxMigs
        /\ mig_status' = 1 /\ to_send' = PageLines /\ migs' = migs + 1
     \/ /\ mig_status = 1 /\ to_send = <<>>
        /\ mig_status' = 3 /\ UNCHANGED <<to_send, migs>>
     \/ /\ mig_status = 3 /\ migq = <<>> /\ mig_pending = <<>>
        /\ mig_status' = 0 /\ UNCHANGED <<to_send, migs>>
  /\ UNCHANGED <<queues, write_mode, banks, cur_serving_requests, asserts, latest, written,
                 reqs, refreshes>>

(***************************************************************************)
(* The banks: which command a request needs first, and what it does.       *)
(***************************************************************************)
RowOpen(r) == row_state[Bank(r.ln)] # {}                     \* is_row_open
RowHit(r) == Row(r.ln) \in row_state[Bank(r.ln)]             \* is_row_hit

get_first_cmd(r) == CASE ~ RowOpen(r) -> "ACT"
                      [] RowHit(r) -> r.type
                      [] OTHER -> "PRE"
Command(r) == <<get_first_cmd(r), Bank(r.ln)>>

RefreshCmd == <<IF \E b \in Banks : row_state[b] # {} THEN "PREA" ELSE "REF", -1>>

Activated(r) ==
  /\ row_state' = [row_state EXCEPT ![Bank(r.ln)] = @ \cup {Row(r.ln)}]
  /\ rowtable' = [b \in DOMAIN rowtable \cup {Bank(r.ln)} |->   \* insert keeps an entry
                    IF b \in DOMAIN rowtable THEN rowtable[b] ELSE Row(r.ln)]

\* The banks in B are closed; the row table asserts that it had one of them.
ClosedOne(B) == [b \in DOMAIN rowtable \ {Min(B)} |-> rowtable[b]]   \* mutant
RowTableWithout(B) == [b \in DOMAIN rowtable \ B |-> rowtable[b]]
Closed(B) ==
  /\ row_state' = [b \in Banks |-> IF b \in B THEN {} ELSE row_state[b]]
  /\ rowtable' = RowTableWithout(B)

InRowTable(r) == Bank(r.ln) \in DOMAIN rowtable /\ rowtable[Bank(r.ln)] = Row(r.ln)

(***************************************************************************)
(* The scheduler.                                                          *)
(***************************************************************************)
\* Requests are queued as they arrive, so the first of S is the oldest.
Oldest(S) == Min(S)
Prefer(S, P) == Oldest(IF S \cap P # {} THEN S \cap P ELSE S)

\* get_head of FRFCFS_PriorHit: the oldest ready row hit; or else the oldest
\* ready request, or the oldest, among those whose PRE would not close a row
\* that another request of the queue hits; 0 if there are none.
SparesAll(q, i) == TRUE                                           \* mutant
SparesHits(q, i) ==
  RowOpen(q[i]) /\ ~ RowHit(q[i]) =>
    \A j \in 1..Len(q) : RowHit(q[j]) => Bank(q[j].ln) # Bank(q[i].ln)

get_head(q, ready) ==
  LET all == 1..Len(q)
      can == {i \in all : Command(q[i]) \in ready}
      hits == {i \in all : RowHit(q[i])}
      allowed == {i \in all : SparesHits(q, i)}
  IN IF can \cap hits # {} THEN Oldest(can \cap hits)
     ELSE IF allowed = {} THEN 0 ELSE Prefer(allowed, can)

(***************************************************************************)
(* A tick.                                                                 *)
(***************************************************************************)
\* Writes are drained from when there are many, or no reads, to when there are
\* few and there are reads.  Migration reads leave the mode alone.
NextModeFull == IF ~ write_mode THEN Len(writeq) >= High               \* mutant
                ELSE ~ (Len(writeq) <= Low /\ readq # <<>>)
NextMode == IF ~ write_mode THEN Len(writeq) >= High \/ readq = <<>>
            ELSE ~ (Len(writeq) <= Low /\ readq # <<>>)
UpdateMode == write_mode' = IF mig_status = 3 THEN write_mode ELSE NextMode

\* The queue served, but for refreshes.
QueueName == CASE mig_status = 3 -> "mig"
               [] mig_status # 3 /\ NextMode -> "write"
               [] OTHER -> "read"
QueueOf(name) == CASE name = "mig" -> migq [] name = "write" -> writeq [] OTHER -> readq
SetQueue(name, q) == /\ migq'   = IF name = "mig" THEN q ELSE migq
                     /\ writeq' = IF name = "write" THEN q ELSE writeq
                     /\ readq'  = IF name = "read" THEN q ELSE readq

\* The reads that may complete: those of the migration alone in status 3.
Answering == IF mig_status = 3 THEN mig_pending ELSE pending
SetAnswers(a) == IF mig_status = 3 THEN mig_pending' = a /\ UNCHANGED pending
                                   ELSE pending' = a /\ UNCHANGED mig_pending

\* A read that was forwarded departs one clock after it arrived, and was never
\* counted as being served.
CountedAll(a) == 1                                                \* mutant
Counted(a) == IF a.accessed THEN 1 ELSE 0

\* The command request h of queue q needs is issued; a RD or WR ends it.
Issue(name, q, h, answers, serving) ==
  LET r == q[h]
      cmd == get_first_cmd(r)
      begun == serving + (IF r.first THEN 1 ELSE 0)
  IN \/ /\ cmd \in {"ACT", "PRE"}
        /\ IF cmd = "ACT" THEN Activated(r) ELSE Closed({Bank(r.ln)})
        /\ asserts' = (asserts /\ (cmd = "PRE" => Bank(r.ln) \in DOMAIN rowtable))
        /\ SetQueue(name, [q EXCEPT ![h].first = FALSE]) /\ SetAnswers(answers)
        /\ cur_serving_requests' = begun
        /\ UNCHANGED mem
     \/ /\ cmd = "RD"
        /\ SetQueue(name, RemoveAt(q, h))
        /\ SetAnswers(Append(answers, [want |-> r.ver, got |-> mem[r.ln],
                                       accessed |-> TRUE]))
        /\ cur_serving_requests' = begun
        /\ asserts' = (asserts /\ InRowTable(r))
        /\ UNCHANGED banks
     \/ /\ cmd = "WR"
        /\ SetQueue(name, RemoveAt(q, h)) /\ SetAnswers(answers)
        /\ mem' = [mem EXCEPT ![r.ln] = r.ver]
        /\ cur_serving_requests' = begun - 1
        /\ asserts' = (asserts /\ InRowTable(r))
        /\ UNCHANGED <<row_state, rowtable>>

\* A refresh closes all rows of the rank first.
IssueRefresh(other) ==
  \/ /\ RefreshCmd[1] = "PREA"
     /\ Closed(Banks)
     /\ asserts' = (asserts /\ DOMAIN rowtable # {})
     /\ otherq' = other
     /\ UNCHANGED mem
  \/ /\ RefreshCmd[1] = "REF"
     /\ otherq' = other - 1
     /\ UNCHANGED <<banks, asserts>>

\* The timing allows the commands in ready; due: the oldest pending read is
\* answered; inject: the refresh interval is over.  Refreshes go before requests.
Tick(due, inject, ready) ==
  LET answers == IF due THEN Tail(Answering) ELSE Answering
      serving == cur_serving_requests - (IF due THEN Counted(Head(Answering)) ELSE 0)
      other == otherq + (IF inject THEN 1 ELSE 0)
      q == QueueOf(QueueName)
  IN /\ due => Answering # <<>>
     /\ inject => HasRefresh /\ refreshes < MaxRefresh
     /\ refreshes' = refreshes + (IF inject THEN 1 ELSE 0)
     /\ UpdateMode
     /\ IF other > 0
        THEN /\ SetAnswers(answers) /\ cur_serving_requests' = serving
             /\ UNCHANGED <<readq, writeq, migq>>
             /\ IF RefreshCmd \in ready
                THEN IssueRefresh(other)
                ELSE otherq' = other /\ UNCHANGED <<banks, asserts>>
        ELSE /\ UNCHANGED otherq
             /\ \E h \in {get_head(q, ready)} :
                  IF h # 0 /\ Command(q[h]) \in ready
                  THEN Issue(QueueName, q, h, answers, serving)
                  ELSE /\ SetAnswers(answers) /\ cur_serving_requests' = serving
                       /\ UNCHANGED <<readq, writeq, migq, banks, asserts>>
     /\ UNCHANGED <<mig_status, to_send, latest, written, reqs, migs>>

\* The commands whose timing matters at this tick.
Wanted(inject) ==
  IF otherq > 0 \/ inject THEN {RefreshCmd}
  ELSE {Command(QueueOf(QueueName)[i]) : i \in 1..Len(QueueOf(QueueName))}

tick == \E due, inject \in BOOLEAN : \E ready \in SUBSET Wanted(inject) :
          Tick(due, inject, ready)

Next == \/ \E l \in Lines, off \in Offsets : enqueue(l, off)
        \/ enqueue_mig \/ MigStatus \/ tick

\* Time passes: what is pending departs, and every command's timing is met in
\* the end, between two refreshes.
Elapse == Tick(Answering # <<>>, FALSE, Wanted(FALSE))
Fairness == WF_vars(Elapse) /\ WF_vars(enqueue_mig) /\ WF_vars(MigStatus)

Spec == Init /\ [][Next]_vars /\ Fairness

(***************************************************************************)
(* Properties.                                                             *)
(***************************************************************************)
\* A read never returns less than the last write of its address accepted before it,
\* and no write is lost or overtaken by a later one of its line, whatever their
\* offsets: the check of the write queue in enqueue, and the order of the queues,
\* see to that.
LineQueued(l) == \E i \in 1..Len(writeq) : writeq[i].ln = l
LastOfLine(l) == writeq[Max({i \in 1..Len(writeq) : writeq[i].ln = l})].ver
ReadsFresh ==
  /\ \A a \in ToSet(pending) \cup ToSet(mig_pending) : a.got >= a.want
  /\ \A l \in Lines : latest[l] = IF LineQueued(l) THEN LastOfLine(l) ELSE mem[l]

\* cur_serving_requests, on which the statistics of busy cycles are based, is
\* the number of requests that are begun and not finished.
Started(q) == Cardinality({i \in 1..Len(q) : ~ q[i].first})
Accessed(a) == Cardinality({i \in 1..Len(a) : a[i].accessed})
ServingExact ==
  cur_serving_requests = Started(readq) + Started(writeq) + Started(migq)
                         + Accessed(pending) + Accessed(mig_pending)

\* The row table of the scheduler and the state of the banks, which are updated
\* apart, agree, and no assertion of theirs fails.
RowTableSound ==
  /\ asserts
  /\ DOMAIN rowtable = {b \in Banks : row_state[b] # {}}
  /\ \A b \in DOMAIN rowtable : row_state[b] = {rowtable[b]}

\* No request closes a row that another request of its queue hits; only a
\* refresh does.
HitsSpared ==
  [][\A b \in Banks :
       /\ row_state[b] # {} /\ row_state'[b] = {}
       /\ otherq + (refreshes' - refreshes) = 0
       => \A i \in 1..Len(QueueOf(QueueName)) :
            LET r == QueueOf(QueueName)[i] IN Bank(r.ln) = b => ~ RowHit(r)]_vars

\* When no more requests come, all are served, the migration's included: the
\* modes, the precedences and the hits that are spared never block one another.
Drained == <>[](/\ readq = <<>> /\ writeq = <<>> /\ migq = <<>> /\ otherq = 0
                /\ pending = <<>> /\ mig_pending = <<>> /\ mig_status = 0)
=============================================================================
