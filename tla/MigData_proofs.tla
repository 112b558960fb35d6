--------------------------- MODULE MigData_proofs ---------------------------
(***************************************************************************)
(* A migration is coherent for every number of pages, frames and lines, as *)
(* long as four conditions hold, and for every line no request of which    *)
(* met another of its line under another address.  Each of the conditions  *)
(* fails in some execution of this code; together they are enough.         *)
(***************************************************************************)
EXTENDS MigData, PageLists_proofs, WellFoundedInduction, TLAPS

(***************************************************************************)
(* The conditions.                                                         *)
(***************************************************************************)
\* No write-back finds its queue full when it has its turn.
NeverRefused ==
  \A i \in 1..Len(wait_list) :
    Full(wait_list[i]) => Held(wait_list[i]) \/ HitsBuffer(wait_list[i], 1)

\* A swap finds nothing left of earlier migrations in the staging queues.
StagesEmptied ==
  mig_status = 203 /\ mig_type = 2 => coldq.fr = <<>> /\ hotq.fr_backup = <<>>

\* The writes of a line that are queued at a memory are for one frame.
QueuedForOneFrame ==
  \A m \in Mems : \A i, j \in 1..Len(writeq[m]) :
    writeq[m][i].ln = writeq[m][j].ln => writeq[m][i].fl = writeq[m][j].fl

Benign == NeverRefused /\ StagesEmptied /\ QueuedForOneFrame /\ SentMustWait

(***************************************************************************)
(* The inductive invariant.                                                *)
(***************************************************************************)
Version(l) == <<l, latest[l]>>

\* In a queue s: a write of line l, the last of them, and what a read of l that
\* arrives now returns if the memory holds c and the line is at fl.
Has(s, l) == \E i \in 1..Len(s) : s[i].ln = l
LastVal(s, l) == s[CHOOSE i \in 1..Len(s) :
                     /\ s[i].ln = l
                     /\ \A j \in (i+1)..Len(s) : s[j].ln # l].val
Store(s, c, l, fl) == IF Has(s, l) THEN LastVal(s, l) ELSE c[fl]

\* A line of a page on the move that is in no buffer: all its requests are kept.
Kept(l) == MovedFrom(l) # "none" /\ ~ InBuffer(l, 1) /\ ~ InBuffer(l, 2)

\* The value of line l that has got furthest, and where it is.
InFrame(l) == ~ InBuffer(l, 1)
Home(l) == IF InFrame(l)
           THEN Store(writeq[TargetMem(l)], mem[TargetMem(l)], l, TargetLine(l))
           ELSE buffer[MovedFrom(l)][l].val

\* The writes of l in the queue s are for fl, and others for fl are before one of them.
QueueOk(s, l, fl) ==
  \A i \in 1..Len(s) : /\ s[i].ln = l => s[i].fl = fl
                       /\ s[i].fl = fl => \E j \in i..Len(s) : s[j].ln = l

NoWriteWaits(l) ==
  \A i \in 1..Len(wait_list) : wait_list[i].ln = l => wait_list[i].type = "READ"
LineOk(l) ==
  /\ InFrame(l) => QueueOk(writeq[TargetMem(l)], l, TargetLine(l))
  /\ Home(l) \in Vals
  /\ NoWriteWaits(l) /\ l \notin crossed => Home(l) = Version(l)

Funs ==
  /\ DOMAIN migq = Mems /\ DOMAIN readq = Mems /\ DOMAIN writeq = Mems
  /\ DOMAIN mem = Mems /\ DOMAIN buffer = Mems
  /\ \A l \in Lines : latest[l] <= reqs
  /\ reqs \in 0..MaxReqs

FrameInv ==
  /\ \A p \in Pages : frame_addr[p] \in Frames(dom[p])
  /\ \A p, q \in Pages : dom[p] = dom[q] /\ frame_addr[p] = frame_addr[q] => p = q
  /\ \A p \in Pages : dom[p] = "l1m" => frame_addr[p] \notin free
  /\ mig_status = 0 => hot_pg_num = NoPage /\ cold_pg_num = NoPage
  /\ mig_status # 0 =>
       /\ hot_pg_num \in Pages /\ dom[hot_pg_num] = "l2m"
       /\ hot_frame_addr = frame_addr[hot_pg_num]
       /\ cold_frame_addr \in L1Frames /\ mig_type \in {1, 2}
       /\ mig_type = 1 => /\ cold_pg_num = NoPage /\ cold_frame_addr \notin free
                          /\ \A p \in Pages : dom[p] = "l1m" => frame_addr[p] # cold_frame_addr
       /\ mig_type = 2 => /\ cold_pg_num \in Pages /\ dom[cold_pg_num] = "l1m"
                          /\ cold_frame_addr = frame_addr[cold_pg_num]

\* The last Len(s) of the lines of x, a page or a frame.
Rest(s, x) == /\ Len(s) <= lines_in_page
              /\ s = [k \in 1..Len(s) |-> <<x, lines_in_page - Len(s) + k>>]

StageInv ==
  /\ mig_status \in {0, 203, 5} =>
       /\ hotq.pg = <<>> /\ hotq.fr = <<>> /\ hotq.pg_backup = <<>>
       /\ coldq.pg = <<>> /\ coldq.pg_backup = <<>> /\ coldq.fr_backup = <<>>
       /\ hot_writes = 0 /\ cold_writes = 0
  /\ mig_status \in {1, 2, 3} =>
       /\ Rest(hotq.pg, hot_pg_num)
       /\ Rest(hotq.fr, hot_frame_addr) /\ Len(hotq.fr) = Len(hotq.pg)
       /\ Rest(hotq.pg_backup, hot_pg_num) /\ Len(hotq.pg_backup) = lines_in_page
       /\ Rest(coldq.fr_backup, cold_frame_addr) /\ Len(coldq.fr_backup) = lines_in_page
       /\ mig_type = 1 => coldq.pg = <<>> /\ coldq.pg_backup = <<>>
       /\ mig_type = 2 =>
            /\ Rest(coldq.pg, cold_pg_num)
            /\ Rest(coldq.fr, cold_frame_addr) /\ Len(coldq.fr) = Len(coldq.pg)
            /\ Rest(coldq.pg_backup, cold_pg_num) /\ Len(coldq.pg_backup) = lines_in_page
            /\ Rest(hotq.fr_backup, hot_frame_addr) /\ Len(hotq.fr_backup) = lines_in_page
       /\ hot_writes = 0 /\ cold_writes = 0
       /\ mig_status = 2 => /\ Len(hotq.pg) = lines_in_page
                            /\ mig_type = 2 => Len(coldq.pg) = lines_in_page
       /\ mig_status = 3 => hotq.pg = <<>> /\ coldq.pg = <<>>
  /\ mig_status = 4 =>
       /\ hotq.pg = <<>> /\ hotq.fr = <<>> /\ coldq.pg = <<>>
       /\ Rest(hotq.pg_backup, hot_pg_num) /\ Rest(coldq.fr_backup, cold_frame_addr)
       /\ Len(hotq.pg_backup) = lines_in_page - hot_writes
       /\ Len(coldq.fr_backup) = lines_in_page - hot_writes
       /\ mig_type = 1 => coldq.pg_backup = <<>> /\ cold_writes = 0
       /\ mig_type = 2 =>
            /\ Rest(coldq.pg_backup, cold_pg_num) /\ Rest(hotq.fr_backup, hot_frame_addr)
            /\ Len(coldq.pg_backup) = lines_in_page - cold_writes
            /\ Len(hotq.fr_backup) = lines_in_page - cold_writes
            /\ cold_writes > 0 => hot_writes = lines_in_page

\* The line l of a page on the move has not been asked for yet.
Unread(l) == IF MovedFrom(l) = "l2m" THEN l[2] > lines_in_page - Len(hotq.pg)
             ELSE l[2] > lines_in_page - Len(coldq.pg)
Away(l) == IF MovedFrom(l) = "l2m" THEN l[2] <= hot_writes ELSE l[2] <= cold_writes

BufferInv ==
  /\ \A m \in Mems : \A l \in DOMAIN buffer[m] : l \in Lines /\ MovedFrom(l) = m
  /\ mig_status \in {0, 203, 1, 2} => \A m \in Mems : buffer[m] = <<>>
  /\ \A m \in Mems : \A l \in DOMAIN buffer[m] :
       /\ mig_status = 3 => buffer[m][l].st = 1
       /\ mig_status = 4 => (buffer[m][l].st = 2 <=> Away(l))
       /\ mig_status = 5 => buffer[m][l].st = 2
  /\ mig_status \in {4, 5} =>
       \A l \in Lines : MovedFrom(l) # "none" => l \in DOMAIN buffer[MovedFrom(l)]

WindowInv ==
  /\ mig_status \notin {1, 3} => mig_window = <<>>
  /\ mig_status = 1 => \A i \in 1..Len(mig_window) : ~ mig_window[i].ready
  /\ \A i \in 1..Len(mig_window) :
       LET w == mig_window[i]
       IN  /\ MovedFrom(w.ln) = w.mem /\ ~ Unread(w.ln)
           /\ w.ln \notin DOMAIN buffer[w.mem]
           /\ w.ready => w.val \in Vals /\ (w.ln \notin crossed => w.val = Home(w.ln))
  /\ \A i, j \in 1..Len(mig_window) : mig_window[i].ln = mig_window[j].ln => i = j
  /\ mig_status \in {1, 3} =>
       \A l \in Lines :
         MovedFrom(l) # "none" =>
           \/ Unread(l) \/ l \in DOMAIN buffer[MovedFrom(l)]
           \/ \E i \in 1..Len(mig_window) : mig_window[i].ln = l

MigqInv ==
  \A m \in Mems : \A r \in migq[m] :
    /\ \E i \in 1..Len(mig_window) : /\ mig_window[i].ln = r.ln /\ mig_window[i].mem = m
                                     /\ ~ mig_window[i].ready
    /\ \A s \in migq[m] : s.ln = r.ln => s = r
    /\ r.ln \notin crossed =>
         \/ r.val = Home(r.ln) /\ r.val # NoVal
         \/ r.val = NoVal /\ r.fl = TargetLine(r.ln) /\ ~ Has(writeq[m], r.ln)

\* A read waits for an MSHR entry and is the last request of its line; the last
\* write-back of a line has its latest version.
WaitInv ==
  \A i \in 1..Len(wait_list) :
    /\ wait_list[i].type = "READ" =>
         /\ wait_list[i].ln \in DOMAIN mshr
         /\ \A j \in (i + 1)..Len(wait_list) : wait_list[j].ln # wait_list[i].ln
    /\ wait_list[i].type = "WRITE" =>
         /\ wait_list[i].val \in Vals
         /\ /\ wait_list[i].ln \notin crossed
            /\ \A j \in (i + 1)..Len(wait_list) :
                 wait_list[j].ln = wait_list[i].ln => wait_list[j].type = "READ"
            => wait_list[i].val = Version(wait_list[i].ln)

CacheInv == /\ CacheCoherent /\ WaitInv
            /\ \A l \in DOMAIN mshr : cached[l] = NoVal

\* The read of line l that is at a memory has overtaken what is in the wait list.
ReadAlone(l) == \A i \in 1..Len(wait_list) :
                  wait_list[i].ln = l => wait_list[i].type = "WRITE" /\ l \in crossed

ReadInv ==
  \A m \in Mems : \A r \in readq[m] :
    /\ r.ln \in DOMAIN mshr
    /\ ReadAlone(r.ln)
    /\ \A n \in Mems : \A s \in readq[n] : s.ln = r.ln => n = m /\ s = r
    /\ r.ln \notin crossed =>
       \/ r.val = Version(r.ln)
       \/ /\ r.val = NoVal /\ InFrame(r.ln) /\ m = TargetMem(r.ln)
          /\ r.fl = TargetLine(r.ln) /\ ~ Has(writeq[m], r.ln)

IInv == /\ TypeOK /\ Funs /\ FrameInv /\ StageInv /\ BufferInv /\ WindowInv
        /\ MigqInv /\ CacheInv /\ ReadInv /\ \A l \in Lines : LineOk(l)

(***************************************************************************)
(* Queues.                                                                 *)
(***************************************************************************)
\* Of some numbers up to n one is the last.
LEMMA LastIndex ==
  ASSUME NEW n \in Nat, NEW Q, Q \subseteq 1..n, Q # {}
  PROVE  \E i \in Q : \A j \in (i+1)..n : j \notin Q
<1> DEFINE T == {k \in 0..n : n - k \in Q}
<1>1. PICK i \in Q : TRUE
  OBVIOUS
<1>2. n - i \in 0..n /\ i = n - (n - i)
  OBVIOUS
<1>3. n - i \in T
  BY <1>2
<1>4. PICK k \in T : \A x \in T : <<x, k>> \notin OpToRel(<, Nat)
  <2>1. \A k \in 0..n : k \in Nat
    OBVIOUS
  <2>2. T \subseteq Nat /\ T # {}
    BY <1>3, <2>1
  <2>3. IsWellFoundedOn(OpToRel(<, Nat), Nat)
    BY NatLessThanWellFounded
  <2> HIDE DEF T
  <2> QED
    BY <2>2, <2>3, WFMin, Zenon
<1>5. k \in 0..n /\ n - k \in Q /\ n - k \in 1..n
  OBVIOUS
<1>6. ASSUME NEW j \in ((n - k) + 1)..n, j \in Q
      PROVE  FALSE
  <2>1. n - j \in 0..n /\ j = n - (n - j) /\ n - j < k /\ k \in Nat
    BY <1>5, <1>6
  <2>2. n - j \in T
    BY <1>6, <2>1
  <2>3. <<n - j, k>> \in OpToRel(<, Nat)
    BY <2>1 DEF OpToRel
  <2> QED
    BY <1>4, <2>2, <2>3
<1> HIDE DEF T
<1> QED
  BY <1>5, <1>6

\* A line that has an entry has a last one.
LEMMA LastExists ==
  ASSUME NEW S, NEW s \in Seq(S), NEW l, Has(s, l)
  PROVE  \E i \in 1..Len(s) : s[i].ln = l /\ \A j \in (i+1)..Len(s) : s[j].ln # l
<1> DEFINE T == {k \in 1..Len(s) : s[k].ln = l}
<1>1. Len(s) \in Nat
  OBVIOUS
<1>2. T \subseteq 1..Len(s) /\ T # {}
  BY DEF Has
<1>3. PICK i \in T : \A j \in (i+1)..Len(s) : j \notin T
  <2> HIDE DEF T
  <2> QED
    BY <1>1, <1>2, LastIndex
<1>4. \A j \in (i+1)..Len(s) : j \in 1..Len(s)
  BY <1>1, <1>2
<1> QED
  BY <1>3, <1>4

\* The last entry is the one that is not followed by another.
LEMMA LastIs ==
  ASSUME NEW S, NEW s \in Seq(S), NEW l, NEW i \in 1..Len(s), s[i].ln = l,
         \A j \in (i+1)..Len(s) : s[j].ln # l
  PROVE  Has(s, l) /\ LastVal(s, l) = s[i].val
<1> DEFINE P(x) == s[x].ln = l /\ \A j \in (x+1)..Len(s) : s[j].ln # l
           c == CHOOSE x \in 1..Len(s) : P(x)
<1>1. c \in 1..Len(s) /\ P(c)
  <2>1. P(i)
    OBVIOUS
  <2> HIDE DEF P
  <2> QED
    BY <2>1
<1>2. LastVal(s, l) = s[c].val
  BY DEF LastVal
<1> HIDE DEF c
<1>3. c = i
  <2>1. Len(s) \in Nat
    OBVIOUS
  <2>2. ~ (c < i) /\ ~ (i < c)
    BY <1>1, <2>1
  <2> QED
    BY <1>1, <2>1, <2>2
<1> QED
  BY <1>2, <1>3 DEF Has

\* What a read is given is the value of one of the writes of its line.
LEMMA LastValType ==
  ASSUME NEW S, NEW s \in Seq(S), NEW l, Has(s, l)
  PROVE  \E e \in S : LastVal(s, l) = e.val /\ e.ln = l
<1>1. PICK i \in 1..Len(s) : s[i].ln = l /\ \A j \in (i+1)..Len(s) : s[j].ln # l
  BY LastExists
<1>2. LastVal(s, l) = s[i].val
  BY <1>1, LastIs
<1> QED
  BY <1>1, <1>2

\* A write joins the queue.
LEMMA AppendQueue ==
  ASSUME NEW S, NEW s \in Seq(S), NEW e \in S, NEW l
  PROVE  /\ Append(s, e) \in Seq(S)
         /\ Has(Append(s, e), l) <=> Has(s, l) \/ e.ln = l
         /\ e.ln = l => LastVal(Append(s, e), l) = e.val
         /\ Has(s, l) /\ e.ln # l => LastVal(Append(s, e), l) = LastVal(s, l)
<1> DEFINE t == Append(s, e)
<1>1. /\ t \in Seq(S) /\ Len(t) = Len(s) + 1 /\ Len(s) \in Nat
      /\ t[Len(t)] = e /\ \A i \in 1..Len(s) : t[i] = s[i]
      /\ \A i \in 1..Len(t) : i \in 1..Len(s) \/ i = Len(t)
      /\ Len(t) \in 1..Len(t) /\ 1..Len(s) \subseteq 1..Len(t)
  OBVIOUS
<1> HIDE DEF t
<1>2. Has(t, l) <=> Has(s, l) \/ e.ln = l
  BY <1>1 DEF Has
<1>3. ASSUME e.ln = l
      PROVE  LastVal(t, l) = e.val
  <2>1. \A j \in (Len(t) + 1)..Len(t) : FALSE
    BY <1>1
  <2> QED
    BY <1>1, <1>3, <2>1, LastIs
<1>4. ASSUME Has(s, l), e.ln # l
      PROVE  LastVal(t, l) = LastVal(s, l)
  <2>1. PICK i \in 1..Len(s) : s[i].ln = l /\ \A j \in (i+1)..Len(s) : s[j].ln # l
    BY <1>4, LastExists
  <2>2. \A j \in (i+1)..Len(t) : t[j].ln # l
    BY <1>1, <1>4, <2>1
  <2>3. LastVal(s, l) = s[i].val
    BY <2>1, LastIs
  <2>4. i \in 1..Len(t) /\ t[i] = s[i]
    BY <1>1
  <2>5. LastVal(t, l) = t[i].val
    BY <1>1, <2>1, <2>2, <2>4, LastIs
  <2> QED
    BY <2>3, <2>4, <2>5
<1> QED
  BY <1>1, <1>2, <1>3, <1>4 DEF t

\* A write of the line itself keeps the queue in order, and so does one to another
\* frame.
LEMMA AppendOrder ==
  ASSUME NEW S, NEW s \in Seq(S), NEW e \in S, NEW l, NEW fl,
         \/ /\ e.ln = l /\ e.fl = fl
            /\ \A i \in 1..Len(s) : s[i].ln = l => s[i].fl = fl
         \/ e.ln # l /\ e.fl # fl /\ QueueOk(s, l, fl)
  PROVE  QueueOk(Append(s, e), l, fl)
<1> DEFINE t == Append(s, e)
<1>1. /\ t \in Seq(S) /\ Len(t) = Len(s) + 1 /\ Len(s) \in Nat
      /\ t[Len(t)] = e /\ \A i \in 1..Len(s) : t[i] = s[i]
      /\ \A i \in 1..Len(t) : i \in 1..Len(s) \/ i = Len(t)
      /\ \A i \in 1..Len(t) : Len(t) \in i..Len(t) /\ i..Len(s) \subseteq i..Len(t)
      /\ \A i \in 1..Len(s) : i..Len(s) \subseteq 1..Len(s)
  OBVIOUS
<1> HIDE DEF t
<1>2. CASE e.ln = l
  BY <1>1, <1>2 DEF QueueOk
<1>3. CASE e.ln # l
  <2> SUFFICES ASSUME NEW i \in 1..Len(t)
               PROVE  /\ t[i].ln = l => t[i].fl = fl
                      /\ t[i].fl = fl => \E j \in i..Len(t) : t[j].ln = l
    BY DEF QueueOk, t
  <2>1. CASE i = Len(t)
    BY <1>1, <1>3, <2>1
  <2>2. CASE i \in 1..Len(s)
    <3>1. /\ s[i].ln = l => s[i].fl = fl
          /\ s[i].fl = fl => \E j \in i..Len(s) : s[j].ln = l
      BY <1>3, <2>2 DEF QueueOk
    <3> QED
      BY <1>1, <2>2, <3>1
  <2> QED
    BY <1>1, <2>1, <2>2
<1> QED
  BY <1>2, <1>3 DEF t

\* A write is served: the line that is at fl has the same value as before.
LEMMA ServeQueue ==
  ASSUME NEW S, NEW s \in Seq(S), NEW i \in 1..Len(s),
         \A j \in 1..(i-1) : s[j].fl # s[i].fl,
         NEW c, NEW d, NEW l, NEW fl, QueueOk(s, l, fl),
         d[fl] = IF s[i].fl = fl THEN s[i].val ELSE c[fl]
  PROVE  LET t == RemoveAt(s, i)
         IN  /\ t \in Seq(S) /\ QueueOk(t, l, fl)
             /\ Store(t, d, l, fl) = Store(s, c, l, fl)
             /\ ~ Has(s, l) => ~ Has(t, l) /\ d[fl] = c[fl]
<1> DEFINE t == RemoveAt(s, i)
           n == Len(s)
<1>1. n \in Nat /\ i \in 1..n
  OBVIOUS
<1>2. /\ t \in Seq(S) /\ Len(t) = n - 1
      /\ \A k \in 1..(n - 1) : t[k] = IF k < i THEN s[k] ELSE s[k + 1]
  BY RemoveAtProps
<1> DEFINE New(k) == IF k < i THEN k ELSE k - 1
           Old(k) == IF k < i THEN k ELSE k + 1
<1>3. \A k \in 1..n : k # i => New(k) \in 1..Len(t) /\ t[New(k)] = s[k]
  BY <1>1, <1>2
<1>4. \A k \in 1..Len(t) : Old(k) \in 1..n /\ Old(k) # i /\ t[k] = s[Old(k)]
  BY <1>1, <1>2
<1>5. \A k, j \in 1..n : k < j /\ k # i /\ j # i => New(k) < New(j)
  BY <1>1
<1>6. \A k, j \in 1..Len(t) : k < j => Old(k) < Old(j)
  BY <1>1, <1>2
<1>7. \A k \in 1..n : k # i => Old(New(k)) = k
  BY <1>1
<1>8. \A k \in 1..Len(t) : New(Old(k)) = k
  BY <1>1, <1>2
<1>9. /\ \A k \in 1..n : s[k].ln = l => s[k].fl = fl
      /\ \A k \in 1..n : s[k].fl = fl => \E j \in k..n : s[j].ln = l
  BY DEF QueueOk
<1>10. d[fl] = IF s[i].fl = fl THEN s[i].val ELSE c[fl]
  OBVIOUS
<1> HIDE DEF t, New, Old, n
<1>11. QueueOk(t, l, fl)
  <2> SUFFICES ASSUME NEW k \in 1..Len(t)
               PROVE  /\ t[k].ln = l => t[k].fl = fl
                      /\ t[k].fl = fl => \E j \in k..Len(t) : t[j].ln = l
    BY DEF QueueOk
  <2>1. t[k].ln = l => t[k].fl = fl
    BY <1>4, <1>9
  <2>2. ASSUME t[k].fl = fl
        PROVE  \E j \in k..Len(t) : t[j].ln = l
    <3>1. PICK j \in Old(k)..n : s[j].ln = l
      BY <1>4, <1>9, <2>2
    <3>2. j # i
      <4>1. Old(k) \in 1..n /\ Old(k) # i /\ s[Old(k)].fl = fl
        BY <1>4, <2>2
      <4>2. j = i => s[i].fl = fl /\ Old(k) \in 1..(i - 1)
        BY <1>1, <1>9, <3>1, <4>1
      <4> QED
        BY <4>1, <4>2
    <3>3. j \in 1..n /\ New(j) \in 1..Len(t) /\ t[New(j)] = s[j]
      BY <1>1, <1>3, <1>4, <3>1, <3>2
    <3>4. New(j) >= k
      <4>1. CASE j = Old(k)
        BY <1>8, <4>1
      <4>2. CASE j # Old(k)
        <5>1. Old(k) < j /\ Old(k) # i /\ Old(k) \in 1..n
          BY <1>1, <1>4, <3>1, <4>2
        <5>2. New(Old(k)) < New(j)
          BY <1>5, <3>2, <3>3, <5>1
        <5> QED
          BY <1>8, <3>3, <5>2
      <4> QED
        BY <4>1, <4>2
    <3> QED
      BY <1>1, <1>2, <3>1, <3>3, <3>4
  <2> QED
    BY <2>1, <2>2
<1>12. ASSUME ~ Has(s, l)
       PROVE  ~ Has(t, l) /\ d[fl] = c[fl]
  <2>1. ~ Has(t, l)
    BY <1>4, <1>12 DEF Has, n
  <2>2. s[i].fl # fl
    <3>1. \A j \in i..n : j \in 1..n
      BY <1>1
    <3> QED
      BY <1>1, <1>9, <1>12, <3>1 DEF Has, n
  <2> QED
    BY <1>10, <2>1, <2>2
<1>13. ASSUME Has(s, l)
       PROVE  Store(t, d, l, fl) = Store(s, c, l, fl)
  <2>1. PICK k \in 1..n : s[k].ln = l /\ \A j \in (k+1)..n : s[j].ln # l
    BY <1>13, LastExists DEF n
  <2>2. LastVal(s, l) = s[k].val
    BY <2>1, LastIs DEF n
  <2>3. CASE k # i
    <3>1. New(k) \in 1..Len(t) /\ t[New(k)] = s[k]
      BY <1>3, <2>3
    <3>2. ASSUME NEW j \in (New(k) + 1)..Len(t)
          PROVE  t[j].ln # l
      <4>1. j \in 1..Len(t) /\ New(k) < j
        BY <1>1, <1>2, <3>1
      <4>2. Old(j) > k /\ Old(j) \in 1..n
        BY <1>4, <1>6, <1>7, <2>3, <3>1, <4>1
      <4>3. Old(j) \in (k+1)..n
        BY <1>1, <4>2
      <4> QED
        BY <1>4, <2>1, <4>1, <4>3
    <3>3. LastVal(t, l) = s[k].val /\ Has(t, l)
      <4>1. t[New(k)].ln = l /\ t[New(k)].val = s[k].val
        BY <2>1, <3>1
      <4> QED
        BY <1>2, <3>1, <3>2, <4>1, LastIs
    <3> QED
      BY <1>13, <2>2, <3>3 DEF Store
  <2>4. CASE k = i
    <3>1. ~ Has(t, l)
      <4>1. ASSUME NEW j \in 1..Len(t), t[j].ln = l
            PROVE  FALSE
        <5>1. Old(j) \in 1..n /\ Old(j) # i /\ s[Old(j)].ln = l
          BY <1>4, <4>1
        <5>2. Old(j) \in 1..(i-1)
          BY <1>1, <2>1, <2>4, <5>1
        <5>3. s[Old(j)].fl = fl /\ s[i].fl = fl
          BY <1>9, <2>1, <2>4, <5>1
        <5> QED
          BY <5>2, <5>3
      <4> QED
        BY <4>1 DEF Has
    <3>2. d[fl] = s[i].val
      BY <1>9, <1>10, <2>1, <2>4
    <3> QED
      BY <1>13, <2>2, <2>4, <3>1, <3>2 DEF Store
  <2> QED
    BY <2>3, <2>4
<1>14. Store(t, d, l, fl) = Store(s, c, l, fl)
  BY <1>12, <1>13 DEF Store
<1> QED
  BY <1>2, <1>11, <1>12, <1>14 DEF t

(***************************************************************************)
(* The types of the entries.                                               *)
(***************************************************************************)
WinEntries == [ln : Lines, mem : Mems, ready : BOOLEAN, val : Vals \cup {NoVal}]
Writes(m) == [ln : Lines, off : Offsets, fl : FrameLines(m), val : Vals]
Requests == [type : {"READ", "WRITE"}, ln : Lines, off : Offsets, val : Vals \cup {NoVal}]

\* What TypeOK says of the queues.
LEMMA QueueTypes ==
  ASSUME TypeOK
  PROVE  /\ mig_window \in Seq(WinEntries)
         /\ wait_list \in Seq(Requests)
         /\ \A m \in Mems : /\ migq[m] \subseteq MigReads(m) /\ readq[m] \subseteq MigReads(m)
                           /\ writeq[m] \in Seq(Writes(m))
                           /\ mem[m] \in [FrameLines(m) -> Vals]
BY DEF TypeOK, WinEntries, Requests, Writes

\* ... and of their entries.
LEMMA EntryTypes ==
  ASSUME TypeOK
  PROVE  /\ \A i \in 1..Len(mig_window) :
              /\ mig_window[i].ln \in Lines /\ mig_window[i].mem \in Mems
              /\ mig_window[i].ready \in BOOLEAN
              /\ mig_window[i].val \in Vals \cup {NoVal}
         /\ \A i \in 1..Len(wait_list) :
              /\ wait_list[i].type \in {"READ", "WRITE"} /\ wait_list[i].ln \in Lines
              /\ wait_list[i].off \in Offsets
              /\ wait_list[i].val \in Vals \cup {NoVal}
         /\ \A m \in Mems :
              /\ \A r \in migq[m] : r.ln \in Lines /\ r.fl \in FrameLines(m)
                                   /\ r.val \in Vals \cup {NoVal}
              /\ \A r \in readq[m] : r.ln \in Lines /\ r.fl \in FrameLines(m)
                                    /\ r.val \in Vals \cup {NoVal}
              /\ \A i \in 1..Len(writeq[m]) :
                   /\ writeq[m][i].ln \in Lines /\ writeq[m][i].fl \in FrameLines(m)
                   /\ writeq[m][i].val \in Vals
<1>1. ASSUME NEW i \in 1..Len(mig_window)
      PROVE  mig_window[i] \in WinEntries
  BY QueueTypes
<1>2. ASSUME NEW i \in 1..Len(wait_list)
      PROVE  wait_list[i] \in Requests
  BY QueueTypes
<1>3. ASSUME NEW m \in Mems, NEW i \in 1..Len(writeq[m])
      PROVE  writeq[m][i] \in Writes(m)
  BY QueueTypes
<1>4. ASSUME NEW m \in Mems
      PROVE  migq[m] \subseteq MigReads(m) /\ readq[m] \subseteq MigReads(m)
  BY QueueTypes
<1>5. /\ \A e \in WinEntries : /\ e.ln \in Lines /\ e.mem \in Mems /\ e.ready \in BOOLEAN
                               /\ e.val \in Vals \cup {NoVal}
      /\ \A e \in Requests : /\ e.type \in {"READ", "WRITE"} /\ e.ln \in Lines /\ e.off \in Offsets
                             /\ e.val \in Vals \cup {NoVal}
  BY DEF WinEntries, Requests
<1>6. ASSUME NEW m \in Mems
      PROVE  /\ \A e \in Writes(m) : e.ln \in Lines /\ e.fl \in FrameLines(m) /\ e.val \in Vals
             /\ \A e \in MigReads(m) : /\ e.ln \in Lines /\ e.fl \in FrameLines(m)
                                      /\ e.val \in Vals \cup {NoVal}
  BY DEF Writes, MigReads
<1> QED
  BY <1>1, <1>2, <1>3, <1>4, <1>5, <1>6

\* What a read is given that finds the last write of its line, if there is one, under
\* its own address.
LEMMA ForwardedIs ==
  ASSUME TypeOK, NEW m \in Mems, NEW l, NEW off
  PROVE  /\ LineQueued(m, l) <=> Has(writeq[m], l)
         /\ Has(writeq[m], l) => LastOfLine(m, l).val = LastVal(writeq[m], l)
         /\ Forwarded(m, l, off) \in Vals \cup {NoVal}
         /\ ~ Misses(m, l, off) =>
              Forwarded(m, l, off) = IF Has(writeq[m], l) THEN LastVal(writeq[m], l) ELSE NoVal
<1> DEFINE s == writeq[m]
           LastFor(i) == IsFor(s[i], l, off) /\ \A j \in (i+1)..Len(s) : ~ IsFor(s[j], l, off)
           c == CHOOSE i \in 1..Len(s) : LastFor(i)
<1>1. s \in Seq(Writes(m)) /\ \A i \in 1..Len(s) : s[i].val \in Vals
  BY QueueTypes, EntryTypes
<1>2. LineQueued(m, l) <=> Has(s, l)
  BY DEF LineQueued, Has
<1>3. LastOfLine(m, l).val = LastVal(s, l)
  BY DEF LastOfLine, LastVal
<1>4. Forwarded(m, l, off) = IF Queued(m, l, off) THEN s[c].val ELSE NoVal
  BY DEF Forwarded
<1>5. ASSUME Queued(m, l, off)
      PROVE  s[c].val \in Vals
  <2> DEFINE T == {k \in 1..Len(s) : IsFor(s[k], l, off)}
  <2>1. PICK i \in T : \A j \in (i+1)..Len(s) : j \notin T
    <3>1. T \subseteq 1..Len(s) /\ T # {} /\ Len(s) \in Nat
      BY <1>1, <1>5 DEF Queued
    <3> HIDE DEF T
    <3> QED
      BY <3>1, LastIndex
  <2>2. i \in 1..Len(s) /\ LastFor(i)
    <3>1. i \in 1..Len(s) /\ \A j \in (i+1)..Len(s) : j \in 1..Len(s)
      BY <1>1
    <3> QED
      BY <2>1, <3>1
  <2> HIDE DEF LastFor
  <2>3. c \in 1..Len(s)
    BY <2>2
  <2> QED
    BY <1>1, <2>3
<1>6. ASSUME ~ Misses(m, l, off), Has(s, l)
      PROVE  Forwarded(m, l, off) = LastVal(s, l)
  <2>1. PICK i \in 1..Len(s) : s[i].ln = l /\ \A j \in (i+1)..Len(s) : s[j].ln # l
    BY <1>1, <1>6, LastExists
  <2>2. LastOfLine(m, l) = s[i] /\ LastVal(s, l) = s[i].val
    <3>1. LastVal(s, l) = s[i].val
      BY <1>1, <2>1, LastIs
    <3>2. LastOfLine(m, l) = s[i]
      <4> DEFINE P(x) == s[x].ln = l /\ \A j \in (x+1)..Len(s) : s[j].ln # l
                 d == CHOOSE x \in 1..Len(s) : P(x)
      <4>1. d \in 1..Len(s) /\ P(d)
        <5>1. P(i)
          BY <2>1
        <5> HIDE DEF P
        <5> QED
          BY <5>1
      <4>2. LastOfLine(m, l) = s[d]
        BY DEF LastOfLine
      <4> HIDE DEF d
      <4>3. Len(s) \in Nat
        BY <1>1
      <4>4. ~ (d < i) /\ ~ (i < d)
        BY <2>1, <4>1, <4>3
      <4> QED
        BY <4>1, <4>2, <4>3, <4>4
    <3> QED
      BY <3>1, <3>2
  <2>3. s[i].off = off
    BY <1>2, <1>6, <2>2 DEF Misses
  <2>4. Queued(m, l, off) /\ LastFor(i)
    BY <2>1, <2>3 DEF Queued, IsFor
  <2>5. c = i
    <3>1. c \in 1..Len(s) /\ LastFor(c)
      <4>1. i \in 1..Len(s) /\ LastFor(i)
        BY <2>4
      <4> HIDE DEF LastFor
      <4> QED
        BY <4>1
    <3> HIDE DEF c
    <3>2. Len(s) \in Nat
      BY <1>1
    <3>3. ~ (c < i) /\ ~ (i < c)
      BY <2>4, <3>1, <3>2
    <3> QED
      BY <3>1, <3>2, <3>3
  <2> QED
    BY <1>4, <2>2, <2>4, <2>5
<1>7. ASSUME ~ Has(s, l)
      PROVE  Forwarded(m, l, off) = NoVal
  BY <1>4, <1>7 DEF Queued, Has, IsFor
<1> QED
  BY <1>2, <1>3, <1>4, <1>5, <1>6, <1>7

(***************************************************************************)
(* Places.                                                                 *)
(***************************************************************************)
\* Only the pages of the migration under way are on the move, each from its memory.
LEMMA MovedIs ==
  ASSUME TypeOK, FrameInv
  PROVE  /\ \A l : MovedFrom(l) \in {"none", "l1m", "l2m"}
         /\ \A l : MovedFrom(l) # "none" => MovedFrom(l) = dom[l[1]] /\ mig_status \notin {0, 203}
         /\ \A l : MovedFrom(l) = "l2m" <=> mig_status \notin {0, 203} /\ l[1] = hot_pg_num
         /\ \A l : MovedFrom(l) = "l1m" <=> /\ mig_status \notin {0, 203}
                                            /\ mig_type = 2 /\ l[1] = cold_pg_num
BY NoneAssumption DEF TypeOK, FrameInv, MovedFrom, Mems

\* A line that has been written away belongs to a page whose lines all have been read.
LEMMA AwayIs ==
  ASSUME TypeOK, FrameInv, BufferInv
  PROVE  /\ \A l : InBuffer(l, 2) => mig_status \in {4, 5} /\ ~ InBuffer(l, 1)
         /\ \A l \in Lines : mig_status \in {4, 5} /\ MovedFrom(l) # "none" =>
                               InBuffer(l, 1) \/ InBuffer(l, 2)
         /\ \A l \in Lines : mig_status = 5 /\ MovedFrom(l) # "none" => InBuffer(l, 2)
         /\ mig_status = 0 => \A l : InFrame(l) /\ ~ InBuffer(l, 2)
<1>1. \A l : MovedFrom(l) \in {"none", "l1m", "l2m"}
  BY MovedIs
<1>2. \A m \in Mems : \A l \in DOMAIN buffer[m] : buffer[m][l].st \in {1, 2}
  BY DEF TypeOK, BufEntry
<1>3. mig_status \in {0, 203, 1, 2} => \A m \in Mems : DOMAIN buffer[m] = {}
  BY DEF BufferInv
<1>4. /\ \A m \in Mems : \A l \in DOMAIN buffer[m] :
           /\ mig_status = 3 => buffer[m][l].st = 1
           /\ mig_status = 5 => buffer[m][l].st = 2
      /\ mig_status \in {4, 5} =>
           \A l \in Lines : MovedFrom(l) # "none" => l \in DOMAIN buffer[MovedFrom(l)]
  BY DEF BufferInv
<1>5. mig_status \in {0, 1, 2, 3, 4, 5, 203}
  BY DEF TypeOK
<1> QED
  BY <1>1, <1>2, <1>3, <1>4, <1>5 DEF InBuffer, InFrame, Mems

\* Where the requests of a line go.
LEMMA TargetIs ==
  ASSUME TypeOK, FrameInv, BufferInv, NEW l \in Lines
  PROVE  /\ l[1] \in Pages /\ l[2] \in LineNums
         /\ TargetMem(l) \in Mems /\ TargetLine(l) \in FrameLines(TargetMem(l))
         /\ ~ InBuffer(l, 2) => /\ TargetMem(l) = dom[l[1]]
                                /\ TargetLine(l) = <<frame_addr[l[1]], l[2]>>
         /\ InBuffer(l, 2) /\ MovedFrom(l) = "l2m" =>
              TargetMem(l) = "l1m" /\ TargetLine(l) = <<cold_frame_addr, l[2]>>
         /\ InBuffer(l, 2) /\ MovedFrom(l) = "l1m" =>
              TargetMem(l) = "l2m" /\ TargetLine(l) = <<hot_frame_addr, l[2]>>
         /\ InBuffer(l, 2) => MovedFrom(l) \in Mems
<1>1. l[1] \in Pages /\ l[2] \in LineNums
  BY DEF Lines
<1>2. /\ MovedFrom(l) \in {"none", "l1m", "l2m"}
      /\ MovedFrom(l) # "none" => MovedFrom(l) = dom[l[1]] /\ mig_status \notin {0, 203}
      /\ MovedFrom(l) = "l1m" => mig_type = 2
  BY MovedIs
<1>3. InBuffer(l, 2) => MovedFrom(l) \in Mems
  BY <1>2 DEF InBuffer, Mems
<1>4. /\ dom[l[1]] \in Mems /\ frame_addr[l[1]] \in Frames(dom[l[1]])
      /\ MovedFrom(l) # "none" => cold_frame_addr \in Frames("l1m")
      /\ MovedFrom(l) = "l1m" => hot_frame_addr \in Frames("l2m")
  <2>1. dom[l[1]] \in Mems /\ frame_addr[l[1]] \in Frames(dom[l[1]])
    BY <1>1 DEF TypeOK, FrameInv
  <2>2. MovedFrom(l) # "none" => cold_frame_addr \in Frames("l1m")
    BY <1>2 DEF FrameInv, Frames
  <2>3. MovedFrom(l) = "l1m" => hot_frame_addr \in Frames("l2m")
    BY <1>2 DEF FrameInv, Frames
  <2> QED
    BY <2>1, <2>2, <2>3
<1>5. CASE ~ InBuffer(l, 2)
  BY <1>1, <1>4, <1>5 DEF TargetMem, TargetLine, WrittenAway, FrameLines
<1>6. CASE InBuffer(l, 2)
  <2>1. CASE MovedFrom(l) = "l2m"
    BY <1>1, <1>4, <1>6, <2>1 DEF TargetMem, TargetLine, WrittenAway, FrameLines, Mems
  <2>2. CASE MovedFrom(l) = "l1m"
    BY <1>1, <1>4, <1>6, <2>2 DEF TargetMem, TargetLine, WrittenAway, FrameLines, Mems
  <2> QED
    BY <1>1, <1>3, <1>6, <2>1, <2>2 DEF Mems
<1> QED
  BY <1>5, <1>6

\* The requests of two lines that are in frames never go to the same place.
Apart == \A l, k \in Lines : /\ InFrame(l) /\ InFrame(k)
                             /\ TargetMem(l) = TargetMem(k) /\ TargetLine(l) = TargetLine(k)
                             => l = k

\* An address belongs to one line, as every page has a frame of its own.
LEMMA Injective == TypeOK /\ FrameInv /\ BufferInv => Apart
<1> SUFFICES ASSUME TypeOK, FrameInv, BufferInv, NEW l \in Lines, NEW k \in Lines,
                    InFrame(l), InFrame(k),
                    TargetMem(l) = TargetMem(k), TargetLine(l) = TargetLine(k)
             PROVE  l = k
  BY DEF Apart
<1>1. l = <<l[1], l[2]>> /\ k = <<k[1], k[2]>> /\ l[1] \in Pages /\ k[1] \in Pages
  BY DEF Lines
<1>2. \A p, q \in Pages : dom[p] = dom[q] /\ frame_addr[p] = frame_addr[q] => p = q
  BY DEF FrameInv
<1>3. \A x, y \in Lines : /\ InBuffer(x, 2) /\ InFrame(y) /\ ~ InBuffer(y, 2)
                          => TargetMem(x) # TargetMem(y) \/ TargetLine(x) # TargetLine(y)
  <2> SUFFICES ASSUME NEW x \in Lines, NEW y \in Lines, InBuffer(x, 2),
                      InFrame(y), ~ InBuffer(y, 2),
                      TargetMem(x) = TargetMem(y), TargetLine(x) = TargetLine(y)
               PROVE  FALSE
    OBVIOUS
  <2>1. mig_status \in {4, 5} /\ MovedFrom(y) = "none"
    BY AwayIs DEF InFrame
  <2>2. y[1] \in Pages /\ TargetMem(y) = dom[y[1]] /\ TargetLine(y) = <<frame_addr[y[1]], y[2]>>
    BY TargetIs
  <2>3. CASE MovedFrom(x) = "l2m"
    <3>1. TargetMem(x) = "l1m" /\ TargetLine(x) = <<cold_frame_addr, x[2]>>
      BY <2>3, TargetIs
    <3>2. dom[y[1]] = "l1m" /\ frame_addr[y[1]] = cold_frame_addr
      BY <2>2, <3>1
    <3>3. mig_type = 2 /\ cold_pg_num \in Pages /\ dom[cold_pg_num] = "l1m"
          /\ cold_frame_addr = frame_addr[cold_pg_num]
      BY <2>1, <2>2, <3>2 DEF FrameInv
    <3>4. y[1] = cold_pg_num
      BY <1>2, <2>2, <3>2, <3>3
    <3>5. MovedFrom(y) = "l1m"
      BY <2>1, <3>3, <3>4, MovedIs
    <3> QED
      BY <2>1, <3>5
  <2>4. CASE MovedFrom(x) = "l1m"
    <3>1. TargetMem(x) = "l2m" /\ TargetLine(x) = <<hot_frame_addr, x[2]>>
      BY <2>4, TargetIs
    <3>2. dom[y[1]] = "l2m" /\ frame_addr[y[1]] = hot_frame_addr
      BY <2>2, <3>1
    <3>3. hot_pg_num \in Pages /\ dom[hot_pg_num] = "l2m"
          /\ hot_frame_addr = frame_addr[hot_pg_num]
      BY <2>1 DEF FrameInv
    <3>4. y[1] = hot_pg_num
      BY <1>2, <2>2, <3>2, <3>3
    <3>5. MovedFrom(y) = "l2m"
      BY <2>1, <3>4, MovedIs
    <3> QED
      BY <2>1, <3>5
  <2> QED
    BY <2>3, <2>4, TargetIs DEF Mems
<1>4. CASE InBuffer(l, 2) /\ InBuffer(k, 2)
  <2>1. MovedFrom(l) \in Mems /\ MovedFrom(k) \in Mems
    BY <1>4, TargetIs
  <2>2. CASE MovedFrom(l) = MovedFrom(k)
    <3>1. l[1] = k[1]
      BY <2>1, <2>2, MovedIs DEF Mems
    <3>2. l[2] = k[2]
      BY <1>4, <2>1, <2>2, TargetIs DEF Mems
    <3> QED
      BY <1>1, <3>1, <3>2
  <2>3. CASE MovedFrom(l) # MovedFrom(k)
    BY <1>4, <2>1, <2>3, TargetIs DEF Mems
  <2> QED
    BY <2>2, <2>3
<1>5. CASE ~ InBuffer(l, 2) /\ ~ InBuffer(k, 2)
  <2>1. /\ TargetMem(l) = dom[l[1]] /\ TargetLine(l) = <<frame_addr[l[1]], l[2]>>
        /\ TargetMem(k) = dom[k[1]] /\ TargetLine(k) = <<frame_addr[k[1]], k[2]>>
    BY <1>5, TargetIs
  <2>2. /\ dom[l[1]] = dom[k[1]]
        /\ <<frame_addr[l[1]], l[2]>> = <<frame_addr[k[1]], k[2]>>
    BY <2>1
  <2>3. l[1] \in Pages /\ k[1] \in Pages
    BY <1>1
  <2>4. l[1] = k[1] /\ l[2] = k[2]
    BY <1>2, <2>2, <2>3
  <2> QED
    BY <1>1, <2>4
<1> QED
  BY <1>3, <1>4, <1>5

\* A step leaves line l where its requests find it, and what the migration has done
\* to it as well.
Placed(l) == /\ InFrame(l)' = InFrame(l)
             /\ TargetMem(l)' = TargetMem(l) /\ TargetLine(l)' = TargetLine(l)
Stay(l) == /\ MovedFrom(l)' = MovedFrom(l)
           /\ InBuffer(l, 1)' = InBuffer(l, 1) /\ InBuffer(l, 2)' = InBuffer(l, 2)
           /\ InFrame(l)' = InFrame(l)
           /\ TargetMem(l)' = TargetMem(l) /\ TargetLine(l)' = TargetLine(l)

\* A step that moves no page, and leaves the lines in the buffers what they are,
\* leaves every line where it is.
LEMMA PlacesStay ==
  ASSUME UNCHANGED <<dom, frame_addr, selVars>>, NEW l,
         mig_status' \in {0, 203} <=> mig_status \in {0, 203},
         \A st \in {1, 2} : InBuffer(l, st)' <=> InBuffer(l, st)
  PROVE  Stay(l)
<1>1. MovedFrom(l)' = MovedFrom(l)
  BY DEF MovedFrom, selVars
<1>2. InBuffer(l, 1)' = InBuffer(l, 1) /\ InBuffer(l, 2)' = InBuffer(l, 2)
  BY DEF InBuffer
<1>3. WrittenAway(l)' = WrittenAway(l)
  BY <1>2 DEF WrittenAway
<1>4. TargetMem(l)' = TargetMem(l) /\ TargetLine(l)' = TargetLine(l)
  BY <1>1, <1>3 DEF TargetMem, TargetLine, selVars
<1> QED
  BY <1>1, <1>2, <1>4 DEF InFrame, Stay

\* ... above all a step that leaves the buffers alone.
LEMMA BufferStays ==
  ASSUME UNCHANGED <<dom, frame_addr, selVars, buffer>>, NEW l,
         mig_status' \in {0, 203} <=> mig_status \in {0, 203}
  PROVE  Stay(l)
<1>1. MovedFrom(l)' = MovedFrom(l)
  BY DEF MovedFrom, selVars
<1>2. \A st \in {1, 2} : InBuffer(l, st)' <=> InBuffer(l, st)
  BY <1>1 DEF InBuffer
<1> QED
  BY <1>2, PlacesStay

\* The places of its requests do not change then.
LEMMA StayPlaced == \A l : Stay(l) => Placed(l)
BY DEF Stay, Placed

\* Nothing is queued or written: the line has the same value.
LEMMA HomeStays ==
  ASSUME NEW l, Stay(l), UNCHANGED <<writeq, mem, buffer>>
  PROVE  Home(l)' = Home(l)
BY DEF Stay, Home, Store, InFrame

(***************************************************************************)
(* The steps of the memories and of the cache leave the migration alone.   *)
(***************************************************************************)
\* A line is read, or waits for it, while all its demand requests are kept.
LEMMA WindowHeld ==
  ASSUME TypeOK, WindowInv, NEW i \in 1..Len(mig_window)
  PROVE  /\ mig_window[i].ln \in Lines /\ mig_window[i].mem \in Mems
         /\ Kept(mig_window[i].ln)
         /\ InFrame(mig_window[i].ln) /\ ~ InBuffer(mig_window[i].ln, 2)
<1>1. mig_window[i].ln \in Lines /\ mig_window[i].mem \in Mems
  BY EntryTypes
<1>2. /\ MovedFrom(mig_window[i].ln) = mig_window[i].mem
      /\ mig_window[i].ln \notin DOMAIN buffer[mig_window[i].mem]
  BY DEF WindowInv
<1> QED
  BY <1>1, <1>2 DEF Kept, InFrame, InBuffer, Mems

\* The pages, the staging queues and the buffers of a step that moves no line.
LEMMA MigrationAlone ==
  ASSUME TypeOK, Funs, FrameInv, StageInv, BufferInv,
         UNCHANGED <<pageVars, mig_status, selVars, stageVars>>,
         \A m \in Mems : /\ DOMAIN buffer'[m] = DOMAIN buffer[m]
                         /\ \A l \in DOMAIN buffer[m] : buffer'[m][l].st = buffer[m][l].st,
         mig_status \in {0, 203, 1, 2} => UNCHANGED buffer
  PROVE  FrameInv' /\ StageInv' /\ BufferInv' /\ \A l : Stay(l)
<1> USE DEF pageVars, selVars, stageVars
<1>1. \A l : MovedFrom(l)' = MovedFrom(l)
  BY DEF MovedFrom
<1>2. \A l : Stay(l)
  <2> TAKE l
  <2>1. \A st \in {1, 2} : InBuffer(l, st)' <=> InBuffer(l, st)
    <3>1. CASE MovedFrom(l) = "none"
      BY <1>1, <3>1 DEF InBuffer
    <3>2. CASE MovedFrom(l) \in Mems
      BY <1>1, <3>2 DEF InBuffer
    <3> QED
      BY <3>1, <3>2, MovedIs DEF Mems
  <2> QED
    BY <2>1, PlacesStay
<1>3. FrameInv'
  BY DEF FrameInv
<1>4. StageInv'
  BY DEF StageInv, Rest
<1>5. BufferInv'
  <2>1. Lines' = Lines
    BY DEF Lines, LineNums
  <2>2. \A l : Away(l)' <=> Away(l)
    BY <1>1 DEF Away
  <2>3. (\A m \in Mems : \A l \in DOMAIN buffer[m] : l \in Lines /\ MovedFrom(l) = m)'
    BY <1>1, <2>1 DEF BufferInv
  <2>4. (mig_status \in {0, 203, 1, 2} => \A m \in Mems : buffer[m] = <<>>)'
    BY DEF BufferInv
  <2>5. (\A m \in Mems : \A l \in DOMAIN buffer[m] :
           /\ mig_status = 3 => buffer[m][l].st = 1
           /\ mig_status = 4 => (buffer[m][l].st = 2 <=> Away(l))
           /\ mig_status = 5 => buffer[m][l].st = 2)'
    BY <2>2 DEF BufferInv
  <2>6. (mig_status \in {4, 5} =>
           \A l \in Lines : MovedFrom(l) # "none" => l \in DOMAIN buffer[MovedFrom(l)])'
    <3>1. \A l : MovedFrom(l) \in {"none", "l1m", "l2m"}
      BY MovedIs
    <3> QED
      BY <1>1, <2>1, <3>1 DEF BufferInv, Mems
  <2> QED
    BY <2>3, <2>4, <2>5, <2>6 DEF BufferInv
<1> QED
  BY <1>2, <1>3, <1>4, <1>5

\* What the reads of the migration return does not change either.
LEMMA WindowAlone ==
  ASSUME TypeOK, FrameInv, WindowInv, MigqInv,
         UNCHANGED <<pageVars, mig_status, selVars, stageVars, mig_window, migq>>,
         \A l : Stay(l),
         \A m \in Mems : DOMAIN buffer'[m] = DOMAIN buffer[m],
         crossed \subseteq crossed',
         \A l \in Lines : Kept(l) =>
           /\ Home(l)' = Home(l)
           /\ \A m \in Mems : ~ Has(writeq[m], l) => ~ Has(writeq'[m], l)
  PROVE  WindowInv' /\ MigqInv'
<1> USE DEF pageVars, selVars, stageVars
<1>1. Lines' = Lines /\ Vals' = Vals
  BY DEF Lines, LineNums, Vals
<1>2. \A l : MovedFrom(l)' = MovedFrom(l) /\ TargetLine(l)' = TargetLine(l)
  BY DEF Stay
<1>3. \A l : Unread(l)' <=> Unread(l)
  BY <1>2 DEF Unread
<1>4. \A i \in 1..Len(mig_window) : /\ mig_window[i].ln \in Lines /\ mig_window[i].mem \in Mems
                                    /\ Kept(mig_window[i].ln)
  BY WindowHeld
<1>5. WindowInv'
  <2>1. (mig_status \notin {1, 3} => mig_window = <<>>)'
    BY DEF WindowInv
  <2>2. (mig_status = 1 => \A i \in 1..Len(mig_window) : ~ mig_window[i].ready)'
    BY DEF WindowInv
  <2>3. (\A i \in 1..Len(mig_window) :
           LET w == mig_window[i]
           IN  /\ MovedFrom(w.ln) = w.mem /\ ~ Unread(w.ln)
               /\ w.ln \notin DOMAIN buffer[w.mem]
               /\ w.ready => w.val \in Vals /\ (w.ln \notin crossed => w.val = Home(w.ln)))'
    BY <1>1, <1>2, <1>3, <1>4 DEF WindowInv
  <2>4. (\A i, j \in 1..Len(mig_window) : mig_window[i].ln = mig_window[j].ln => i = j)'
    BY DEF WindowInv
  <2>5. (mig_status \in {1, 3} =>
           \A l \in Lines :
             MovedFrom(l) # "none" =>
               \/ Unread(l) \/ l \in DOMAIN buffer[MovedFrom(l)]
               \/ \E i \in 1..Len(mig_window) : mig_window[i].ln = l)'
    <3>1. \A l : MovedFrom(l) \in {"none", "l1m", "l2m"}
      BY MovedIs
    <3> QED
      BY <1>1, <1>2, <1>3, <3>1 DEF WindowInv, Mems
  <2> QED
    BY <2>1, <2>2, <2>3, <2>4, <2>5 DEF WindowInv
<1>6. MigqInv'
  <2> SUFFICES ASSUME NEW m \in Mems, NEW r \in migq[m]
               PROVE  (/\ \E i \in 1..Len(mig_window) :
                            /\ mig_window[i].ln = r.ln /\ mig_window[i].mem = m
                            /\ ~ mig_window[i].ready
                       /\ \A s \in migq[m] : s.ln = r.ln => s = r
                       /\ r.ln \notin crossed =>
                            \/ r.val = Home(r.ln) /\ r.val # NoVal
                            \/ /\ r.val = NoVal /\ r.fl = TargetLine(r.ln)
                               /\ ~ Has(writeq[m], r.ln))'
    BY DEF MigqInv
  <2>1. r.ln \in Lines /\ Kept(r.ln)
    BY <1>4 DEF MigqInv
  <2> QED
    BY <1>2, <2>1 DEF MigqInv
<1> QED
  BY <1>5, <1>6

(***************************************************************************)
(* The wait list.                                                          *)
(***************************************************************************)
\* The list t is s without its entry i; the others keep their order.
Without(t, s, i) ==
  /\ \A o \in 1..Len(s) : o # i => \E k \in 1..Len(t) : t[k] = s[o]
  /\ \A k \in 1..Len(t) : \E o \in 1..Len(s) :
       /\ o # i /\ t[k] = s[o]
       /\ \A j \in (k+1)..Len(t) : \E p \in (o+1)..Len(s) : p # i /\ s[p] = t[j]
       /\ \A p \in (o+1)..Len(s) : p # i => \E j \in (k+1)..Len(t) : t[j] = s[p]

\* What RemoveAt makes.
LEMMA TakenOut ==
  ASSUME NEW S, NEW s \in Seq(S), NEW i \in 1..Len(s)
  PROVE  RemoveAt(s, i) \in Seq(S) /\ Without(RemoveAt(s, i), s, i)
<1> DEFINE t == RemoveAt(s, i)
           n == Len(s)
           New(k) == IF k < i THEN k ELSE k - 1
           Old(k) == IF k < i THEN k ELSE k + 1
<1>1. n \in Nat /\ i \in 1..n
  OBVIOUS
<1>2. /\ t \in Seq(S) /\ Len(t) = n - 1
      /\ \A k \in 1..(n - 1) : t[k] = IF k < i THEN s[k] ELSE s[k + 1]
  BY RemoveAtProps
<1>3. \A k \in 1..n : k # i => New(k) \in 1..Len(t) /\ t[New(k)] = s[k] /\ Old(New(k)) = k
  BY <1>1, <1>2
<1>4. \A k \in 1..Len(t) : Old(k) \in 1..n /\ Old(k) # i /\ t[k] = s[Old(k)] /\ New(Old(k)) = k
  BY <1>1, <1>2
<1>5. \A k, j \in 1..n : k < j /\ k # i /\ j # i => New(k) < New(j)
  BY <1>1
<1>6. \A k, j \in 1..Len(t) : k < j => Old(k) < Old(j)
  BY <1>1, <1>2
<1>7. \A k \in 1..n : \A j \in (k+1)..n : j \in 1..n /\ k < j
  BY <1>1
<1>8. \A k \in 1..Len(t) : \A j \in (k+1)..Len(t) : j \in 1..Len(t) /\ k < j
  BY <1>1, <1>2
<1>9. /\ \A k, j \in 1..n : k < j => j \in (k+1)..n
      /\ \A k, j \in 1..Len(t) : k < j => j \in (k+1)..Len(t)
  BY <1>1, <1>2
<1> HIDE DEF t, n, New, Old
<1>10. ASSUME NEW k \in 1..Len(t)
       PROVE  /\ \A j \in (k+1)..Len(t) : \E p \in (Old(k)+1)..n : p # i /\ s[p] = t[j]
              /\ \A p \in (Old(k)+1)..n : p # i => \E j \in (k+1)..Len(t) : t[j] = s[p]
  <2>1. ASSUME NEW j \in (k+1)..Len(t)
        PROVE  Old(j) \in (Old(k)+1)..n /\ Old(j) # i /\ s[Old(j)] = t[j]
    BY <1>4, <1>6, <1>8, <1>9
  <2>2. ASSUME NEW p \in (Old(k)+1)..n, p # i
        PROVE  New(p) \in (k+1)..Len(t) /\ t[New(p)] = s[p]
    <3>1. Old(k) \in 1..n /\ Old(k) # i /\ New(Old(k)) = k /\ p \in 1..n /\ Old(k) < p
      BY <1>4, <1>7
    <3>2. k < New(p) /\ New(p) \in 1..Len(t) /\ t[New(p)] = s[p]
      BY <1>3, <1>5, <2>2, <3>1
    <3> QED
      BY <1>9, <3>2
  <2> QED
    BY <2>1, <2>2
<1>11. \A k \in 1..Len(t) : \E o \in 1..n :
                  /\ o # i /\ t[k] = s[o]
                  /\ \A j \in (k+1)..Len(t) : \E p \in (o+1)..n : p # i /\ s[p] = t[j]
                  /\ \A p \in (o+1)..n : p # i => \E j \in (k+1)..Len(t) : t[j] = s[p]
  BY <1>4, <1>10
<1> QED
  <2>1. \A o \in 1..n : o # i => \E k \in 1..Len(t) : t[k] = s[o]
    BY <1>3
  <2>2. Without(t, s, i)
    BY <1>11, <2>1 DEF Without, n
  <2> QED
    BY <1>2, <2>2 DEF t

\* The request that has its turn is the oldest of its line, unless one under another
\* address is kept.
LEMMA OldestOfLine ==
  ASSUME TypeOK, NeverRefused, NEW i \in 1..Len(wait_list), Turn(i), ~ Held(wait_list[i]),
         Passes(i) => wait_list[i].ln \in crossed'
  PROVE  \A j \in 1..(i-1) : wait_list[j].ln # wait_list[i].ln \/ wait_list[i].ln \in crossed'
<1> SUFFICES ASSUME NEW j \in 1..(i-1), wait_list[j].ln = wait_list[i].ln,
                    wait_list[j].off = wait_list[i].off
             PROVE  FALSE
  BY DEF Passes
<1>1. j \in 1..Len(wait_list)
  BY QueueTypes
<1>2. Held(wait_list[j])
  BY <1>1 DEF Turn, NeverRefused
<1>3. Held(wait_list[j]) <=> Held(wait_list[i])
  BY DEF Held, HitsBuffer
<1> QED
  BY <1>2, <1>3

LEMMA RequestLeaves ==
  ASSUME TypeOK, WaitInv, NEW i \in 1..Len(wait_list),
         \A j \in 1..(i-1) : wait_list[j].ln # wait_list[i].ln \/ wait_list[i].ln \in crossed',
         crossed \subseteq crossed',
         wait_list' = RemoveAt(wait_list, i), UNCHANGED <<lines_in_page, latest>>,
         \A l \in DOMAIN mshr :
           l \in DOMAIN mshr' \/ (l = wait_list[i].ln /\ wait_list[i].type = "READ")
  PROVE  LET r == wait_list[i]
         IN  /\ wait_list' \in Seq(Requests)
             /\ WaitInv'
             /\ \A k \in 1..Len(wait_list') : \E o \in 1..Len(wait_list) :
                  wait_list'[k] = wait_list[o]
             /\ \A l : r.type = "READ" /\ r.ln = l => ReadAlone(l)'
             /\ \A l : NoWriteWaits(l)' /\ l \notin crossed' =>
                  \/ NoWriteWaits(l)
                  \/ r.type = "WRITE" /\ r.ln = l /\ r.val = Version(l)
             /\ r.type = "READ" /\ r.ln \notin crossed' => NoWriteWaits(r.ln)
<1> DEFINE s == wait_list
           t == wait_list'
           r == s[i]
<1>1. wait_list \in Seq(Requests)
  BY QueueTypes
<1>2. t \in Seq(Requests) /\ Without(t, s, i)
  BY <1>1, TakenOut
<1>13. \A o \in 1..Len(s) : o # i => \E k \in 1..Len(t) : t[k] = s[o]
  BY <1>2 DEF Without
<1>14. \A k \in 1..Len(t) : \E o \in 1..Len(s) : o # i /\ t[k] = s[o]
  BY <1>2 DEF Without
<1>3. \A k \in 1..Len(s) : s[k].type \in {"READ", "WRITE"}
  BY EntryTypes
<1>4. /\ \A o \in 1..Len(s) : /\ o # i /\ s[o].ln = r.ln
                              => o \in (i+1)..Len(s) \/ (i \in (o+1)..Len(s) /\ r.ln \in crossed')
      /\ Len(s) \in Nat /\ \A o \in 1..Len(s) : \A p \in (o+1)..Len(s) : p \in 1..Len(s) /\ o < p
  <2>1. Len(s) \in Nat
    BY <1>1
  <2>2. \A j \in 1..(i-1) : s[j].ln # r.ln \/ r.ln \in crossed'
    OBVIOUS
  <2> HIDE DEF s, r
  <2> QED
    BY <2>1, <2>2 DEF s
<1>5. \A o \in 1..Len(s) :
        /\ s[o].type = "READ" => /\ s[o].ln \in DOMAIN mshr
                                 /\ \A j \in (o + 1)..Len(s) : s[j].ln # s[o].ln
        /\ s[o].type = "WRITE" =>
             /\ s[o].val \in Vals
             /\ /\ s[o].ln \notin crossed
                /\ \A j \in (o + 1)..Len(s) : s[j].ln = s[o].ln => s[j].type = "READ"
                => s[o].val = Version(s[o].ln)
  BY DEF WaitInv
<1>6. Vals' = Vals /\ \A l : Version(l)' = Version(l)
  BY DEF Vals, Lines, LineNums, Version
<1> HIDE DEF s, t, r
<1>15. r = s[i] /\ crossed \subseteq crossed'
  BY DEF r, s
<1>7. r.type = "READ" =>
        \A o \in 1..Len(s) : o # i /\ s[o].ln = r.ln => s[o].type = "WRITE" /\ r.ln \in crossed'
  <2> SUFFICES ASSUME r.type = "READ", NEW o \in 1..Len(s), o # i, s[o].ln = r.ln
               PROVE  s[o].type = "WRITE" /\ r.ln \in crossed'
    OBVIOUS
  <2>1. o \notin (i+1)..Len(s)
    BY <1>5, <1>15 DEF s
  <2>2. i \in (o+1)..Len(s) /\ r.ln \in crossed'
    BY <1>4, <2>1
  <2> QED
    BY <1>3, <1>5, <1>15, <2>2
<1>16. \A l : r.type = "READ" /\ r.ln = l => ReadAlone(l)'
  <2> SUFFICES ASSUME NEW l, r.type = "READ", r.ln = l, NEW k \in 1..Len(t), t[k].ln = l
               PROVE  t[k].type = "WRITE" /\ l \in crossed'
    BY DEF ReadAlone, t
  <2>1. PICK o \in 1..Len(s) : o # i /\ t[k] = s[o]
    BY <1>14
  <2> QED
    BY <1>7, <2>1
<1>8. r.type = "READ" /\ r.ln \notin crossed' => NoWriteWaits(r.ln)
  <2> SUFFICES ASSUME r.type = "READ", r.ln \notin crossed', NEW k \in 1..Len(s), s[k].ln = r.ln
               PROVE  s[k].type = "READ"
    BY DEF NoWriteWaits, s, r
  <2> QED
    BY <1>7, <1>15
<1>9. ASSUME NEW k \in 1..Len(t)
      PROVE  /\ t[k].type = "READ" =>
                  /\ t[k].ln \in DOMAIN mshr'
                  /\ \A j \in (k + 1)..Len(t) : t[j].ln # t[k].ln
             /\ t[k].type = "WRITE" =>
                  /\ t[k].val \in Vals
                  /\ /\ t[k].ln \notin crossed'
                     /\ \A j \in (k + 1)..Len(t) : t[j].ln = t[k].ln => t[j].type = "READ"
                     => t[k].val = Version(t[k].ln)
  <2>1. PICK o \in 1..Len(s) :
           /\ o # i /\ t[k] = s[o]
           /\ \A j \in (k+1)..Len(t) : \E p \in (o+1)..Len(s) : p # i /\ s[p] = t[j]
           /\ \A p \in (o+1)..Len(s) : p # i => \E j \in (k+1)..Len(t) : t[j] = s[p]
    BY <1>2 DEF Without
  <2>2. ASSUME t[k].type = "READ"
        PROVE  /\ t[k].ln \in DOMAIN mshr'
               /\ \A j \in (k + 1)..Len(t) : t[j].ln # t[k].ln
    <3>1. s[o].ln \in DOMAIN mshr /\ \A j \in (o + 1)..Len(s) : s[j].ln # s[o].ln
      BY <1>5, <2>1, <2>2
    <3>2. s[o].ln # r.ln \/ r.type # "READ"
      <4> SUFFICES ASSUME r.type = "READ", s[o].ln = r.ln
                   PROVE  FALSE
        OBVIOUS
      <4>1. s[o].type = "WRITE"
        BY <1>7, <2>1
      <4> QED
        BY <2>1, <2>2, <4>1
    <3>3. \A l \in DOMAIN mshr : l \in DOMAIN mshr' \/ (l = r.ln /\ r.type = "READ")
      BY DEF r, s
    <3>4. s[o].ln \in DOMAIN mshr'
      BY <3>1, <3>2, <3>3
    <3>5. ASSUME NEW j \in (k + 1)..Len(t)
          PROVE  t[j].ln # s[o].ln
      <4>1. PICK p \in (o+1)..Len(s) : s[p] = t[j]
        BY <2>1
      <4> QED
        BY <3>1, <4>1
    <3> QED
      BY <2>1, <3>4, <3>5
  <2>3. ASSUME t[k].type = "WRITE"
        PROVE  t[k].val \in Vals
    BY <1>5, <2>1, <2>3
  <2>4. ASSUME t[k].type = "WRITE", t[k].ln \notin crossed',
               \A j \in (k + 1)..Len(t) : t[j].ln = t[k].ln => t[j].type = "READ"
        PROVE  t[k].val = Version(t[k].ln)
    <3>1. ASSUME NEW p \in (o + 1)..Len(s), s[p].ln = s[o].ln
          PROVE  s[p].type = "READ"
      <4>1. p # i
        <5> SUFFICES ASSUME p = i
                     PROVE  FALSE
          OBVIOUS
        <5>1. o \notin (i+1)..Len(s) /\ s[o].ln = r.ln
          BY <1>4, <1>15, <3>1
        <5> QED
          BY <1>4, <2>1, <2>4, <5>1
      <4>2. PICK j \in (k+1)..Len(t) : t[j] = s[p]
        BY <2>1, <4>1
      <4> QED
        BY <2>1, <2>4, <3>1, <4>2
    <3> QED
      BY <1>5, <1>15, <2>1, <2>4, <3>1
  <2> QED
    BY <2>2, <2>3, <2>4
<1>10. WaitInv'
  BY <1>6, <1>9 DEF WaitInv, t
<1>11. ASSUME NEW l, NoWriteWaits(l)', l \notin crossed'
       PROVE  \/ NoWriteWaits(l)
              \/ r.type = "WRITE" /\ r.ln = l /\ r.val = Version(l)
  <2>1. \A k \in 1..Len(t) : t[k].ln = l => t[k].type = "READ"
    BY <1>11 DEF NoWriteWaits, t
  <2>2. \A o \in 1..Len(s) : o # i /\ s[o].ln = l => s[o].type = "READ"
    BY <1>13, <2>1
  <2>3. CASE r.ln = l /\ r.type = "WRITE"
    <3>1. \A j \in (i+1)..Len(s) : s[j].ln = s[i].ln => s[j].type = "READ"
      BY <1>4, <1>15, <2>2, <2>3 DEF s
    <3> QED
      BY <1>5, <1>11, <1>15, <2>3, <3>1 DEF s
  <2>4. CASE ~ (r.ln = l /\ r.type = "WRITE")
    <3>1. \A o \in 1..Len(s) : s[o].ln = l => s[o].type = "READ"
      BY <1>3, <2>2, <2>4 DEF r, s
    <3> QED
      BY <3>1 DEF NoWriteWaits, s
  <2> QED
    BY <2>3, <2>4
<1>12. \A k \in 1..Len(t) : \E o \in 1..Len(s) : t[k] = s[o]
  BY <1>14
<1> QED
  BY <1>2, <1>16, <1>8, <1>10, <1>11, <1>12 DEF s, t, r

(***************************************************************************)
(* The parts of the type invariant.                                        *)
(***************************************************************************)
PageType == /\ lines_in_page \in PageSizes
            /\ dom \in [Pages -> Mems]
            /\ frame_addr \in [Pages -> L1Frames \cup L2Frames]
            /\ free \subseteq L1Frames
SelType == /\ mig_status \in {0, 1, 2, 3, 4, 5, 203}
           /\ mig_type \in 0..2
           /\ hot_pg_num \in Pages \cup {NoPage} /\ cold_pg_num \in Pages \cup {NoPage}
           /\ hot_frame_addr \in L2Frames \cup {NoFrame}
           /\ cold_frame_addr \in L1Frames \cup {NoFrame}
StageType == /\ hotq \in StageQ /\ coldq \in StageQ
             /\ hot_writes \in 0..lines_in_page /\ cold_writes \in 0..lines_in_page
WindowType == mig_window \in Seq(WinEntries)
ReadTypes == \A m \in Mems : migq[m] \subseteq MigReads(m) /\ readq[m] \subseteq MigReads(m)
WriteType == \A m \in Mems : writeq[m] \in Seq(Writes(m))
MemType == \A m \in Mems : mem[m] \in [FrameLines(m) -> Vals]
BufferType == \A m \in Mems : /\ DOMAIN buffer[m] \subseteq Lines
                              /\ \A l \in DOMAIN buffer[m] : buffer[m][l] \in BufEntry
CacheType == /\ wait_list \in Seq(Requests)
             /\ DOMAIN mshr \subseteq Lines /\ \A l \in DOMAIN mshr : mshr[l] \in {0, 1}
             /\ cached \in [Lines -> Vals \cup {NoVal}]
             /\ latest \in [Lines -> 0..MaxReqs]
CrossType == crossed \subseteq Lines
Types == /\ PageType /\ SelType /\ StageType /\ WindowType /\ ReadTypes /\ WriteType
         /\ MemType /\ BufferType /\ CacheType /\ CrossType

\* Together they are the type invariant, before a step and after it.
LEMMA TypeParts == TypeOK <=> Types
<1> DEFINE Q(m) == /\ migq[m] \subseteq MigReads(m) /\ readq[m] \subseteq MigReads(m)
                   /\ writeq[m] \in Seq(Writes(m))
                   /\ mem[m] \in [FrameLines(m) -> Vals]
                   /\ DOMAIN buffer[m] \subseteq Lines
                   /\ \A l \in DOMAIN buffer[m] : buffer[m][l] \in BufEntry
<1>1. TypeOK <=> /\ PageType /\ SelType /\ StageType /\ WindowType /\ \A m \in Mems : Q(m)
                 /\ CacheType /\ CrossType
  BY Zenon DEF TypeOK, PageType, SelType, StageType, WindowType, CacheType, CrossType,
               WinEntries, Requests, Writes
<1>2. (\A m \in Mems : Q(m)) <=> ReadTypes /\ WriteType /\ MemType /\ BufferType
  BY Zenon DEF ReadTypes, WriteType, MemType, BufferType
<1> HIDE DEF Q
<1> QED
  BY <1>1, <1>2 DEF Types

\* ... in the next state.
LEMMA TypePartsNext == (TypeOK <=> Types)'
BY TypeParts, PTL

\* The number of lines in a page is fixed, and so are the sets built from it.
LEMMA SameLines ==
  ASSUME UNCHANGED lines_in_page
  PROVE  /\ LineNums' = LineNums /\ Lines' = Lines /\ Vals' = Vals
         /\ StageQ' = StageQ /\ WinEntries' = WinEntries /\ Requests' = Requests
         /\ BufEntry' = BufEntry
         /\ \A m : /\ FrameLines(m)' = FrameLines(m) /\ MigReads(m)' = MigReads(m)
                   /\ Writes(m)' = Writes(m)
<1>1. LineNums' = LineNums /\ Lines' = Lines /\ Vals' = Vals
  BY DEF LineNums, Lines, Vals
<1>2. \A m : FrameLines(m)' = FrameLines(m)
  BY <1>1 DEF FrameLines
<1>3. StageQ' = StageQ /\ WinEntries' = WinEntries /\ Requests' = Requests
      /\ BufEntry' = BufEntry
  BY <1>1 DEF StageQ, WinEntries, Requests, BufEntry
<1>4. \A m : MigReads(m)' = MigReads(m) /\ Writes(m)' = Writes(m)
  BY <1>1, <1>2 DEF MigReads, Writes
<1> QED
  BY <1>1, <1>2, <1>3, <1>4

\* The parts a step does not touch.
LEMMA TypesStay ==
  ASSUME TypeOK, UNCHANGED lines_in_page
  PROVE  /\ UNCHANGED <<dom, frame_addr>> /\ free' \subseteq free => PageType'
         /\ UNCHANGED <<mig_status, selVars>> => SelType'
         /\ UNCHANGED stageVars => StageType'
         /\ UNCHANGED mig_window => WindowType'
         /\ UNCHANGED <<migq, readq>> => ReadTypes'
         /\ UNCHANGED writeq => WriteType'
         /\ UNCHANGED mem => MemType'
         /\ UNCHANGED buffer => BufferType'
         /\ UNCHANGED <<wait_list, mshr, cached, latest>> => CacheType'
         /\ UNCHANGED crossed => CrossType'
<1>1. Types
  BY TypeParts
<1>2. /\ UNCHANGED <<dom, frame_addr>> /\ free' \subseteq free => PageType'
      /\ UNCHANGED <<mig_status, selVars>> => SelType'
  BY <1>1 DEF Types, PageType, SelType, selVars
<1>3. /\ UNCHANGED stageVars => StageType'
      /\ UNCHANGED mig_window => WindowType'
  BY <1>1, SameLines DEF Types, StageType, WindowType, stageVars
<1>4. /\ UNCHANGED <<migq, readq>> => ReadTypes'
      /\ UNCHANGED writeq => WriteType'
      /\ UNCHANGED mem => MemType'
      /\ UNCHANGED buffer => BufferType'
  BY <1>1, SameLines DEF Types, ReadTypes, WriteType, MemType, BufferType
<1>5. UNCHANGED <<wait_list, mshr, cached, latest>> => CacheType'
  BY <1>1, SameLines DEF Types, CacheType
<1>6. UNCHANGED crossed => CrossType'
  BY <1>1, SameLines DEF Types, CrossType
<1> QED
  BY <1>2, <1>3, <1>4, <1>5, <1>6

(***************************************************************************)
(* The parts of the invariant about lines and reads.                       *)
(***************************************************************************)
\* A line that keeps its place, its value and the writes of its memory.
LEMMA LineStays ==
  ASSUME NEW l, LineOk(l), Placed(l), Home(l)' = Home(l), UNCHANGED lines_in_page,
         InFrame(l) /\ QueueOk(writeq[TargetMem(l)], l, TargetLine(l)) =>
           QueueOk(writeq'[TargetMem(l)], l, TargetLine(l)),
         NoWriteWaits(l)' /\ l \notin crossed' => Home(l) = Version(l)'
  PROVE  LineOk(l)'
<1>1. Vals' = Vals
  BY SameLines
<1>2. InFrame(l)' = InFrame(l) /\ TargetMem(l)' = TargetMem(l) /\ TargetLine(l)' = TargetLine(l)
  BY DEF Placed
<1>3. (InFrame(l) => QueueOk(writeq[TargetMem(l)], l, TargetLine(l)))'
  BY <1>2 DEF LineOk, QueueOk
<1> QED
  BY <1>1, <1>3 DEF LineOk

\* Every line, if no write is queued or served.
LEMMA LinesStay ==
  ASSUME \A l \in Lines : LineOk(l), \A l : Stay(l),
         UNCHANGED <<lines_in_page, writeq, mem, buffer>>,
         crossed \subseteq crossed',
         \A l \in Lines : NoWriteWaits(l)' /\ l \notin crossed' =>
                            NoWriteWaits(l) /\ Version(l)' = Version(l)
  PROVE  /\ (\A l \in Lines : LineOk(l))'
         /\ \A l : Home(l)' = Home(l)
<1>1. \A l : Home(l)' = Home(l)
  BY HomeStays
<1>2. Lines' = Lines
  BY SameLines
<1>3. ASSUME NEW l \in Lines
      PROVE  LineOk(l)'
  <2>1. NoWriteWaits(l)' /\ l \notin crossed' => Home(l) = Version(l)'
    BY DEF LineOk
  <2> QED
    BY <1>1, <2>1, LineStays, StayPlaced DEF LineOk
<1> QED
  BY <1>1, <1>2, <1>3

\* The demand reads that are still queued.
LEMMA ReadsStay ==
  ASSUME TypeOK, ReadInv, crossed \subseteq crossed', \A m \in Mems : readq'[m] \subseteq readq[m],
         \A m \in Mems : \A r \in readq'[m] :
           /\ r.ln \in DOMAIN mshr'
           /\ ReadAlone(r.ln)'
           /\ Version(r.ln)' = Version(r.ln)
           /\ r.ln \notin crossed' =>
              \/ r.val = Version(r.ln)
              \/ Placed(r.ln) /\ (~ Has(writeq[m], r.ln) => ~ Has(writeq'[m], r.ln))
  PROVE  ReadInv'
<1> SUFFICES ASSUME NEW m \in Mems, NEW r \in readq'[m]
             PROVE  (/\ r.ln \in DOMAIN mshr
                     /\ ReadAlone(r.ln)
                     /\ \A n \in Mems : \A s \in readq[n] : s.ln = r.ln => n = m /\ s = r
                     /\ r.ln \notin crossed =>
                        \/ r.val = Version(r.ln)
                        \/ /\ r.val = NoVal /\ InFrame(r.ln) /\ m = TargetMem(r.ln)
                           /\ r.fl = TargetLine(r.ln) /\ ~ Has(writeq[m], r.ln))'
  BY DEF ReadInv
<1>1. r \in readq[m]
  OBVIOUS
<1>2. \A n \in Mems : \A s \in readq'[n] : s.ln = r.ln => n = m /\ s = r
  BY <1>1 DEF ReadInv
<1>3. r.ln \notin crossed =>
      \/ r.val = Version(r.ln)
      \/ /\ r.val = NoVal /\ InFrame(r.ln) /\ m = TargetMem(r.ln)
         /\ r.fl = TargetLine(r.ln) /\ ~ Has(writeq[m], r.ln)
  BY <1>1 DEF ReadInv
<1> QED
  BY <1>2, <1>3 DEF Placed

\* The cache and its requests.
LEMMA CacheStays ==
  ASSUME CacheInv, UNCHANGED <<lines_in_page, wait_list, cached, latest>>,
         crossed \subseteq crossed', DOMAIN mshr' = DOMAIN mshr
  PROVE  /\ CacheInv'
         /\ \A l : Version(l)' = Version(l) /\ (NoWriteWaits(l)' <=> NoWriteWaits(l))
<1>1. Vals' = Vals /\ \A l : Version(l)' = Version(l)
  BY SameLines DEF Version
<1>2. WaitInv'
  BY <1>1 DEF CacheInv, WaitInv
<1>3. CacheCoherent'
  BY SameLines DEF CacheInv, CacheCoherent
<1> QED
  BY <1>1, <1>2, <1>3 DEF CacheInv, NoWriteWaits

\* No value is not a value.
LEMMA NoValApart ==
  ASSUME TypeOK
  PROVE  NoVal \notin Vals /\ LineNums \subseteq Nat
BY ValAssumption, BoundAssumption DEF Vals, Lines, LineNums, TypeOK

\* What a queued read returns is a value: the latest version of its line, unless the line
\* was crossed.
LEMMA ReadReturns ==
  ASSUME IInv, NEW m \in Mems, NEW r \in readq[m]
  PROVE  /\ r.ln \in Lines /\ ValueOf(m, r) \in Vals
         /\ r.ln \notin crossed => ValueOf(m, r) = Version(r.ln)
<1>1. /\ r.ln \in Lines /\ r.fl \in FrameLines(m) /\ r.val \in Vals \cup {NoVal}
      /\ mem[m] \in [FrameLines(m) -> Vals]
  BY EntryTypes, QueueTypes DEF IInv
<1>2. ValueOf(m, r) \in Vals
  BY <1>1 DEF ValueOf
<1>3. ASSUME r.ln \notin crossed
      PROVE  ValueOf(m, r) = Version(r.ln)
  <2>1. LineOk(r.ln)
    BY <1>1 DEF IInv
  <2>2. NoWriteWaits(r.ln)
    BY <1>3 DEF IInv, ReadInv, ReadAlone, NoWriteWaits
  <2>3. Home(r.ln) = Version(r.ln) /\ Version(r.ln) \in Vals
    BY <1>3, <2>1, <2>2 DEF LineOk
  <2>4. NoVal \notin Vals
    BY NoValApart DEF IInv
  <2>5. CASE r.val = Version(r.ln)
    BY <2>3, <2>4, <2>5 DEF ValueOf
  <2>6. CASE r.val # Version(r.ln)
    <3>1. /\ r.val = NoVal /\ InFrame(r.ln) /\ m = TargetMem(r.ln)
          /\ r.fl = TargetLine(r.ln) /\ ~ Has(writeq[m], r.ln)
      BY <1>3, <2>6 DEF IInv, ReadInv
    <3> QED
      BY <2>3, <3>1 DEF ValueOf, Home, Store
  <2> QED
    BY <2>5, <2>6
<1> QED
  BY <1>1, <1>2, <1>3

(***************************************************************************)
(* The steps of the cache and of the memories.                             *)
(***************************************************************************)
\* A request joins the wait list.
LEMMA RequestJoins ==
  ASSUME TypeOK, NEW r \in Requests, wait_list' = Append(wait_list, r)
  PROVE  /\ wait_list' \in Seq(Requests)
         /\ Len(wait_list) \in Nat /\ Len(wait_list') = Len(wait_list) + 1
         /\ \A i \in 1..Len(wait_list') : i \in 1..Len(wait_list) \/ i = Len(wait_list')
         /\ \A i \in 1..Len(wait_list) : i \in 1..Len(wait_list') /\ wait_list'[i] = wait_list[i]
         /\ wait_list'[Len(wait_list')] = r /\ Len(wait_list') \in 1..Len(wait_list')
         /\ \A l : NoWriteWaits(l)' <=> NoWriteWaits(l) /\ (r.ln = l => r.type = "READ")
<1>1. wait_list \in Seq(Requests)
  BY QueueTypes
<1>2. /\ wait_list' \in Seq(Requests)
      /\ Len(wait_list) \in Nat /\ Len(wait_list') = Len(wait_list) + 1
      /\ \A i \in 1..Len(wait_list') : i \in 1..Len(wait_list) \/ i = Len(wait_list')
      /\ \A i \in 1..Len(wait_list) : i \in 1..Len(wait_list') /\ wait_list'[i] = wait_list[i]
      /\ wait_list'[Len(wait_list')] = r /\ Len(wait_list') \in 1..Len(wait_list')
  BY <1>1
<1> QED
  BY <1>2 DEF NoWriteWaits

\* A miss asks for a line that no other request or answer is under way for.
LEMMA MissStep ==
  ASSUME IInv, NEW ln \in Lines, NEW off \in Offsets, Miss(ln, off)
  PROVE  IInv'
<1> DEFINE r == [type |-> "READ", ln |-> ln, off |-> off, val |-> NoVal]
<1> USE DEF IInv
<1>1. /\ reqs < MaxReqs /\ cached[ln] = NoVal /\ ln \notin DOMAIN mshr
      /\ mshr' = [l \in DOMAIN mshr \cup {ln} |-> IF l = ln THEN 0 ELSE mshr[l]]
      /\ wait_list' = Append(wait_list, r) /\ reqs' = reqs + 1
      /\ UNCHANGED <<pageVars, mig_status, selVars, stageVars, mig_window, migq, buffer,
                     readq, writeq, mem, cached, latest, crossed, migs>>
  BY DEF Miss
<1>2. UNCHANGED <<lines_in_page, dom, frame_addr, free>>
  BY <1>1 DEF pageVars
<1>3. FrameInv' /\ StageInv' /\ BufferInv' /\ \A l : Stay(l)
  BY <1>1, MigrationAlone
<1>4. r \in Requests /\ r.type = "READ" /\ r.ln = ln
  BY DEF Requests
<1> HIDE DEF r
<1>5. /\ wait_list' \in Seq(Requests)
      /\ Len(wait_list) \in Nat /\ Len(wait_list') = Len(wait_list) + 1
      /\ \A i \in 1..Len(wait_list') : i \in 1..Len(wait_list) \/ i = Len(wait_list')
      /\ \A i \in 1..Len(wait_list) : i \in 1..Len(wait_list') /\ wait_list'[i] = wait_list[i]
      /\ wait_list'[Len(wait_list')] = r
      /\ \A l : NoWriteWaits(l)' <=> NoWriteWaits(l)
  BY <1>1, <1>4, RequestJoins
<1>6. (\A l \in Lines : LineOk(l))' /\ \A l : Home(l)' = Home(l)
  <2>1. \A l \in Lines : NoWriteWaits(l)' => NoWriteWaits(l) /\ Version(l)' = Version(l)
    BY <1>1, <1>5 DEF Version
  <2> QED
    BY <1>1, <1>2, <1>3, <2>1, LinesStay
<1>7. WindowInv' /\ MigqInv'
  BY <1>1, <1>3, <1>6, WindowAlone
<1>8. TypeOK'
  <2>1. CacheType'
    <3>1. Types
      BY TypeParts
    <3> QED
      BY <1>1, <1>2, <1>5, <3>1, SameLines DEF Types, CacheType
  <2> QED
    BY <1>1, <1>2, <2>1, TypesStay, TypePartsNext DEF Types
<1>9. Funs'
  <2>1. \A l \in Lines : latest[l] \in Nat /\ latest[l] <= reqs
    BY BoundAssumption DEF Funs, TypeOK
  <2>2. Lines' = Lines
    BY <1>2, SameLines
  <2>3. reqs' \in 0..MaxReqs /\ reqs <= reqs' /\ reqs \in Nat /\ reqs' \in Nat
    BY <1>1, BoundAssumption DEF Funs
  <2>4. \A l \in Lines' : latest'[l] <= reqs'
    BY <1>1, <2>1, <2>2, <2>3
  <2> QED
    BY <1>1, <2>3, <2>4 DEF Funs
<1>10. CacheInv'
  <2>1. \A i \in 1..Len(wait_list) : wait_list[i].type = "READ" => wait_list[i].ln # ln
    BY <1>1 DEF CacheInv, WaitInv
  <2>2. WaitInv'
    <3>1. Vals' = Vals /\ crossed' = crossed /\ \A l : Version(l)' = Version(l)
      BY <1>1, <1>2, SameLines DEF Version
    <3> SUFFICES ASSUME NEW i \in 1..Len(wait_list')
                 PROVE  /\ wait_list'[i].type = "READ" =>
                             /\ wait_list'[i].ln \in DOMAIN mshr'
                             /\ \A j \in (i + 1)..Len(wait_list') :
                                  wait_list'[j].ln # wait_list'[i].ln
                        /\ wait_list'[i].type = "WRITE" =>
                             /\ wait_list'[i].val \in Vals
                             /\ (wait_list'[i].ln \notin crossed
                                 /\ \A j \in (i + 1)..Len(wait_list') :
                                   wait_list'[j].ln = wait_list'[i].ln =>
                                     wait_list'[j].type = "READ")
                                => wait_list'[i].val = Version(wait_list'[i].ln)
      BY <3>1 DEF WaitInv
    <3>2. CASE i = Len(wait_list')
      BY <1>1, <1>4, <1>5, <3>2
    <3>3. CASE i \in 1..Len(wait_list)
      <4>1. /\ wait_list[i].type = "READ" =>
                 /\ wait_list[i].ln \in DOMAIN mshr
                 /\ \A j \in (i + 1)..Len(wait_list) : wait_list[j].ln # wait_list[i].ln
            /\ wait_list[i].type = "WRITE" =>
                 /\ wait_list[i].val \in Vals
                 /\ (wait_list[i].ln \notin crossed /\ \A j \in (i + 1)..Len(wait_list) :
                       wait_list[j].ln = wait_list[i].ln => wait_list[j].type = "READ")
                    => wait_list[i].val = Version(wait_list[i].ln)
        BY <3>3 DEF CacheInv, WaitInv
      <4>2. /\ wait_list'[i] = wait_list[i]
            /\ \A j \in (i + 1)..Len(wait_list') : j \in (i + 1)..Len(wait_list)
                                                  \/ j = Len(wait_list')
            /\ \A j \in (i + 1)..Len(wait_list) : /\ j \in (i + 1)..Len(wait_list')
                                                 /\ wait_list'[j] = wait_list[j]
        BY <1>5, <3>3
      <4>3. DOMAIN mshr \subseteq DOMAIN mshr'
        BY <1>1
      <4> QED
        BY <1>4, <1>5, <2>1, <3>3, <4>1, <4>2, <4>3
    <3> QED
      BY <1>5, <3>2, <3>3
  <2>3. CacheCoherent'
    BY <1>1, <1>2, SameLines DEF CacheInv, CacheCoherent
  <2> QED
    BY <1>1, <2>2, <2>3 DEF CacheInv
<1>11. ReadInv'
  <2>1. \A m \in Mems : \A r1 \in readq[m] :
          r1.ln \in DOMAIN mshr /\ ReadAlone(r1.ln)
    BY DEF ReadInv
  <2>2. \A m \in Mems : \A r1 \in readq'[m] :
           /\ r1.ln \in DOMAIN mshr'
           /\ ReadAlone(r1.ln)'
           /\ Version(r1.ln)' = Version(r1.ln)
           /\ Placed(r1.ln) /\ (~ Has(writeq[m], r1.ln) => ~ Has(writeq'[m], r1.ln))
    <3> SUFFICES ASSUME NEW m \in Mems, NEW r1 \in readq'[m]
                 PROVE  /\ r1.ln \in DOMAIN mshr'
                        /\ ReadAlone(r1.ln)'
                        /\ Version(r1.ln)' = Version(r1.ln)
                        /\ Placed(r1.ln) /\ (~ Has(writeq[m], r1.ln) => ~ Has(writeq'[m], r1.ln))
      OBVIOUS
    <3>1. r1.ln \in DOMAIN mshr /\ ReadAlone(r1.ln) /\ r1.ln # ln
      BY <1>1, <2>1
    <3>2. ReadAlone(r1.ln)'
      BY <1>1, <1>4, <1>5, <3>1 DEF ReadAlone
    <3> QED
      BY <1>1, <1>3, <3>1, <3>2, StayPlaced DEF Version
  <2> QED
    BY <1>1, <2>2, ReadsStay
<1> QED
  BY <1>3, <1>6, <1>7, <1>8, <1>9, <1>10, <1>11

\* A write-back gives its line a new version, which waits.
LEMMA WriteBackStep ==
  ASSUME IInv, NEW ln \in Lines, NEW off \in Offsets, WriteBack(ln, off)
  PROVE  IInv'
<1> DEFINE r == [type |-> "WRITE", ln |-> ln, off |-> off, val |-> <<ln, latest[ln] + 1>>]
<1> USE DEF IInv
<1>1. /\ reqs < MaxReqs /\ cached[ln] # NoVal
      /\ cached' = [cached EXCEPT ![ln] = NoVal]
      /\ latest' = [latest EXCEPT ![ln] = @ + 1]
      /\ wait_list' = Append(wait_list, r) /\ reqs' = reqs + 1
      /\ UNCHANGED <<pageVars, mig_status, selVars, stageVars, mig_window, migq, buffer,
                     readq, writeq, mem, mshr, crossed, migs>>
  BY DEF WriteBack
<1>2. UNCHANGED <<lines_in_page, dom, frame_addr, free>>
  BY <1>1 DEF pageVars
<1>3. FrameInv' /\ StageInv' /\ BufferInv' /\ \A l : Stay(l)
  BY <1>1, MigrationAlone
<1>4. /\ \A l \in Lines : latest[l] \in Nat /\ latest[l] <= reqs
      /\ latest \in [Lines -> 0..MaxReqs] /\ cached \in [Lines -> Vals \cup {NoVal}]
      /\ reqs \in Nat /\ MaxReqs \in Nat
  BY BoundAssumption DEF Funs, TypeOK
<1>5. /\ latest'[ln] = latest[ln] + 1 /\ latest[ln] + 1 \in 0..MaxReqs
      /\ \A l \in Lines : l # ln => latest'[l] = latest[l]
  BY <1>1, <1>4
<1>6. /\ Version(ln)' = <<ln, latest[ln] + 1>> /\ Version(ln)' \in Vals
      /\ \A l \in Lines : l # ln => Version(l)' = Version(l)
  BY <1>5 DEF Version, Vals
<1>7. r \in Requests /\ r.type = "WRITE" /\ r.ln = ln /\ r.val = Version(ln)'
  BY <1>6 DEF Requests
<1> HIDE DEF r
<1>8. /\ wait_list' \in Seq(Requests)
      /\ Len(wait_list) \in Nat /\ Len(wait_list') = Len(wait_list) + 1
      /\ \A i \in 1..Len(wait_list') : i \in 1..Len(wait_list) \/ i = Len(wait_list')
      /\ \A i \in 1..Len(wait_list) : i \in 1..Len(wait_list') /\ wait_list'[i] = wait_list[i]
      /\ wait_list'[Len(wait_list')] = r
      /\ \A l : NoWriteWaits(l)' <=> NoWriteWaits(l) /\ l # ln
  BY <1>1, <1>7, RequestJoins
<1>9. (\A l \in Lines : LineOk(l))' /\ \A l : Home(l)' = Home(l)
  <2>1. \A l \in Lines : NoWriteWaits(l)' => NoWriteWaits(l) /\ Version(l)' = Version(l)
    BY <1>6, <1>8
  <2> QED
    BY <1>1, <1>2, <1>3, <2>1, LinesStay
<1>10. WindowInv' /\ MigqInv'
  BY <1>1, <1>3, <1>9, WindowAlone
<1>11. TypeOK'
  <2>1. CacheType'
    <3>1. Types
      BY TypeParts
    <3>2. latest' \in [Lines -> 0..MaxReqs] /\ cached' \in [Lines -> Vals \cup {NoVal}]
      BY <1>1, <1>4, <1>5
    <3> QED
      BY <1>1, <1>2, <1>8, <3>1, <3>2, SameLines DEF Types, CacheType
  <2> QED
    BY <1>1, <1>2, <2>1, TypesStay, TypePartsNext DEF Types
<1>12. Funs'
  <2>1. Lines' = Lines
    BY <1>2, SameLines
  <2>2. \A l \in Lines' : latest'[l] <= reqs'
    <3> SUFFICES ASSUME NEW l \in Lines
                 PROVE  latest'[l] <= reqs + 1
      BY <1>1, <2>1
    <3>1. l # ln \/ l = ln
      OBVIOUS
    <3> QED
      BY <1>4, <1>5, <3>1
  <2> QED
    BY <1>1, <1>4, <2>2 DEF Funs
<1>13. ln \notin DOMAIN mshr
  BY <1>1 DEF CacheInv
<1>14. CacheInv'
  <2>1. \A i \in 1..Len(wait_list) : wait_list[i].type = "READ" => wait_list[i].ln # ln
    BY <1>13 DEF CacheInv, WaitInv
  <2>2. WaitInv'
    <3>1. Vals' = Vals /\ crossed' = crossed
      BY <1>1, <1>2, SameLines
    <3> SUFFICES ASSUME NEW i \in 1..Len(wait_list')
                 PROVE  /\ wait_list'[i].type = "READ" =>
                             /\ wait_list'[i].ln \in DOMAIN mshr'
                             /\ \A j \in (i + 1)..Len(wait_list') :
                                  wait_list'[j].ln # wait_list'[i].ln
                        /\ wait_list'[i].type = "WRITE" =>
                             /\ wait_list'[i].val \in Vals
                             /\ (wait_list'[i].ln \notin crossed
                                 /\ \A j \in (i + 1)..Len(wait_list') :
                                   wait_list'[j].ln = wait_list'[i].ln =>
                                     wait_list'[j].type = "READ")
                                => wait_list'[i].val =
                                     <<wait_list'[i].ln, latest'[wait_list'[i].ln]>>
      BY <3>1 DEF WaitInv, Version
    <3>2. CASE i = Len(wait_list')
      <4>1. Version(ln)' = <<ln, latest'[ln]>>
        BY DEF Version
      <4>2. \A j \in (i + 1)..Len(wait_list') : FALSE
        BY <1>8, <3>2
      <4> QED
        BY <1>6, <1>7, <1>8, <3>2, <4>1
    <3>3. CASE i \in 1..Len(wait_list)
      <4>1. /\ wait_list[i].ln \in Lines
            /\ wait_list[i].type = "READ" =>
                 /\ wait_list[i].ln \in DOMAIN mshr
                 /\ \A j \in (i + 1)..Len(wait_list) : wait_list[j].ln # wait_list[i].ln
            /\ wait_list[i].type = "WRITE" =>
                 /\ wait_list[i].val \in Vals
                 /\ (wait_list[i].ln \notin crossed /\ \A j \in (i + 1)..Len(wait_list) :
                       wait_list[j].ln = wait_list[i].ln => wait_list[j].type = "READ")
                    => wait_list[i].val = Version(wait_list[i].ln)
        BY <3>3, EntryTypes DEF CacheInv, WaitInv
      <4>2. /\ wait_list'[i] = wait_list[i]
            /\ \A j \in (i + 1)..Len(wait_list') : j \in (i + 1)..Len(wait_list)
                                                  \/ j = Len(wait_list')
            /\ \A j \in (i + 1)..Len(wait_list) : /\ j \in (i + 1)..Len(wait_list')
                                                 /\ wait_list'[j] = wait_list[j]
            /\ Len(wait_list') \in (i + 1)..Len(wait_list')
        BY <1>8, <3>3
      <4>3. wait_list[i].type = "READ" =>
              /\ wait_list[i].ln \in DOMAIN mshr'
              /\ \A j \in (i + 1)..Len(wait_list') : wait_list'[j].ln # wait_list[i].ln
        BY <1>1, <1>7, <1>8, <2>1, <3>3, <4>1, <4>2
      <4>4. ASSUME wait_list[i].type = "WRITE", wait_list[i].ln \notin crossed,
                   \A j \in (i + 1)..Len(wait_list') :
                     wait_list'[j].ln = wait_list[i].ln => wait_list'[j].type = "READ"
            PROVE  wait_list[i].val = <<wait_list[i].ln, latest'[wait_list[i].ln]>>
        <5>1. wait_list[i].ln # ln
          BY <1>7, <1>8, <4>2, <4>4
        <5>2. \A j \in (i + 1)..Len(wait_list) :
                wait_list[j].ln = wait_list[i].ln => wait_list[j].type = "READ"
          BY <4>2, <4>4
        <5> QED
          BY <1>5, <4>1, <4>4, <5>1, <5>2 DEF Version
      <4> QED
        BY <4>1, <4>2, <4>3, <4>4
    <3> QED
      BY <1>8, <3>2, <3>3
  <2>3. CacheCoherent'
    BY <1>1, <1>2, <1>4, <1>5, SameLines DEF CacheInv, CacheCoherent
  <2> QED
    BY <1>1, <1>4, <1>13, <2>2, <2>3 DEF CacheInv, TypeOK
<1>15. ReadInv'
  <2>1. \A m \in Mems : \A r1 \in readq[m] :
          /\ r1.ln \in DOMAIN mshr /\ r1.ln \in Lines
          /\ ReadAlone(r1.ln)
    BY EntryTypes DEF ReadInv
  <2>2. \A m \in Mems : \A r1 \in readq'[m] :
           /\ r1.ln \in DOMAIN mshr'
           /\ ReadAlone(r1.ln)'
           /\ Version(r1.ln)' = Version(r1.ln)
           /\ Placed(r1.ln) /\ (~ Has(writeq[m], r1.ln) => ~ Has(writeq'[m], r1.ln))
    <3> SUFFICES ASSUME NEW m \in Mems, NEW r1 \in readq'[m]
                 PROVE  /\ r1.ln \in DOMAIN mshr'
                        /\ ReadAlone(r1.ln)'
                        /\ Version(r1.ln)' = Version(r1.ln)
                        /\ Placed(r1.ln) /\ (~ Has(writeq[m], r1.ln) => ~ Has(writeq'[m], r1.ln))
      OBVIOUS
    <3>1. r1.ln \in DOMAIN mshr /\ r1.ln \in Lines /\ ReadAlone(r1.ln) /\ r1.ln # ln
      BY <1>1, <1>13, <2>1
    <3>2. ReadAlone(r1.ln)'
      BY <1>1, <1>7, <1>8, <3>1 DEF ReadAlone
    <3> QED
      BY <1>1, <1>3, <1>6, <3>1, <3>2, StayPlaced
  <2> QED
    BY <1>1, <2>2, ReadsStay
<1> QED
  BY <1>3, <1>9, <1>10, <1>11, <1>12, <1>14, <1>15

\* The entry that a read frees is only its own.
LEMMA ServeReadStep ==
  ASSUME IInv, NEW m \in Mems, ServeRead(m)
  PROVE  IInv'
<1> USE DEF IInv
<1>1. PICK r \in readq[m] :
        /\ readq' = [readq EXCEPT ![m] = @ \ {r}]
        /\ cached' = [cached EXCEPT ![r.ln] = ValueOf(m, r)]
        /\ mshr' = RestrictDomain(mshr, LAMBDA l : l # r.ln)
  BY DEF ServeRead
<1>2. UNCHANGED <<pageVars, mig_status, selVars, stageVars, mig_window, migq, buffer,
                 writeq, mem, wait_list, latest, crossed, reqs, migs>>
  BY DEF ServeRead
<1>3. UNCHANGED <<lines_in_page, dom, frame_addr, free>>
  BY <1>2 DEF pageVars
<1>4. FrameInv' /\ StageInv' /\ BufferInv' /\ \A l : Stay(l)
  BY <1>2, MigrationAlone
<1>5. (\A l \in Lines : LineOk(l))' /\ \A l : Home(l)' = Home(l)
  <2>1. \A l \in Lines : NoWriteWaits(l)' => NoWriteWaits(l) /\ Version(l)' = Version(l)
    BY <1>2 DEF NoWriteWaits, Version
  <2> QED
    BY <1>2, <1>3, <1>4, <2>1, LinesStay
<1>6. WindowInv' /\ MigqInv'
  BY <1>2, <1>4, <1>5, WindowAlone
<1>7. /\ r.ln \in Lines /\ ValueOf(m, r) \in Vals
      /\ r.ln \notin crossed => ValueOf(m, r) = Version(r.ln)
  BY ReadReturns
<1>8. /\ DOMAIN mshr' = DOMAIN mshr \ {r.ln}
      /\ \A l \in DOMAIN mshr' : mshr'[l] = mshr[l]
  BY <1>1 DEF RestrictDomain, Restrict
<1>9. cached \in [Lines -> Vals \cup {NoVal}]
  BY DEF TypeOK
<1>10. /\ \A n \in Mems : readq'[n] \subseteq readq[n]
       /\ \A n \in Mems : \A s \in readq'[n] : s.ln # r.ln
  <2>1. \A n \in Mems : readq'[n] = IF n = m THEN readq[n] \ {r} ELSE readq[n]
    BY <1>1 DEF Funs
  <2>2. \A n \in Mems : \A s \in readq[n] : s.ln = r.ln => n = m /\ s = r
    BY DEF ReadInv
  <2> QED
    BY <2>1, <2>2
<1>11. TypeOK'
  <2>1. Types
    BY TypeParts
  <2>2. CacheType'
    BY <1>1, <1>2, <1>3, <1>7, <1>8, <1>9, <2>1, SameLines DEF Types, CacheType
  <2>3. ReadTypes'
    BY <1>2, <1>3, <1>10, <2>1, SameLines DEF Types, ReadTypes
  <2> QED
    BY <1>2, <1>3, <2>2, <2>3, TypesStay, TypePartsNext DEF Types
<1>12. Funs'
  BY <1>1, <1>2, <1>3, SameLines DEF Funs
<1>13. CacheInv'
  <2>1. \A i \in 1..Len(wait_list) : wait_list[i].type = "READ" => wait_list[i].ln # r.ln
    BY DEF ReadInv, ReadAlone
  <2>2. Vals' = Vals /\ \A l : Version(l)' = Version(l)
    BY <1>2, <1>3, SameLines DEF Version
  <2>3. WaitInv'
    BY <1>2, <1>8, <2>1, <2>2 DEF CacheInv, WaitInv
  <2>4. CacheCoherent'
    BY <1>1, <1>2, <1>3, <1>7, <1>9, SameLines DEF CacheInv, CacheCoherent, Version
  <2> QED
    <3>1. \A l \in DOMAIN mshr' : l \in Lines /\ l # r.ln /\ cached[l] = NoVal
      BY <1>8 DEF CacheInv, TypeOK
    <3>2. \A l \in DOMAIN mshr' : cached'[l] = NoVal
      BY <1>1, <1>9, <3>1
    <3> QED
      BY <2>3, <2>4, <3>2 DEF CacheInv
<1>14. ReadInv'
  <2>1. \A n \in Mems : \A s \in readq[n] :
          s.ln \in DOMAIN mshr /\ ReadAlone(s.ln)
    BY DEF ReadInv
  <2>2. \A n \in Mems : \A s \in readq'[n] :
           /\ s.ln \in DOMAIN mshr'
           /\ ReadAlone(s.ln)'
           /\ Version(s.ln)' = Version(s.ln)
           /\ Placed(s.ln) /\ (~ Has(writeq[n], s.ln) => ~ Has(writeq'[n], s.ln))
    BY <1>2, <1>4, <1>8, <1>10, <2>1, StayPlaced DEF Version, ReadAlone
  <2> QED
    BY <1>2, <1>10, <2>2, ReadsStay
<1> QED
  BY <1>4, <1>5, <1>6, <1>11, <1>12, <1>13, <1>14

\* A write is served: the value moves from the queue into the frame.
LEMMA ServeWriteStep ==
  ASSUME IInv, NEW m \in Mems, ServeWrite(m)
  PROVE  IInv'
<1> USE DEF IInv
<1>1. PICK i \in 1..Len(writeq[m]) :
        /\ \A j \in 1..(i-1) : writeq[m][j].fl # writeq[m][i].fl
        /\ mem' = [mem EXCEPT ![m][writeq[m][i].fl] = writeq[m][i].val]
        /\ writeq' = [writeq EXCEPT ![m] = RemoveAt(@, i)]
  BY DEF ServeWrite
<1>2. UNCHANGED <<pageVars, mig_status, selVars, stageVars, mig_window, migq, buffer,
                 readq, cacheVars, migs>>
  BY DEF ServeWrite
<1>3. UNCHANGED <<lines_in_page, dom, frame_addr, free, wait_list, mshr, cached, latest,
                 crossed, reqs>>
  BY <1>2 DEF pageVars, cacheVars
<1>4. FrameInv' /\ StageInv' /\ BufferInv' /\ \A l : Stay(l)
  BY <1>2, MigrationAlone
<1> DEFINE s == writeq[m]
           t == RemoveAt(s, i)
           c == mem[m]
           d == [c EXCEPT ![s[i].fl] = s[i].val]
<1>5. /\ writeq'[m] = t /\ \A n \in Mems : n # m => writeq'[n] = writeq[n]
      /\ mem'[m] = d /\ \A n \in Mems : n # m => mem'[n] = mem[n]
      /\ DOMAIN writeq' = Mems /\ DOMAIN mem' = Mems
  BY <1>1 DEF Funs
<1>6. /\ s \in Seq(Writes(m)) /\ i \in 1..Len(s) /\ c \in [FrameLines(m) -> Vals]
      /\ s[i].fl \in FrameLines(m) /\ s[i].val \in Vals
      /\ \A j \in 1..(i-1) : s[j].fl # s[i].fl
  BY <1>1, QueueTypes, EntryTypes
<1>7. ASSUME NEW l, NEW fl \in FrameLines(m), QueueOk(s, l, fl)
      PROVE  /\ QueueOk(t, l, fl) /\ Store(t, d, l, fl) = Store(s, c, l, fl)
  <2> HIDE DEF s, c
  <2>1. d[fl] = IF s[i].fl = fl THEN s[i].val ELSE c[fl]
    BY <1>6
  <2> HIDE DEF d
  <2>2. i \in 1..Len(s) /\ \A j \in 1..(i-1) : s[j].fl # s[i].fl
    BY <1>6
  <2>3. QueueOk(t, l, fl)
    BY <1>6, <1>7, <2>1, <2>2, ServeQueue
  <2>4. Store(t, d, l, fl) = Store(s, c, l, fl)
    BY <1>6, <1>7, <2>1, <2>2, ServeQueue
  <2> QED
    BY <2>3, <2>4
<1>8. /\ t \in Seq(Writes(m)) /\ d \in [FrameLines(m) -> Vals]
      /\ \A l : ~ Has(s, l) => ~ Has(t, l)
  <2> HIDE DEF s, c
  <2>1. t \in Seq(Writes(m)) /\ Without(t, s, i)
    BY <1>6, TakenOut
  <2>2. \A l : ~ Has(s, l) => ~ Has(t, l)
    <3> HIDE DEF t
    <3>1. \A k \in 1..Len(t) : \E o \in 1..Len(s) : t[k] = s[o]
      BY <2>1 DEF Without
    <3> QED
      BY <3>1 DEF Has
  <2>3. d \in [FrameLines(m) -> Vals]
    BY <1>6
  <2> QED
    BY <2>1, <2>2, <2>3
<1> HIDE DEF s, c, t, d
<1>9. ASSUME NEW l \in Lines
      PROVE  /\ Home(l)' = Home(l)
             /\ InFrame(l) => QueueOk(writeq'[TargetMem(l)], l, TargetLine(l))
             /\ \A n \in Mems : ~ Has(writeq[n], l) => ~ Has(writeq'[n], l)
  <2>1. \A n \in Mems : ~ Has(writeq[n], l) => ~ Has(writeq'[n], l)
    BY <1>5, <1>8 DEF s
  <2>2. CASE ~ InFrame(l)
    BY <1>2, <1>4, <2>1, <2>2 DEF Home, Stay
  <2>3. CASE InFrame(l)
    <3>1. TargetMem(l) \in Mems /\ TargetLine(l) \in FrameLines(TargetMem(l))
      BY TargetIs
    <3>2. QueueOk(writeq[TargetMem(l)], l, TargetLine(l))
      BY <2>3 DEF LineOk
    <3>3. /\ QueueOk(writeq'[TargetMem(l)], l, TargetLine(l))
          /\ Store(writeq'[TargetMem(l)], mem'[TargetMem(l)], l, TargetLine(l))
               = Store(writeq[TargetMem(l)], mem[TargetMem(l)], l, TargetLine(l))
      <4>1. CASE TargetMem(l) = m
        BY <1>5, <1>7, <3>1, <3>2, <4>1 DEF s, c
      <4>2. CASE TargetMem(l) # m
        BY <1>5, <3>1, <3>2, <4>2
      <4> QED
        BY <4>1, <4>2
    <3>4. InFrame(l)' /\ TargetMem(l)' = TargetMem(l) /\ TargetLine(l)' = TargetLine(l)
      BY <1>4, <2>3 DEF Stay
    <3>5. Home(l) = Store(writeq[TargetMem(l)], mem[TargetMem(l)], l, TargetLine(l))
      BY <2>3 DEF Home
    <3>6. Home(l)' = Store(writeq'[TargetMem(l)], mem'[TargetMem(l)], l, TargetLine(l))
      BY <3>4 DEF Home, Store, Has, LastVal
    <3> QED
      BY <2>1, <3>3, <3>5, <3>6
  <2> QED
    BY <2>2, <2>3
<1>10. (\A l \in Lines : LineOk(l))'
  <2>1. Lines' = Lines
    BY <1>3, SameLines
  <2>2. ASSUME NEW l \in Lines
        PROVE  LineOk(l)'
    <3>1. NoWriteWaits(l)' /\ l \notin crossed' => Home(l) = Version(l)'
      BY <1>3 DEF LineOk, NoWriteWaits, Version
    <3> QED
      BY <1>3, <1>4, <1>9, <3>1, LineStays, StayPlaced
  <2> QED
    BY <2>1, <2>2
<1>11. WindowInv' /\ MigqInv'
  BY <1>2, <1>3, <1>4, <1>9, WindowAlone
<1>12. TypeOK'
  <2>1. Types
    BY TypeParts
  <2>2. WriteType' /\ MemType'
    BY <1>3, <1>5, <1>8, <2>1, SameLines DEF Types, WriteType, MemType
  <2> QED
    BY <1>2, <1>3, <2>2, TypesStay, TypePartsNext DEF Types
<1>13. Funs'
  BY <1>2, <1>3, <1>5, SameLines DEF Funs
<1>14. CacheInv'
  BY <1>3, CacheStays
<1>15. ReadInv'
  <2>1. \A n \in Mems : \A r \in readq[n] :
          /\ r.ln \in DOMAIN mshr /\ r.ln \in Lines
          /\ ReadAlone(r.ln)
    BY EntryTypes DEF ReadInv
  <2>2. \A n \in Mems : \A r \in readq'[n] :
           /\ r.ln \in DOMAIN mshr'
           /\ ReadAlone(r.ln)'
           /\ Version(r.ln)' = Version(r.ln)
           /\ Placed(r.ln) /\ (~ Has(writeq[n], r.ln) => ~ Has(writeq'[n], r.ln))
    BY <1>2, <1>3, <1>4, <1>9, <2>1, StayPlaced DEF Version, ReadAlone
  <2> QED
    BY <1>2, <1>3, <2>2, ReadsStay
<1> QED
  BY <1>4, <1>10, <1>11, <1>12, <1>13, <1>14, <1>15

\* What a migration read returns is a value: that of its line, unless the line was crossed.
LEMMA MigReturns ==
  ASSUME IInv, NEW m \in Mems, NEW r \in migq[m]
  PROVE  /\ r.ln \in Lines /\ ValueOf(m, r) \in Vals
         /\ r.ln \notin crossed => ValueOf(m, r) = Home(r.ln)
<1> USE DEF IInv
<1>1. /\ r.ln \in Lines /\ r.fl \in FrameLines(m) /\ r.val \in Vals \cup {NoVal}
      /\ mem[m] \in [FrameLines(m) -> Vals]
  BY EntryTypes, QueueTypes
<1>2. ValueOf(m, r) \in Vals
  BY <1>1 DEF ValueOf
<1>3. PICK i \in 1..Len(mig_window) : mig_window[i].ln = r.ln /\ mig_window[i].mem = m
  BY DEF MigqInv
<1>4. InFrame(r.ln) /\ ~ InBuffer(r.ln, 2) /\ MovedFrom(r.ln) = m
  BY <1>3, WindowHeld DEF WindowInv
<1>5. TargetMem(r.ln) = m
  BY <1>1, <1>4, TargetIs, MovedIs DEF Mems
<1>6. ASSUME r.ln \notin crossed
      PROVE  ValueOf(m, r) = Home(r.ln)
  <2>1. CASE r.val = Home(r.ln) /\ r.val # NoVal
    BY <2>1 DEF ValueOf
  <2>2. CASE ~ (r.val = Home(r.ln) /\ r.val # NoVal)
    <3>1. r.val = NoVal /\ r.fl = TargetLine(r.ln) /\ ~ Has(writeq[m], r.ln)
      BY <1>6, <2>2 DEF MigqInv
    <3> QED
      BY <1>1, <1>4, <1>5, <3>1 DEF ValueOf, Home, Store
  <2> QED
    BY <2>1, <2>2
<1> QED
  BY <1>1, <1>2, <1>6

\* A migration read returns the value its line has at that moment.
LEMMA ServeMigStep ==
  ASSUME IInv, NEW m \in Mems, ServeMig(m)
  PROVE  IInv'
<1> USE DEF IInv
<1>1. PICK r \in migq[m] :
        /\ migq' = [migq EXCEPT ![m] = @ \ {r}]
        /\ mig_window' = [i \in 1..Len(mig_window) |->
                           IF mig_window[i].ln = r.ln
                           THEN [mig_window[i] EXCEPT !.ready = TRUE, !.mem = m,
                                                      !.val = ValueOf(m, r)]
                           ELSE mig_window[i]]
  BY DEF ServeMig
<1>2. mig_status = 3 /\ UNCHANGED <<pageVars, mig_status, selVars, stageVars, buffer, readq,
                                    writeq, mem, cacheVars, migs>>
  BY DEF ServeMig
<1>3. UNCHANGED <<lines_in_page, dom, frame_addr, free, wait_list, mshr, cached, latest,
                 crossed, reqs>>
  BY <1>2 DEF pageVars, cacheVars
<1>4. FrameInv' /\ StageInv' /\ BufferInv' /\ \A l : Stay(l)
  BY <1>2, MigrationAlone
<1>5. (\A l \in Lines : LineOk(l))' /\ \A l : Home(l)' = Home(l)
  <2>1. \A l \in Lines : NoWriteWaits(l)' => NoWriteWaits(l) /\ Version(l)' = Version(l)
    BY <1>3 DEF NoWriteWaits, Version
  <2> QED
    BY <1>2, <1>3, <1>4, <2>1, LinesStay
<1>6. /\ r.ln \in Lines /\ ValueOf(m, r) \in Vals
      /\ r.ln \notin crossed => ValueOf(m, r) = Home(r.ln)
  BY MigReturns
<1>7. /\ \A i \in 1..Len(mig_window) : mig_window[i] \in WinEntries
      /\ Len(mig_window) \in Nat
  BY QueueTypes
<1>8. \A x : \A i \in 1..Len(mig_window) : mig_window[i] \in WinEntries =>
        LET w == [mig_window[i] EXCEPT !.ready = TRUE, !.mem = m, !.val = x]
        IN  /\ w.ln = mig_window[i].ln /\ w.ready = TRUE /\ w.mem = m /\ w.val = x
            /\ x \in Vals => w \in WinEntries
  BY DEF WinEntries
<1>9. /\ Len(mig_window') = Len(mig_window) /\ mig_window' \in Seq(WinEntries)
      /\ \A i \in 1..Len(mig_window) :
           /\ mig_window'[i].ln = mig_window[i].ln
           /\ IF mig_window[i].ln = r.ln
              THEN /\ mig_window'[i].ready = TRUE /\ mig_window'[i].mem = m
                   /\ mig_window'[i].val = ValueOf(m, r)
              ELSE mig_window'[i] = mig_window[i]
  <2>1. \A i \in 1..Len(mig_window) :
           /\ mig_window'[i] \in WinEntries
           /\ mig_window'[i].ln = mig_window[i].ln
           /\ IF mig_window[i].ln = r.ln
              THEN /\ mig_window'[i].ready = TRUE /\ mig_window'[i].mem = m
                   /\ mig_window'[i].val = ValueOf(m, r)
              ELSE mig_window'[i] = mig_window[i]
    BY <1>1, <1>6, <1>7, <1>8
  <2>2. DOMAIN mig_window' = 1..Len(mig_window)
    BY <1>1
  <2>3. mig_window' \in [1..Len(mig_window) -> WinEntries]
    BY <1>1, <2>1
  <2> QED
    BY <1>7, <2>1, <2>3
<1>10. \A n \in Mems : migq'[n] = IF n = m THEN migq[n] \ {r} ELSE migq[n]
  BY <1>1 DEF Funs
<1>11. PICK k \in 1..Len(mig_window) : mig_window[k].ln = r.ln /\ mig_window[k].mem = m
  BY DEF MigqInv
<1>12. \A i, j \in 1..Len(mig_window) : mig_window[i].ln = mig_window[j].ln => i = j
  BY DEF WindowInv
<1>13. TypeOK'
  <2>1. Types
    BY TypeParts
  <2>2. WindowType'
    BY <1>3, <1>9, SameLines DEF WindowType
  <2>3. ReadTypes'
    BY <1>2, <1>3, <1>10, <2>1, SameLines DEF Types, ReadTypes
  <2> QED
    BY <1>2, <1>3, <2>2, <2>3, TypesStay, TypePartsNext DEF Types
<1>14. Funs'
  BY <1>1, <1>2, <1>3, SameLines DEF Funs
<1>15. WindowInv'
  <2>1. \A l : MovedFrom(l)' = MovedFrom(l)
    BY <1>4 DEF Stay
  <2>2. (\A l : Unread(l)' <=> Unread(l)) /\ Vals' = Vals /\ crossed' = crossed
    BY <1>2, <1>3, <2>1, SameLines DEF Unread, stageVars
  <2>3. (\A i \in 1..Len(mig_window) :
           LET w == mig_window[i]
           IN  /\ MovedFrom(w.ln) = w.mem /\ ~ Unread(w.ln)
               /\ w.ln \notin DOMAIN buffer[w.mem]
               /\ w.ready => w.val \in Vals /\ (w.ln \notin crossed => w.val = Home(w.ln)))'
    <3> SUFFICES ASSUME NEW i \in 1..Len(mig_window)
                 PROVE  (LET w == mig_window[i]
                         IN  /\ MovedFrom(w.ln) = w.mem /\ ~ Unread(w.ln)
                             /\ w.ln \notin DOMAIN buffer[w.mem]
                             /\ w.ready => /\ w.val \in Vals
                                           /\ w.ln \notin crossed => w.val = Home(w.ln))'
      BY <1>9
    <3>1. LET w == mig_window[i]
          IN  /\ MovedFrom(w.ln) = w.mem /\ ~ Unread(w.ln)
              /\ w.ln \notin DOMAIN buffer[w.mem]
              /\ w.ready => w.val \in Vals /\ (w.ln \notin crossed => w.val = Home(w.ln))
      BY DEF WindowInv
    <3>2. CASE mig_window[i].ln = r.ln
      BY <1>2, <1>5, <1>6, <1>9, <1>11, <1>12, <2>1, <2>2, <3>1, <3>2
    <3>3. CASE mig_window[i].ln # r.ln
      BY <1>2, <1>5, <1>9, <2>1, <2>2, <3>1, <3>3
    <3> QED
      BY <3>2, <3>3
  <2>4. (\A i, j \in 1..Len(mig_window) : mig_window[i].ln = mig_window[j].ln => i = j)'
    BY <1>9, <1>12
  <2>5. (mig_status \in {1, 3} =>
           \A l \in Lines :
             MovedFrom(l) # "none" =>
               \/ Unread(l) \/ l \in DOMAIN buffer[MovedFrom(l)]
               \/ \E i \in 1..Len(mig_window) : mig_window[i].ln = l)'
    BY <1>2, <1>3, <1>9, <2>1, <2>2, SameLines DEF WindowInv
  <2> QED
    BY <1>2, <2>3, <2>4, <2>5 DEF WindowInv
<1>16. MigqInv'
  <2> SUFFICES ASSUME NEW n \in Mems, NEW s \in migq'[n]
               PROVE  (/\ \E i \in 1..Len(mig_window) :
                            /\ mig_window[i].ln = s.ln /\ mig_window[i].mem = n
                            /\ ~ mig_window[i].ready
                       /\ \A q \in migq[n] : q.ln = s.ln => q = s
                       /\ s.ln \notin crossed =>
                            \/ s.val = Home(s.ln) /\ s.val # NoVal
                            \/ /\ s.val = NoVal /\ s.fl = TargetLine(s.ln)
                               /\ ~ Has(writeq[n], s.ln))'
    BY DEF MigqInv
  <2>1. s \in migq[n] /\ (n = m => s # r)
    BY <1>10
  <2>2. PICK i \in 1..Len(mig_window) :
           /\ mig_window[i].ln = s.ln /\ mig_window[i].mem = n /\ ~ mig_window[i].ready
    BY <2>1 DEF MigqInv
  <2>3. s.ln # r.ln
    <3>1. s.ln = r.ln => i = k /\ n = m
      BY <1>11, <1>12, <2>2
    <3> QED
      BY <2>1, <3>1 DEF MigqInv
  <2>4. mig_window'[i] = mig_window[i] /\ i \in 1..Len(mig_window')
    BY <1>9, <2>2, <2>3
  <2>5. /\ \A q \in migq[n] : q.ln = s.ln => q = s
        /\ s.ln \notin crossed =>
           \/ s.val = Home(s.ln) /\ s.val # NoVal
           \/ /\ s.val = NoVal /\ s.fl = TargetLine(s.ln) /\ ~ Has(writeq[n], s.ln)
    BY <2>1 DEF MigqInv
  <2> QED
    BY <1>2, <1>3, <1>4, <1>5, <1>10, <2>2, <2>4, <2>5 DEF Stay
<1>17. CacheInv'
  BY <1>3, CacheStays
<1>18. ReadInv'
  <2>1. \A n \in Mems : \A s \in readq[n] :
          s.ln \in DOMAIN mshr /\ ReadAlone(s.ln)
    BY DEF ReadInv
  <2>2. \A n \in Mems : \A s \in readq'[n] :
           /\ s.ln \in DOMAIN mshr'
           /\ ReadAlone(s.ln)'
           /\ Version(s.ln)' = Version(s.ln)
           /\ Placed(s.ln) /\ (~ Has(writeq[n], s.ln) => ~ Has(writeq'[n], s.ln))
    BY <1>2, <1>3, <1>4, <2>1, StayPlaced DEF Version, ReadAlone
  <2> QED
    BY <1>2, <1>3, <2>2, ReadsStay
<1> QED
  BY <1>4, <1>5, <1>13, <1>14, <1>15, <1>16, <1>17, <1>18

\* A request is answered in the buffer.
LEMMA BufferHitStep ==
  ASSUME IInv, NeverRefused, BufferHit
  PROVE  IInv'
<1> USE DEF IInv
<1>1. PICK i \in 1..Len(wait_list) :
        LET r == wait_list[i]
            m == MovedFrom(r.ln)
        IN /\ Turn(i) /\ HitsBuffer(r, 1)
           /\ Cross(r.ln, Passes(i))
           /\ wait_list' = RemoveAt(wait_list, i)
           /\ IF r.type = "READ"
              THEN /\ cached' = [cached EXCEPT ![r.ln] = buffer[m][r.ln].val]
                   /\ mshr' = RestrictDomain(mshr, LAMBDA l : l # r.ln)
                   /\ UNCHANGED buffer
              ELSE /\ buffer' = Absorbed(m, r)
                   /\ UNCHANGED <<cached, mshr>>
           /\ UNCHANGED <<pageVars, mig_status, selVars, stageVars, mig_window, migq,
                          readq, writeq, mem, latest, reqs, migs>>
  BY DEF BufferHit
<1> DEFINE r == wait_list[i]
           ln == r.ln
           m == MovedFrom(ln)
<1>2. /\ Turn(i) /\ HitsBuffer(r, 1) /\ InBuffer(ln, 1)
      /\ wait_list' = RemoveAt(wait_list, i)
      /\ UNCHANGED <<pageVars, mig_status, selVars, stageVars, mig_window, migq,
                     readq, writeq, mem, latest, reqs, migs>>
  BY <1>1 DEF HitsBuffer
<1>3. UNCHANGED <<lines_in_page, dom, frame_addr, free>>
  BY <1>2 DEF pageVars
<1>4. ln \in Lines /\ r.type \in {"READ", "WRITE"}
  BY EntryTypes
<1>5. ASSUME r.type = "READ"
      PROVE  /\ cached' = [cached EXCEPT ![ln] = buffer[m][ln].val]
             /\ mshr' = RestrictDomain(mshr, LAMBDA l : l # ln)
             /\ UNCHANGED buffer
  BY <1>1, <1>5
<1>6. ASSUME r.type = "WRITE"
      PROVE  buffer' = [buffer EXCEPT ![m][ln].val = r.val] /\ UNCHANGED <<cached, mshr>>
  BY <1>1, <1>6 DEF Absorbed
<1>7. \A j \in 1..(i-1) : wait_list[j].ln # wait_list[i].ln \/ wait_list[i].ln \in crossed'
  <2>1. ~ Held(wait_list[i]) /\ (Passes(i) => wait_list[i].ln \in crossed')
    BY <1>1 DEF Held, Cross
  <2> QED
    BY <1>2, <2>1, OldestOfLine
<1>met. Cross(ln, Passes(i)) /\ crossed \subseteq crossed'
  BY <1>1 DEF Cross
<1> HIDE DEF r, ln, m
<1>8. r.type = "READ" => /\ DOMAIN mshr' = DOMAIN mshr \ {ln}
                         /\ \A l \in DOMAIN mshr' : mshr'[l] = mshr[l]
  BY <1>5 DEF RestrictDomain, Restrict
<1>9. /\ wait_list' \in Seq(Requests) /\ WaitInv'
      /\ \A k \in 1..Len(wait_list') : \E o \in 1..Len(wait_list) : wait_list'[k] = wait_list[o]
      /\ \A l : r.type = "READ" /\ ln = l => ReadAlone(l)'
      /\ \A l : NoWriteWaits(l)' /\ l \notin crossed' =>
           \/ NoWriteWaits(l)
           \/ r.type = "WRITE" /\ ln = l /\ r.val = Version(l)
      /\ r.type = "READ" /\ ln \notin crossed' => NoWriteWaits(ln)
  <2>1. \A l \in DOMAIN mshr : l \in DOMAIN mshr' \/ (l = ln /\ r.type = "READ")
    BY <1>4, <1>6, <1>8
  <2> QED
    BY <1>2, <1>3, <1>7, <1>met, <2>1, RequestLeaves DEF CacheInv, r, ln
<1>10. m \in Mems /\ ln \in DOMAIN buffer[m] /\ buffer[m][ln].st = 1
  <2>1. m \in {"none", "l1m", "l2m"}
    BY MovedIs DEF m
  <2> QED
    BY <1>2, <2>1 DEF InBuffer, Mems, m
<1>11. \A n \in Mems : \A l \in DOMAIN buffer[n] : /\ buffer[n][l] \in BufEntry /\ l \in Lines
                                                   /\ MovedFrom(l) = n
  BY DEF TypeOK, BufferInv
<1>12. r.type = "WRITE" => r.val \in Vals
  BY DEF CacheInv, WaitInv, r
<1>13. \A n \in Mems : /\ DOMAIN buffer'[n] = DOMAIN buffer[n]
                       /\ \A l \in DOMAIN buffer[n] :
                            /\ buffer'[n][l].st = buffer[n][l].st
                            /\ buffer'[n][l].val = IF l = ln /\ r.type = "WRITE"
                                                   THEN r.val ELSE buffer[n][l].val
                            /\ buffer'[n][l] \in BufEntry
  <2>1. CASE r.type = "READ"
    BY <1>5, <1>11, <2>1
  <2>2. CASE r.type = "WRITE"
    <3>1. \A x : \A e \in BufEntry :
            LET w == [e EXCEPT !.val = x]
            IN  w.st = e.st /\ w.val = x /\ (x \in Vals => w \in BufEntry)
      BY DEF BufEntry
    <3>2. \A n \in Mems : /\ DOMAIN buffer'[n] = DOMAIN buffer[n]
                          /\ \A l \in DOMAIN buffer[n] :
                               buffer'[n][l] = IF n = m /\ l = ln
                                               THEN [buffer[n][l] EXCEPT !.val = r.val]
                                               ELSE buffer[n][l]
      BY <1>6, <1>10, <2>2 DEF Funs
    <3>3. ASSUME NEW n \in Mems, NEW l \in DOMAIN buffer[n]
          PROVE  /\ buffer'[n][l].st = buffer[n][l].st
                 /\ buffer'[n][l].val = IF l = ln THEN r.val ELSE buffer[n][l].val
                 /\ buffer'[n][l] \in BufEntry
      <4>1. buffer[n][l] \in BufEntry /\ (l = ln => n = m)
        BY <1>11 DEF m
      <4>2. CASE l = ln
        <5>1. r.val \in Vals
          BY <1>12, <2>2
        <5>2. LET w == [buffer[n][l] EXCEPT !.val = r.val]
              IN  w.st = buffer[n][l].st /\ w.val = r.val /\ w \in BufEntry
          BY <3>1, <4>1, <5>1
        <5>3. buffer'[n][l] = [buffer[n][l] EXCEPT !.val = r.val]
          BY <3>2, <4>1, <4>2
        <5> QED
          BY <4>2, <5>2, <5>3
      <4>3. CASE l # ln
        BY <3>2, <4>1, <4>3
      <4> QED
        BY <4>2, <4>3
    <3> QED
      BY <2>2, <3>2, <3>3
  <2> QED
    BY <1>4, <2>1, <2>2
<1>14. mig_status \in {0, 203, 1, 2} => UNCHANGED buffer
  BY <1>10 DEF BufferInv
<1>15. FrameInv' /\ StageInv' /\ BufferInv' /\ \A l : Stay(l)
  BY <1>2, <1>13, <1>14, MigrationAlone
<1>16. \A l : Home(l)' = IF l = ln /\ r.type = "WRITE" THEN r.val ELSE Home(l)
  <2> TAKE l
  <2>1. CASE InFrame(l)
    BY <1>2, <1>15, <2>1 DEF Home, Store, Stay, InFrame
  <2>2. CASE InBuffer(l, 1)
    <3>1. MovedFrom(l) \in Mems /\ l \in DOMAIN buffer[MovedFrom(l)]
      BY <2>2, MovedIs DEF InBuffer, Mems
    <3>2. InBuffer(l, 1)' /\ MovedFrom(l)' = MovedFrom(l)
      BY <1>15, <2>2 DEF Stay
    <3>3. Home(l) = buffer[MovedFrom(l)][l].val /\ Home(l)' = buffer'[MovedFrom(l)][l].val
      BY <2>2, <3>2 DEF Home, InFrame
    <3> QED
      BY <1>13, <3>1, <3>3
  <2> QED
    BY <2>1, <2>2 DEF InFrame
<1>17. /\ Vals' = Vals /\ Lines' = Lines /\ \A l : Version(l)' = Version(l)
  BY <1>2, <1>3, SameLines DEF Version
<1>18. (\A l \in Lines : LineOk(l))'
  <2> SUFFICES ASSUME NEW l \in Lines
               PROVE  LineOk(l)'
    BY <1>17
  <2>1. LineOk(l)
    OBVIOUS
  <2>2. (InFrame(l) => QueueOk(writeq[TargetMem(l)], l, TargetLine(l)))'
    BY <1>2, <1>15, <2>1 DEF LineOk, Stay, QueueOk
  <2>3. Home(l)' \in Vals
    BY <1>12, <1>16, <2>1 DEF LineOk
  <2>4. NoWriteWaits(l)' /\ l \notin crossed' => Home(l)' = Version(l)
    <3>1. CASE l = ln /\ r.type = "WRITE"
      <4>1. ~ NoWriteWaits(l)
        BY <3>1 DEF NoWriteWaits, r, ln
      <4> QED
        BY <1>9, <1>16, <3>1, <4>1
    <3>2. CASE ~ (l = ln /\ r.type = "WRITE")
      BY <1>9, <1>16, <1>met, <2>1, <3>2 DEF LineOk
    <3> QED
      BY <3>1, <3>2
  <2> QED
    BY <1>17, <2>2, <2>3, <2>4 DEF LineOk
<1>19. WindowInv' /\ MigqInv'
  <2>1. ~ Kept(ln)
    BY <1>2 DEF Kept
  <2>2. \A l \in Lines : Kept(l) =>
           /\ Home(l)' = Home(l)
           /\ \A n \in Mems : ~ Has(writeq[n], l) => ~ Has(writeq'[n], l)
    BY <1>2, <1>16, <2>1
  <2>3. \A n \in Mems : DOMAIN buffer'[n] = DOMAIN buffer[n]
    BY <1>13
  <2> QED
    BY <1>2, <1>15, <1>met, <2>2, <2>3, WindowAlone
<1>20. buffer[m][ln].val \in Vals /\ Home(ln) = buffer[m][ln].val
  BY <1>2, <1>4, <1>10 DEF LineOk, Home, InFrame, m
<1>21. r.type = "READ" /\ ln \notin crossed' => cached'[ln] = Version(ln)
  BY <1>4, <1>5, <1>9, <1>20, <1>met DEF LineOk, TypeOK
<1>22. /\ cached \in [Lines -> Vals \cup {NoVal}] /\ cached' \in [Lines -> Vals \cup {NoVal}]
       /\ \A l \in Lines : l # ln \/ r.type = "WRITE" => cached'[l] = cached[l]
  <2>1. cached \in [Lines -> Vals \cup {NoVal}]
    BY DEF TypeOK
  <2> QED
    BY <1>4, <1>5, <1>6, <1>20, <2>1
<1>23. TypeOK'
  <2>1. Types
    BY TypeParts
  <2>2. CacheType'
    <3>1. DOMAIN mshr' \subseteq DOMAIN mshr /\ \A l \in DOMAIN mshr' : mshr'[l] = mshr[l]
      BY <1>4, <1>6, <1>8
    <3> QED
      BY <1>2, <1>3, <1>9, <1>22, <2>1, <3>1, SameLines DEF Types, CacheType
  <2>3. BufferType'
    BY <1>3, <1>11, <1>13, SameLines DEF BufferType
  <2>4. CrossType'
    BY <1>3, <1>4, <1>met, <2>1, SameLines DEF Types, CrossType, Cross
  <2> QED
    BY <1>2, <1>3, <2>2, <2>3, <2>4, TypesStay, TypePartsNext DEF Types
<1>24. Funs'
  <2>1. DOMAIN buffer' = Mems
    BY <1>4, <1>5, <1>6 DEF Funs
  <2> QED
    BY <1>2, <1>17, <2>1 DEF Funs
<1>25. CacheInv'
  <2>1. \A l \in DOMAIN mshr' : l \in DOMAIN mshr /\ l \in Lines /\ (r.type = "READ" => l # ln)
    BY <1>4, <1>6, <1>8 DEF TypeOK
  <2>2. \A l \in DOMAIN mshr' : cached'[l] = NoVal
    BY <1>4, <1>22, <2>1 DEF CacheInv
  <2>3. ASSUME NEW l \in Lines, l \notin crossed', cached'[l] # NoVal
        PROVE  cached'[l] = <<l, latest'[l]>>
    <3>1. CASE l = ln /\ r.type = "READ"
      BY <1>2, <1>21, <2>3, <3>1 DEF Version
    <3>2. CASE ~ (l = ln /\ r.type = "READ")
      BY <1>2, <1>4, <1>22, <1>met, <2>3, <3>2 DEF CacheInv, CacheCoherent
    <3> QED
      BY <3>1, <3>2
  <2> QED
    BY <1>9, <1>17, <2>2, <2>3 DEF CacheInv, CacheCoherent
<1>26. ReadInv'
  <2>1. \A n \in Mems : \A s \in readq[n] :
          s.ln \in DOMAIN mshr /\ ReadAlone(s.ln)
    BY DEF ReadInv
  <2>2. \A n \in Mems : \A s \in readq[n] : s.ln # ln \/ r.type = "WRITE"
    BY <1>4, <2>1 DEF r, ln, ReadAlone
  <2>3. \A l \in DOMAIN mshr : l # ln \/ r.type = "WRITE" => l \in DOMAIN mshr'
    BY <1>4, <1>6, <1>8
  <2>4. \A l : ReadAlone(l) => ReadAlone(l)'
    BY <1>9, <1>met DEF ReadAlone
  <2>5. \A n \in Mems : \A s \in readq'[n] :
           /\ s.ln \in DOMAIN mshr'
           /\ ReadAlone(s.ln)'
           /\ Version(s.ln)' = Version(s.ln)
           /\ Placed(s.ln) /\ (~ Has(writeq[n], s.ln) => ~ Has(writeq'[n], s.ln))
    BY <1>2, <1>15, <1>17, <2>1, <2>2, <2>3, <2>4, StayPlaced
  <2> QED
    BY <1>2, <1>met, <2>5, ReadsStay
<1> QED
  BY <1>15, <1>18, <1>19, <1>23, <1>24, <1>25, <1>26

\* The value of a line that is in a frame after the step.
LEMMA HomeNext ==
  ASSUME NEW l, InFrame(l)', NEW m, NEW fl, TargetMem(l)' = m, TargetLine(l)' = fl
  PROVE  Home(l)' = Store(writeq'[m], mem'[m], l, fl)
BY DEF Home, Store, Has, LastVal

\* The lines other than x: their values stay, their queues stay in order, and no
\* write of theirs comes or goes.
OthersKept(x) == \A l \in Lines : l # x /\ InFrame(l) =>
                   /\ QueueOk(writeq'[TargetMem(l)], l, TargetLine(l))
                   /\ Home(l)' = Home(l)
OthersQueued(x) ==
  \A n \in Mems : \A l : l # x => (Has(writeq'[n], l) <=> Has(writeq[n], l))

\* A write joins the queue of memory m, at a place no other line has.
LEMMA WriteJoins ==
  ASSUME TypeOK, Funs, FrameInv, BufferInv, NEW m \in Mems, NEW e \in Writes(m),
         writeq' = [writeq EXCEPT ![m] = Append(@, e)], UNCHANGED mem,
         \A l \in Lines : LineOk(l) /\ (l # e.ln => Placed(l)),
         \A l \in Lines : /\ InFrame(l) /\ TargetMem(l) = m /\ TargetLine(l) = e.fl
                          => l = e.ln
  PROVE  /\ writeq'[m] \in Seq(Writes(m)) /\ DOMAIN writeq' = Mems
         /\ \A n \in Mems : n # m => writeq'[n] = writeq[n]
         /\ OthersKept(e.ln) /\ OthersQueued(e.ln)
         /\ Has(writeq'[m], e.ln) /\ LastVal(writeq'[m], e.ln) = e.val
<1> DEFINE s == writeq[m]
           t == Append(s, e)
<1>1. s \in Seq(Writes(m)) /\ e \in Writes(m)
  BY QueueTypes
<1>2. writeq'[m] = t /\ DOMAIN writeq' = Mems /\ \A n \in Mems : n # m => writeq'[n] = writeq[n]
  BY DEF Funs
<1> HIDE DEF s
<1>3. /\ t \in Seq(Writes(m))
      /\ \A l : /\ Has(t, l) <=> Has(s, l) \/ e.ln = l
                /\ e.ln = l => LastVal(t, l) = e.val
                /\ Has(s, l) /\ e.ln # l => LastVal(t, l) = LastVal(s, l)
  BY <1>1, AppendQueue
<1>4. ASSUME NEW l, NEW fl, e.ln # l, e.fl # fl, QueueOk(s, l, fl)
      PROVE  QueueOk(t, l, fl)
  BY <1>1, <1>4, AppendOrder
<1> HIDE DEF t
<1>5. ASSUME NEW l \in Lines, l # e.ln, InFrame(l)
      PROVE  /\ QueueOk(writeq'[TargetMem(l)], l, TargetLine(l))
             /\ Home(l)' = Home(l)
  <2>1. TargetMem(l) \in Mems
    BY TargetIs
  <2>2. QueueOk(writeq[TargetMem(l)], l, TargetLine(l))
    BY <1>5 DEF LineOk
  <2>3. InFrame(l)' /\ TargetMem(l)' = TargetMem(l) /\ TargetLine(l)' = TargetLine(l)
    BY <1>5 DEF Placed
  <2>4. Home(l) = Store(writeq[TargetMem(l)], mem[TargetMem(l)], l, TargetLine(l))
    BY <1>5 DEF Home
  <2>5. Home(l)' = Store(writeq'[TargetMem(l)], mem'[TargetMem(l)], l, TargetLine(l))
    BY <2>3, HomeNext
  <2>6. CASE TargetMem(l) = m
    <3>1. TargetLine(l) # e.fl
      BY <1>5, <2>6
    <3>2. QueueOk(t, l, TargetLine(l))
      BY <1>4, <1>5, <2>2, <2>6, <3>1 DEF s
    <3>3. Store(t, mem[m], l, TargetLine(l)) = Store(s, mem[m], l, TargetLine(l))
      BY <1>3, <1>5 DEF Store
    <3> QED
      BY <1>2, <2>4, <2>5, <2>6, <3>2, <3>3 DEF s
  <2>7. CASE TargetMem(l) # m
    BY <1>2, <2>1, <2>2, <2>4, <2>5, <2>7
  <2> QED
    BY <2>6, <2>7
<1>6. OthersKept(e.ln)
  BY <1>5 DEF OthersKept
<1>7. OthersQueued(e.ln)
  BY <1>2, <1>3 DEF OthersQueued, s
<1> QED
  BY <1>2, <1>3, <1>6, <1>7 DEF s

\* A request is sent to its memory.
LEMMA SendDemandStep ==
  ASSUME IInv, NeverRefused, SendDemand
  PROVE  IInv'
<1> USE DEF IInv
<1>1. PICK i \in 1..Len(wait_list) :
        LET r == wait_list[i]
            m == TargetMem(r.ln)
        IN /\ Turn(i) /\ ~ Held(r) /\ ~ HitsBuffer(r, 1) /\ ~ Full(r)
           /\ Cross(r.ln, Passes(i) \/ (r.type = "READ" /\ Misses(m, r.ln, r.off)))
           /\ wait_list' = RemoveAt(wait_list, i)
           /\ IF r.type = "READ"
              THEN /\ readq' = [readq EXCEPT ![m] =
                                  @ \cup {ReadReq(m, r.ln, r.off, TargetLine(r.ln))}]
                   /\ UNCHANGED writeq
              ELSE /\ writeq' = [writeq EXCEPT ![m] =
                        Append(@, [ln |-> r.ln, off |-> r.off, fl |-> TargetLine(r.ln),
                                   val |-> r.val])]
                   /\ UNCHANGED readq
           /\ UNCHANGED <<pageVars, mig_status, selVars, stageVars, mig_window, migq,
                          buffer, mem, mshr, cached, latest, reqs, migs>>
  BY DEF SendDemand
<1>req. PICK r, ln, fl, m : /\ r = wait_list[i] /\ ln = r.ln
                            /\ fl = TargetLine(ln) /\ m = TargetMem(ln)
  OBVIOUS
<1> DEFINE q == ReadReq(m, ln, r.off, fl)
           e == [ln |-> ln, off |-> r.off, fl |-> fl, val |-> r.val]
<1>2. /\ Turn(i) /\ ~ Kept(ln) /\ InFrame(ln)
      /\ wait_list' = RemoveAt(wait_list, i)
      /\ UNCHANGED <<pageVars, mig_status, selVars, stageVars, mig_window, migq,
                     buffer, mem, mshr, cached, latest, reqs, migs>>
  BY <1>1, <1>req DEF InFrame, InBuffer, Kept, Held, HitsBuffer
<1>3. UNCHANGED <<lines_in_page, dom, frame_addr, free>>
  BY <1>2 DEF pageVars
<1>met. /\ Cross(ln, Passes(i) \/ (r.type = "READ" /\ Misses(m, ln, r.off)))
       /\ crossed \subseteq crossed'
  BY <1>1, <1>req DEF Cross
<1>4. ln \in Lines /\ r.type \in {"READ", "WRITE"} /\ r.off \in Offsets
  BY <1>req, EntryTypes
<1>5. r.type = "READ" => readq' = [readq EXCEPT ![m] = @ \cup {q}] /\ UNCHANGED writeq
  BY <1>1, <1>req DEF q
<1>6. r.type = "WRITE" => writeq' = [writeq EXCEPT ![m] = Append(@, e)] /\ UNCHANGED readq
  BY <1>1, <1>4, <1>req DEF e
<1>7. \A j \in 1..(i-1) : wait_list[j].ln # wait_list[i].ln \/ wait_list[i].ln \in crossed'
  <2>1. ~ Held(wait_list[i]) /\ (Passes(i) => wait_list[i].ln \in crossed')
    BY <1>1, <1>met, <1>req DEF Cross
  <2> QED
    BY <1>2, <2>1, OldestOfLine
<1>8. r.type = "READ" => ln \in DOMAIN mshr
  BY <1>req DEF CacheInv, WaitInv
<1>9. r.type = "WRITE" => r.val \in Vals
  BY <1>req DEF CacheInv, WaitInv
<1> HIDE DEF q, e
<1>10. /\ wait_list' \in Seq(Requests) /\ WaitInv'
       /\ \A k \in 1..Len(wait_list') : \E o \in 1..Len(wait_list) : wait_list'[k] = wait_list[o]
       /\ r.type = "READ" => ReadAlone(ln)'
       /\ \A l : NoWriteWaits(l)' /\ l \notin crossed' =>
            \/ NoWriteWaits(l)
            \/ r.type = "WRITE" /\ ln = l /\ r.val = Version(l)
       /\ r.type = "READ" /\ ln \notin crossed' => NoWriteWaits(ln)
  BY <1>2, <1>3, <1>7, <1>met, RequestLeaves, <1>req DEF CacheInv
<1>11. FrameInv' /\ StageInv' /\ BufferInv' /\ \A l : Stay(l)
  BY <1>2, MigrationAlone
<1>12. m \in Mems /\ fl \in FrameLines(m)
  BY <1>4, TargetIs, <1>req
<1>13. /\ Vals' = Vals /\ Lines' = Lines /\ \A l : Version(l)' = Version(l)
  BY <1>2, <1>3, SameLines DEF Version
<1>14. r.type = "WRITE" => e \in Writes(m)
  BY <1>4, <1>9, <1>12 DEF Writes, e
<1>15. e.ln = ln /\ e.fl = fl /\ e.val = r.val
  BY DEF e
<1>16. \A l \in Lines : InFrame(l) /\ TargetMem(l) = m /\ TargetLine(l) = fl => l = ln
  BY <1>2, <1>4, Injective, <1>req DEF Apart
<1>17. r.type = "WRITE" =>
         /\ writeq'[m] \in Seq(Writes(m)) /\ DOMAIN writeq' = Mems
         /\ \A n \in Mems : n # m => writeq'[n] = writeq[n]
         /\ OthersKept(ln) /\ OthersQueued(ln)
         /\ Has(writeq'[m], ln) /\ LastVal(writeq'[m], ln) = r.val
  BY <1>2, <1>6, <1>11, <1>12, <1>14, <1>15, <1>16, StayPlaced, WriteJoins
<1>18. \A n \in Mems : \A l : l # ln => (Has(writeq'[n], l) <=> Has(writeq[n], l))
  BY <1>4, <1>5, <1>17 DEF OthersQueued
<1>19. r.type = "WRITE" => /\ QueueOk(writeq'[m], ln, fl)
                           /\ Home(ln)' = r.val
  <2> SUFFICES ASSUME r.type = "WRITE"
               PROVE  QueueOk(writeq'[m], ln, fl) /\ Home(ln)' = r.val
    OBVIOUS
  <2>1. QueueOk(writeq[m], ln, fl)
    BY <1>2, <1>4, <1>req DEF LineOk
  <2>2. \A k \in 1..Len(writeq[m]) : writeq[m][k].ln = ln => writeq[m][k].fl = fl
    BY <2>1 DEF QueueOk
  <2>3. writeq[m] \in Seq(Writes(m)) /\ e \in Writes(m)
    BY <1>12, <1>14, QueueTypes
  <2>4. QueueOk(Append(writeq[m], e), ln, fl)
    BY <1>15, <2>2, <2>3, AppendOrder
  <2>5. writeq'[m] = Append(writeq[m], e)
    BY <1>6, <1>12 DEF Funs
  <2>6. InFrame(ln)' /\ TargetMem(ln)' = m /\ TargetLine(ln)' = fl
    BY <1>2, <1>11, <1>req DEF Stay
  <2>7. Home(ln)' = Store(writeq'[m], mem'[m], ln, fl)
    BY <2>6, HomeNext
  <2> QED
    BY <1>17, <2>4, <2>5, <2>7 DEF Store
<1>20. \A l \in Lines : ~ (l = ln /\ r.type = "WRITE") => Home(l)' = Home(l)
  <2> SUFFICES ASSUME NEW l \in Lines, ~ (l = ln /\ r.type = "WRITE")
               PROVE  Home(l)' = Home(l)
    OBVIOUS
  <2>1. CASE r.type = "READ"
    BY <1>2, <1>5, <1>11, <2>1, HomeStays
  <2>2. CASE r.type = "WRITE" /\ InFrame(l)
    BY <1>17, <2>2 DEF OthersKept
  <2>3. CASE ~ InFrame(l)
    BY <1>2, <1>11, <2>3 DEF Home, Stay
  <2> QED
    BY <1>4, <2>1, <2>2, <2>3
<1>21. (\A l \in Lines : LineOk(l))'
  <2> SUFFICES ASSUME NEW l \in Lines
               PROVE  LineOk(l)'
    BY <1>13
  <2>1. LineOk(l)
    OBVIOUS
  <2>2. CASE l = ln /\ r.type = "WRITE"
    <3>1. (InFrame(l) => QueueOk(writeq[TargetMem(l)], l, TargetLine(l)))'
      BY <1>11, <1>19, <2>2, <1>req DEF Stay, QueueOk
    <3>2. ~ NoWriteWaits(l)
      BY <2>2, <1>req DEF NoWriteWaits
    <3> QED
      BY <1>9, <1>10, <1>13, <1>19, <2>2, <3>1, <3>2 DEF LineOk
  <2>3. CASE ~ (l = ln /\ r.type = "WRITE")
    <3>1. InFrame(l) /\ QueueOk(writeq[TargetMem(l)], l, TargetLine(l)) =>
            QueueOk(writeq'[TargetMem(l)], l, TargetLine(l))
      BY <1>4, <1>5, <1>17, <2>3 DEF OthersKept
    <3>2. NoWriteWaits(l)' /\ l \notin crossed' => Home(l) = Version(l)'
      BY <1>10, <1>13, <1>met, <2>1, <2>3 DEF LineOk
    <3> QED
      BY <1>3, <1>11, <1>20, <2>1, <2>3, <3>1, <3>2, LineStays, StayPlaced
  <2> QED
    BY <2>2, <2>3
<1>22. WindowInv' /\ MigqInv'
  <2>1. \A l \in Lines : Kept(l) =>
           /\ Home(l)' = Home(l)
           /\ \A n \in Mems : ~ Has(writeq[n], l) => ~ Has(writeq'[n], l)
    BY <1>2, <1>18, <1>20
  <2> QED
    BY <1>2, <1>11, <1>met, <2>1, WindowAlone
<1>23. r.type = "READ" =>
         /\ q.ln = ln /\ q.fl = fl /\ q \in MigReads(m)
         /\ ln \notin crossed' =>
              \/ q.val = Version(ln)
              \/ q.val = NoVal /\ ~ Has(writeq[m], ln)
  <2> SUFFICES ASSUME r.type = "READ"
               PROVE  /\ q.ln = ln /\ q.fl = fl /\ q \in MigReads(m)
                      /\ ln \notin crossed' =>
                           \/ q.val = Version(ln)
                           \/ q.val = NoVal /\ ~ Has(writeq[m], ln)
    OBVIOUS
  <2>1. q = [ln |-> ln, fl |-> fl, val |-> Forwarded(m, ln, r.off)]
    BY DEF q, ReadReq
  <2>2. Forwarded(m, ln, r.off) \in Vals \cup {NoVal}
    BY <1>12, ForwardedIs
  <2>3. ASSUME ln \notin crossed'
        PROVE  q.val = Version(ln) \/ (q.val = NoVal /\ ~ Has(writeq[m], ln))
    <3>1. ~ Misses(m, ln, r.off)
      BY <1>met, <2>3 DEF Cross
    <3>2. NoWriteWaits(ln) /\ Home(ln) = Version(ln)
      BY <1>4, <1>10, <1>met, <2>3 DEF LineOk
    <3>3. Has(writeq[m], ln) => LastVal(writeq[m], ln) = Home(ln)
      BY <1>2, <1>req DEF Home, Store
    <3>4. q.val = IF Has(writeq[m], ln) THEN LastVal(writeq[m], ln) ELSE NoVal
      BY <1>12, <2>1, <3>1, ForwardedIs
    <3> QED
      BY <3>2, <3>3, <3>4
  <2> QED
    BY <1>4, <1>12, <2>1, <2>2, <2>3 DEF MigReads
<1>24. \A n \in Mems : readq'[n] = IF n = m /\ r.type = "READ" THEN readq[n] \cup {q}
                                                              ELSE readq[n]
  BY <1>4, <1>5, <1>6, <1>12 DEF Funs
<1>25. TypeOK'
  <2>1. Types
    BY TypeParts
  <2>2. CacheType'
    BY <1>2, <1>3, <1>10, <2>1, SameLines DEF Types, CacheType
  <2>3. ReadTypes'
    BY <1>2, <1>3, <1>23, <1>24, <2>1, SameLines DEF Types, ReadTypes
  <2>4. WriteType'
    <3>1. \A n \in Mems : writeq'[n] \in Seq(Writes(n))
      BY <1>4, <1>5, <1>17, QueueTypes
    <3> QED
      BY <1>3, <3>1, SameLines DEF WriteType
  <2>5. CrossType'
    BY <1>3, <1>4, <1>met, <2>1, SameLines DEF Types, CrossType, Cross
  <2> QED
    BY <1>2, <1>3, <2>2, <2>3, <2>4, <2>5, TypesStay, TypePartsNext DEF Types
<1>26. Funs'
  <2>1. DOMAIN readq' = Mems /\ DOMAIN writeq' = Mems
    BY <1>4, <1>5, <1>6 DEF Funs
  <2> QED
    BY <1>2, <1>13, <2>1 DEF Funs
<1>27. CacheInv'
  <2>1. CacheCoherent'
    BY <1>2, <1>13, <1>met DEF CacheInv, CacheCoherent
  <2> QED
    BY <1>2, <1>10, <2>1 DEF CacheInv
<1>28. ReadInv'
  <2>1. \A n \in Mems : \A s \in readq[n] :
          s.ln \in DOMAIN mshr /\ ReadAlone(s.ln)
    BY DEF ReadInv
  <2>2. \A n \in Mems : \A s \in readq[n] : s.ln # ln \/ (r.type = "WRITE" /\ ln \in crossed')
    BY <1>4, <1>met, <2>1, <1>req DEF ReadAlone
  <2>rest. \A l : ReadAlone(l) => ReadAlone(l)'
    BY <1>10, <1>met DEF ReadAlone
  <2> SUFFICES ASSUME NEW n \in Mems, NEW s \in readq'[n]
               PROVE  (/\ s.ln \in DOMAIN mshr
                       /\ ReadAlone(s.ln)
                       /\ \A o \in Mems : \A u \in readq[o] : u.ln = s.ln => o = n /\ u = s
                       /\ s.ln \notin crossed =>
                          \/ s.val = Version(s.ln)
                          \/ /\ s.val = NoVal /\ InFrame(s.ln) /\ n = TargetMem(s.ln)
                             /\ s.fl = TargetLine(s.ln) /\ ~ Has(writeq[n], s.ln))'
    BY DEF ReadInv
  <2>3. CASE s \in readq[n]
    <3>1. s.ln \in DOMAIN mshr /\ ReadAlone(s.ln)'
      BY <2>1, <2>3, <2>rest
    <3>2. \A o \in Mems : \A u \in readq'[o] : u.ln = s.ln => o = n /\ u = s
      <4>1. \A o \in Mems : \A u \in readq[o] : u.ln = s.ln => o = n /\ u = s
        BY <2>3 DEF ReadInv
      <4>2. s.ln # ln \/ r.type = "WRITE"
        BY <2>2, <2>3
      <4> SUFFICES ASSUME NEW o \in Mems, NEW u \in readq'[o], u.ln = s.ln, u \notin readq[o]
                   PROVE  FALSE
        BY <4>1
      <4>3. u = q /\ r.type = "READ"
        BY <1>24
      <4> QED
        BY <1>23, <4>2, <4>3
    <3>3. s.ln \notin crossed' =>
          \/ s.val = Version(s.ln)
          \/ /\ s.val = NoVal /\ InFrame(s.ln) /\ n = TargetMem(s.ln)
             /\ s.fl = TargetLine(s.ln) /\ ~ Has(writeq[n], s.ln)
      BY <1>met, <2>3 DEF ReadInv
    <3>4. s.ln \notin crossed' => (Has(writeq'[n], s.ln) <=> Has(writeq[n], s.ln))
      BY <1>18, <2>2, <2>3
    <3> QED
      BY <1>2, <1>11, <1>13, <3>1, <3>2, <3>3, <3>4 DEF Stay
  <2>4. CASE s \notin readq[n]
    <3>1. n = m /\ s = q /\ r.type = "READ"
      BY <1>24, <2>4
    <3>2. s.ln \in DOMAIN mshr /\ ReadAlone(s.ln)'
      BY <1>8, <1>10, <1>23, <3>1
    <3>3. \A o \in Mems : \A u \in readq'[o] : u.ln = s.ln => o = n /\ u = s
      BY <1>23, <1>24, <2>2, <3>1
    <3>4. writeq' = writeq
      BY <1>5, <3>1
    <3>5. InFrame(ln)' /\ m = TargetMem(ln)' /\ fl = TargetLine(ln)'
      BY <1>2, <1>11, <1>req DEF Stay
    <3> QED
      BY <1>2, <1>13, <1>23, <3>1, <3>2, <3>3, <3>4, <3>5
  <2> QED
    BY <2>3, <2>4
<1> QED
  BY <1>11, <1>21, <1>22, <1>25, <1>26, <1>27, <1>28

(***************************************************************************)
(* The steps of the migration controller.                                  *)
(***************************************************************************)
\* A step of the controller that leaves the lines where they are leaves the
\* demand requests alone.
LEMMA DemandAlone ==
  ASSUME IInv, UNCHANGED <<lines_in_page, readq, writeq, wait_list, cached, latest>>,
         crossed \subseteq crossed', DOMAIN mshr' = DOMAIN mshr,
         \A l \in Lines : Placed(l) /\ Home(l)' = Home(l)
  PROVE  (\A l \in Lines : LineOk(l))' /\ CacheInv' /\ ReadInv'
<1> USE DEF IInv
<1>1. CacheInv' /\ \A l : Version(l)' = Version(l) /\ (NoWriteWaits(l)' <=> NoWriteWaits(l))
  BY CacheStays
<1>2. (\A l \in Lines : LineOk(l))'
  <2>1. Lines' = Lines
    BY SameLines
  <2> SUFFICES ASSUME NEW l \in Lines
               PROVE  LineOk(l)'
    BY <2>1
  <2>2. NoWriteWaits(l)' /\ l \notin crossed' => Home(l) = Version(l)'
    BY <1>1 DEF LineOk
  <2> QED
    BY <2>2, LineStays
<1>3. ReadInv'
  <2>1. \A m \in Mems : \A r \in readq[m] :
          /\ r.ln \in DOMAIN mshr /\ r.ln \in Lines
          /\ ReadAlone(r.ln)
    BY EntryTypes DEF ReadInv
  <2>2. \A m \in Mems : \A r \in readq'[m] :
           /\ r.ln \in DOMAIN mshr'
           /\ ReadAlone(r.ln)'
           /\ Version(r.ln)' = Version(r.ln)
           /\ Placed(r.ln) /\ (~ Has(writeq[m], r.ln) => ~ Has(writeq'[m], r.ln))
    BY <1>1, <2>1 DEF ReadAlone
  <2> QED
    BY <2>2, ReadsStay
<1> QED
  BY <1>1, <1>2, <1>3

\* Nothing is being read for a migration.
LEMMA WindowEmpty ==
  ASSUME MigqInv, mig_window = <<>>, UNCHANGED <<mig_window, migq>>, mig_status' \notin {1, 3}
  PROVE  WindowInv' /\ MigqInv'
<1>1. \A m \in Mems : \A r \in migq[m] : FALSE
  BY DEF MigqInv
<1> QED
  BY <1>1 DEF WindowInv, MigqInv

\* The buffers are empty.
LEMMA BuffersEmpty ==
  ASSUME \A m \in Mems : buffer'[m] = <<>>, mig_status' \in {0, 203, 1, 2}
  PROVE  BufferInv' /\ \A l : ~ InBuffer(l, 1)' /\ ~ InBuffer(l, 2)'
<1>1. \A m \in Mems : \A l \in DOMAIN buffer'[m] : FALSE
  OBVIOUS
<1>2. BufferInv'
  BY <1>1 DEF BufferInv
<1>4. \A l : MovedFrom(l)' # "none" => MovedFrom(l)' \in Mems
  BY DEF MovedFrom, Mems
<1>5. \A l : ~ InBuffer(l, 1)' /\ ~ InBuffer(l, 2)'
  BY <1>1, <1>4 DEF InBuffer
<1> QED
  BY <1>2, <1>5

\* A migration is selected.
LEMMA SelectStep ==
  ASSUME IInv, Select
  PROVE  IInv'
<1> USE DEF IInv
<1>1. PICK p \in Pages :
       /\ dom[p] = "l2m"
       /\ hot_pg_num' = p /\ hot_frame_addr' = frame_addr[p]
       /\ \/ \E f \in free : /\ mig_type' = 1 /\ cold_frame_addr' = f
                             /\ free' = free \ {f}
                             /\ UNCHANGED cold_pg_num
          \/ \E q \in Pages : /\ free = {} /\ dom[q] = "l1m"
                              /\ mig_type' = 2
                              /\ cold_pg_num' = q /\ cold_frame_addr' = frame_addr[q]
                              /\ UNCHANGED free
  BY DEF Select
<1>2. /\ mig_status = 0 /\ mig_status' = 203
      /\ UNCHANGED <<lines_in_page, dom, frame_addr, stageVars, mig_window, migq, buffer,
                     readq, writeq, mem, cacheVars>>
  BY DEF Select
<1>3. UNCHANGED <<wait_list, mshr, cached, latest, crossed, reqs>>
  BY <1>2 DEF cacheVars
<1>4. cold_pg_num = NoPage /\ (\A m \in Mems : buffer'[m] = <<>>) /\ mig_window = <<>>
  BY <1>2 DEF FrameInv, BufferInv, WindowInv
<1>5. BufferInv'
  BY <1>2, <1>4, BuffersEmpty
<1>6. WindowInv' /\ MigqInv'
  BY <1>2, <1>4, WindowEmpty
<1>7. \A l : Stay(l)
  BY <1>2 DEF Stay, MovedFrom, InBuffer, InFrame, TargetMem, TargetLine, WrittenAway
<1>8. \A l : Home(l)' = Home(l)
  BY <1>2, <1>7, HomeStays
<1>9. (\A l \in Lines : LineOk(l))' /\ CacheInv' /\ ReadInv'
  BY <1>2, <1>3, <1>7, <1>8, DemandAlone, StayPlaced
<1>10. /\ \A x \in Pages : /\ frame_addr[x] \in Frames(dom[x])
                           /\ dom[x] = "l1m" => frame_addr[x] \notin free
       /\ \A x, y \in Pages : dom[x] = dom[y] /\ frame_addr[x] = frame_addr[y] => x = y
       /\ free \subseteq L1Frames
  BY DEF FrameInv, TypeOK
<1>11. /\ hot_frame_addr' \in L2Frames /\ cold_frame_addr' \in L1Frames
       /\ free' \subseteq free /\ mig_type' \in {1, 2}
       /\ mig_type' = 1 => /\ cold_pg_num' = NoPage /\ cold_frame_addr' \notin free'
                           /\ \A x \in Pages : dom[x] = "l1m" => frame_addr[x] # cold_frame_addr'
       /\ mig_type' = 2 => /\ cold_pg_num' \in Pages /\ dom[cold_pg_num'] = "l1m"
                           /\ cold_frame_addr' = frame_addr[cold_pg_num']
  BY <1>1, <1>4, <1>10 DEF Frames
<1>12. FrameInv'
  BY <1>1, <1>2, <1>10, <1>11 DEF FrameInv, Frames
<1>13. StageInv'
  BY <1>2 DEF StageInv, stageVars
<1>14. TypeOK'
  <2>1. PageType'
    BY <1>2, <1>11, TypesStay
  <2>2. SelType'
    BY <1>1, <1>2, <1>11 DEF SelType
  <2> QED
    BY <1>2, <1>3, <2>1, <2>2, TypesStay, TypePartsNext DEF Types
<1>15. Funs'
  BY <1>2, <1>3, SameLines DEF Funs
<1> QED
  BY <1>5, <1>6, <1>9, <1>12, <1>13, <1>14, <1>15

\* All the lines of a page or a frame.
LEMMA AllLines ==
  ASSUME TypeOK, NEW x
  PROVE  LET s == [k \in LineNums |-> <<x, k>>]
         IN  /\ \A S : x \in S => s \in Seq(S \X LineNums)
             /\ Len(s) = lines_in_page /\ Rest(s, x) /\ <<>> \o s = s
<1> DEFINE s == [k \in LineNums |-> <<x, k>>]
<1>1. lines_in_page \in Nat
  BY MgAssumption DEF TypeOK
<1>2. \A S : x \in S => s \in Seq(S \X LineNums)
  BY <1>1 DEF LineNums
<1>3. s \in Seq({x} \X LineNums) /\ Len(s) = lines_in_page
  BY <1>1 DEF LineNums
<1>4. Rest(s, x)
  <2>1. s = [k \in 1..Len(s) |-> <<x, lines_in_page - Len(s) + k>>]
    BY <1>1, <1>3 DEF LineNums
  <2> QED
    BY <1>1, <1>3, <2>1 DEF Rest
<1>5. <<>> \o s = s
  <2> HIDE DEF s
  <2> QED
    BY <1>3
<1> QED
  BY <1>2, <1>3, <1>4, <1>5

\* The staging queues are filled.
LEMMA FillStep ==
  ASSUME IInv, StagesEmptied, onfly_fill_mig_stage_q
  PROVE  IInv'
<1> USE DEF IInv
<1>1. /\ mig_status = 203 /\ mig_status' \in {1, 2}
      /\ DOMAIN mshr' = DOMAIN mshr
      /\ \A l \in DOMAIN mshr : mshr'[l] = 1 \/ mshr'[l] = mshr[l]
  BY DEF onfly_fill_mig_stage_q
<1>2. UNCHANGED <<pageVars, selVars, hot_writes, cold_writes, mig_window, migq, buffer,
                  readq, writeq, mem, wait_list, cached, latest, crossed, reqs, migs>>
  BY DEF onfly_fill_mig_stage_q
<1>3. /\ UNCHANGED <<lines_in_page, dom, frame_addr, free>>
      /\ UNCHANGED <<mig_type, hot_pg_num, cold_pg_num, hot_frame_addr, cold_frame_addr>>
  BY <1>2 DEF pageVars, selVars
<1>4. /\ hotq.pg = <<>> /\ hotq.fr = <<>> /\ hotq.pg_backup = <<>>
      /\ coldq.pg = <<>> /\ coldq.pg_backup = <<>> /\ coldq.fr_backup = <<>>
      /\ hot_writes = 0 /\ cold_writes = 0
  BY <1>1 DEF StageInv
<1>5. /\ hot_pg_num \in Pages /\ hot_frame_addr \in L2Frames /\ cold_frame_addr \in L1Frames
      /\ mig_type \in {1, 2}
      /\ mig_type = 2 => cold_pg_num \in Pages
  <2>1. /\ hot_pg_num \in Pages /\ dom[hot_pg_num] = "l2m"
        /\ hot_frame_addr = frame_addr[hot_pg_num]
        /\ cold_frame_addr \in L1Frames
        /\ mig_type \in {1, 2}
        /\ mig_type = 2 => cold_pg_num \in Pages
    BY <1>1 DEF FrameInv
  <2>2. frame_addr[hot_pg_num] \in Frames(dom[hot_pg_num])
    BY <2>1 DEF FrameInv
  <2> QED
    BY <2>1, <2>2 DEF Frames
<1>6. /\ hotq \in StageQ /\ coldq \in StageQ /\ lines_in_page \in Nat /\ lines_in_page >= 1
  BY MgAssumption DEF TypeOK
<1> DEFINE HP == PageLines(hot_pg_num)
           HF == FrameLinesOf(hot_frame_addr)
           CP == PageLines(cold_pg_num)
           CF == FrameLinesOf(cold_frame_addr)
           FL == (L1Frames \cup L2Frames) \X LineNums
<1>7. /\ HP \in Seq(Lines) /\ Len(HP) = lines_in_page /\ Rest(HP, hot_pg_num) /\ <<>> \o HP = HP
      /\ HF \in Seq(FL) /\ Len(HF) = lines_in_page /\ Rest(HF, hot_frame_addr) /\ <<>> \o HF = HF
      /\ CF \in Seq(FL) /\ Len(CF) = lines_in_page /\ Rest(CF, cold_frame_addr) /\ <<>> \o CF = CF
      /\ Len(CP) = lines_in_page /\ Rest(CP, cold_pg_num) /\ <<>> \o CP = CP
      /\ mig_type = 2 => CP \in Seq(Lines)
  BY <1>5, AllLines DEF PageLines, FrameLinesOf, Lines
<1> HIDE DEF HP, HF, CP, CF, FL
<1>8. /\ hotq'.pg = HP /\ hotq'.fr = HF /\ hotq'.pg_backup = HP
      /\ hotq'.fr_backup = hotq.fr_backup \o HF
      /\ hotq' = [pg |-> HP, fr |-> HF, pg_backup |-> HP, fr_backup |-> hotq.fr_backup \o HF]
  <2>1. hotq' = Filled(hotq, hot_pg_num, hot_frame_addr)
    BY <1>4 DEF onfly_fill_mig_stage_q
  <2>2. hotq' = [pg |-> HP, fr |-> HF, pg_backup |-> HP, fr_backup |-> hotq.fr_backup \o HF]
    BY <1>4, <1>7, <2>1 DEF Filled, HP, HF
  <2> QED
    BY <2>2
<1>9. mig_type = 1 => /\ coldq'.pg = <<>> /\ coldq'.pg_backup = <<>> /\ coldq'.fr_backup = CF
                      /\ coldq' = [pg |-> <<>>, fr |-> coldq.fr \o CF, pg_backup |-> <<>>,
                                   fr_backup |-> CF]
  <2> SUFFICES ASSUME mig_type = 1
               PROVE  coldq' = [pg |-> <<>>, fr |-> coldq.fr \o CF, pg_backup |-> <<>>,
                                fr_backup |-> CF]
    OBVIOUS
  <2>1. coldq' = FilledFrames(coldq, cold_frame_addr)
    BY <1>4 DEF onfly_fill_mig_stage_q
  <2>2. coldq = [pg |-> coldq.pg, fr |-> coldq.fr, pg_backup |-> coldq.pg_backup,
                 fr_backup |-> coldq.fr_backup]
    BY <1>6 DEF StageQ
  <2> QED
    BY <1>4, <1>7, <2>1, <2>2 DEF FilledFrames, CF
<1>10. mig_type = 2 =>
         /\ coldq'.pg = CP /\ coldq'.fr = CF /\ coldq'.pg_backup = CP /\ coldq'.fr_backup = CF
         /\ hotq'.fr_backup = HF
         /\ coldq' = [pg |-> CP, fr |-> CF, pg_backup |-> CP, fr_backup |-> CF]
  <2> SUFFICES ASSUME mig_type = 2
               PROVE  /\ coldq' = [pg |-> CP, fr |-> CF, pg_backup |-> CP, fr_backup |-> CF]
                      /\ hotq'.fr_backup = HF
    OBVIOUS
  <2>1. coldq.fr = <<>> /\ hotq.fr_backup = <<>>
    BY <1>1 DEF StagesEmptied
  <2>2. coldq' = Filled(coldq, cold_pg_num, cold_frame_addr)
    BY <1>4 DEF onfly_fill_mig_stage_q
  <2> QED
    BY <1>4, <1>7, <1>8, <2>1, <2>2 DEF Filled, CP, CF
<1>11. \A s, x : Rest(s, x)' <=> Rest(s, x)
  BY <1>3 DEF Rest
<1>12. StageInv'
  <2>1. (/\ Rest(hotq.pg, hot_pg_num)
         /\ Rest(hotq.fr, hot_frame_addr) /\ Len(hotq.fr) = Len(hotq.pg)
         /\ Rest(hotq.pg_backup, hot_pg_num) /\ Len(hotq.pg_backup) = lines_in_page
         /\ Rest(coldq.fr_backup, cold_frame_addr) /\ Len(coldq.fr_backup) = lines_in_page)'
    <3>1. coldq'.fr_backup = CF
      BY <1>5, <1>9, <1>10
    <3>2. hotq'.pg = HP /\ hotq'.fr = HF /\ hotq'.pg_backup = HP
      BY <1>8
    <3> QED
      <4>1. /\ Rest(hotq'.pg, hot_pg_num) /\ Len(hotq'.pg) = lines_in_page
            /\ Rest(hotq'.fr, hot_frame_addr) /\ Len(hotq'.fr) = lines_in_page
            /\ Rest(hotq'.pg_backup, hot_pg_num)
            /\ Len(hotq'.pg_backup) = lines_in_page
            /\ Rest(coldq'.fr_backup, cold_frame_addr)
            /\ Len(coldq'.fr_backup) = lines_in_page
        BY <1>7, <3>1, <3>2
      <4> QED
        BY <1>3, <1>11, <4>1
  <2>2. (mig_type = 1 => coldq.pg = <<>> /\ coldq.pg_backup = <<>>)'
    BY <1>3, <1>9
  <2>3. (mig_type = 2 =>
            /\ Rest(coldq.pg, cold_pg_num)
            /\ Rest(coldq.fr, cold_frame_addr) /\ Len(coldq.fr) = Len(coldq.pg)
            /\ Rest(coldq.pg_backup, cold_pg_num) /\ Len(coldq.pg_backup) = lines_in_page
            /\ Rest(hotq.fr_backup, hot_frame_addr) /\ Len(hotq.fr_backup) = lines_in_page)'
    BY <1>3, <1>7, <1>10, <1>11
  <2>4. (hot_writes = 0 /\ cold_writes = 0)'
    BY <1>2, <1>4
  <2>5. (mig_status = 2 => /\ Len(hotq.pg) = lines_in_page
                           /\ mig_type = 2 => Len(coldq.pg) = lines_in_page)'
    BY <1>3, <1>7, <1>8, <1>10
  <2> QED
    BY <1>1, <2>1, <2>2, <2>3, <2>4, <2>5 DEF StageInv
<1>13. FrameInv'
  <2>1. mig_status' # 0 /\ mig_status # 0
    BY <1>1
  <2> QED
    BY <1>3, <2>1 DEF FrameInv
<1>14. \A m \in Mems : buffer[m] = <<>> /\ buffer'[m] = <<>>
  BY <1>1, <1>2 DEF BufferInv
<1>15. BufferInv' /\ \A l : ~ InBuffer(l, 1)' /\ ~ InBuffer(l, 2)'
  BY <1>1, <1>14, BuffersEmpty
<1>16. \A l : Placed(l) /\ Home(l)' = Home(l)
  <2>1. \A l : ~ InBuffer(l, 1) /\ ~ InBuffer(l, 2)
    BY <1>1 DEF InBuffer, MovedFrom
  <2>2. \A l : Placed(l)
    BY <1>3, <1>15, <2>1 DEF Placed, InFrame, TargetMem, TargetLine, WrittenAway
  <2>3. \A l : InFrame(l) /\ InFrame(l)'
    BY <1>15, <2>1 DEF InFrame
  <2> QED
    BY <1>2, <2>2, <2>3, HomeNext DEF Home, Placed
<1>17. (\A l \in Lines : LineOk(l))' /\ CacheInv' /\ ReadInv'
  BY <1>1, <1>2, <1>3, <1>16, DemandAlone
<1>18. WindowInv' /\ MigqInv'
  <2>1. mig_window = <<>> /\ \A m \in Mems : \A r \in migq[m] : FALSE
    BY <1>1 DEF WindowInv, MigqInv
  <2>2. MigqInv'
    BY <1>2, <2>1 DEF MigqInv
  <2>3. \A l \in Lines : MovedFrom(l)' # "none" => Unread(l)'
    <3> SUFFICES ASSUME NEW l \in Lines, MovedFrom(l)' # "none"
                 PROVE  Unread(l)'
      OBVIOUS
    <3>1. l[2] \in 1..lines_in_page
      BY DEF Lines, LineNums
    <3>2. MovedFrom(l)' = "l2m" \/ (MovedFrom(l)' = "l1m" /\ mig_type = 2)
      BY <1>3 DEF MovedFrom
    <3> QED
      BY <1>3, <1>6, <1>7, <1>8, <1>10, <3>1, <3>2 DEF Unread
  <2>4. Lines' = Lines
    BY <1>3, SameLines
  <2> QED
    BY <1>2, <2>1, <2>2, <2>3, <2>4 DEF WindowInv
<1>19. TypeOK'
  <2>1. Types
    BY TypeParts
  <2>2. SelType'
    BY <1>1, <1>3, <2>1 DEF Types, SelType
  <2>3. CacheType'
    BY <1>1, <1>2, <1>3, <2>1, SameLines DEF Types, CacheType
  <2>4. StageType'
    <3>1. hotq.fr_backup \in Seq(FL) /\ coldq.fr \in Seq(FL)
      BY <1>6 DEF StageQ, FL
    <3>2. hotq.fr_backup \o HF \in Seq(FL) /\ coldq.fr \o CF \in Seq(FL)
      BY <1>7, <3>1
    <3>3. <<>> \in Seq(Lines)
      OBVIOUS
    <3>4. \A a, c \in Seq(Lines), b, d \in Seq(FL) :
            [pg |-> a, fr |-> b, pg_backup |-> c, fr_backup |-> d] \in StageQ
      BY DEF StageQ, FL
    <3>5. hotq' \in StageQ
      BY <1>7, <1>8, <3>2, <3>4
    <3>6. coldq' \in StageQ
      <4>1. CASE mig_type = 1
        <5>1. coldq' = [pg |-> <<>>, fr |-> coldq.fr \o CF, pg_backup |-> <<>>,
                        fr_backup |-> CF]
          BY <1>9, <4>1
        <5>2. CF \in Seq(FL)
          BY <1>7
        <5> HIDE DEF FL
        <5> QED
          BY <3>2, <3>3, <3>4, <5>1, <5>2
      <4>2. CASE mig_type = 2
        BY <1>7, <1>10, <3>4, <4>2
      <4> QED
        BY <1>5, <4>1, <4>2
    <3> QED
      BY <1>2, <1>3, <2>1, <3>5, <3>6, SameLines DEF Types, StageType
  <2> QED
    BY <1>2, <1>3, <2>2, <2>3, <2>4, TypesStay, TypePartsNext DEF Types
<1>20. Funs'
  BY <1>2, <1>3, SameLines DEF Funs
<1> QED
  BY <1>12, <1>13, <1>15, <1>17, <1>18, <1>19, <1>20

\* No read of the page's is under way: the lines have yet to be asked for.
LEMMA PendingStep ==
  ASSUME IInv, onfly_mig_demand_pending
  PROVE  IInv'
<1> USE DEF IInv
<1>1. /\ mig_status = 2 /\ mig_status' = 1
      /\ UNCHANGED <<pageVars, selVars, stageVars, mig_window, migq, buffer, readq, writeq,
                     mem, wait_list, mshr, cached, latest, crossed, reqs>>
  BY DEF onfly_mig_demand_pending, cacheVars
<1>2. /\ UNCHANGED <<lines_in_page, dom, frame_addr, free>>
      /\ UNCHANGED <<mig_type, hot_pg_num, cold_pg_num, hot_frame_addr, cold_frame_addr>>
      /\ UNCHANGED <<hotq, coldq, hot_writes, cold_writes>>
  BY <1>1 DEF pageVars, selVars, stageVars
<1>3. \A l : Stay(l) /\ Home(l)' = Home(l)
  BY <1>1, <1>2, BufferStays, HomeStays
<1>4. (\A l \in Lines : LineOk(l))' /\ CacheInv' /\ ReadInv'
  BY <1>1, <1>2, <1>3, StayPlaced, DemandAlone
<1>5. FrameInv'
  <2>1. mig_status # 0 /\ mig_status' # 0
    BY <1>1
  <2> QED
    BY <1>2, <2>1 DEF FrameInv
<1>6. StageInv'
  BY <1>1, <1>2 DEF StageInv, Rest
<1>7. BufferInv'
  <2>1. \A m \in Mems : buffer'[m] = <<>>
    BY <1>1 DEF BufferInv
  <2> QED
    BY <1>1, <2>1, BuffersEmpty
<1>8. WindowInv' /\ MigqInv'
  <2>1. mig_window = <<>> /\ \A m \in Mems : \A r \in migq[m] : FALSE
    BY <1>1 DEF WindowInv, MigqInv
  <2>2. MigqInv'
    BY <1>1, <2>1 DEF MigqInv
  <2>3. \A l \in Lines : MovedFrom(l)' # "none" => Unread(l)'
    <3> SUFFICES ASSUME NEW l \in Lines, MovedFrom(l)' # "none"
                 PROVE  Unread(l)'
      OBVIOUS
    <3>1. l[2] \in 1..lines_in_page /\ lines_in_page \in Nat
      BY MgAssumption DEF Lines, LineNums, TypeOK
    <3>2. MovedFrom(l)' = "l2m" \/ (MovedFrom(l)' = "l1m" /\ mig_type = 2)
      BY <1>2 DEF MovedFrom
    <3>3. Len(hotq.pg) = lines_in_page /\ (mig_type = 2 => Len(coldq.pg) = lines_in_page)
      BY <1>1 DEF StageInv
    <3> QED
      BY <1>2, <3>1, <3>2, <3>3 DEF Unread
  <2>4. Lines' = Lines
    BY <1>2, SameLines
  <2> QED
    BY <1>1, <2>1, <2>2, <2>3, <2>4 DEF WindowInv
<1>9. TypeOK'
  <2>1. SelType'
    BY <1>1, <1>2, TypeParts DEF Types, SelType
  <2> QED
    BY <1>1, <1>2, <2>1, TypesStay, TypePartsNext DEF Types
<1>10. Funs'
  BY <1>1, <1>2, SameLines DEF Funs
<1> QED
  BY <1>4, <1>5, <1>6, <1>7, <1>8, <1>9, <1>10

\* The next of the lines that are left.
LEMMA RestTail ==
  ASSUME TypeOK, NEW S, NEW s \in Seq(S), NEW x, Rest(s, x), s # <<>>
  PROVE  /\ Head(s) = <<x, lines_in_page - Len(s) + 1>> /\ Head(s) \in S
         /\ Tail(s) \in Seq(S) /\ Len(Tail(s)) = Len(s) - 1 /\ Rest(Tail(s), x)
         /\ Len(s) \in 1..lines_in_page /\ lines_in_page \in Nat
<1>1. lines_in_page \in Nat
  BY MgAssumption DEF TypeOK
<1>2. /\ Len(s) <= lines_in_page
      /\ s = [k \in 1..Len(s) |-> <<x, lines_in_page - Len(s) + k>>]
  BY DEF Rest
<1>3. /\ Len(s) \in Nat \ {0} /\ Head(s) = s[1] /\ Head(s) \in S
      /\ Tail(s) \in Seq(S) /\ Len(Tail(s)) = Len(s) - 1
      /\ Tail(s) = [k \in 1..(Len(s) - 1) |-> s[k + 1]]
  <2>1. /\ Len(s) \in Nat \ {0} /\ Head(s) = s[1] /\ Head(s) \in S
        /\ Tail(s) \in Seq(S) /\ Len(Tail(s)) = Len(s) - 1
    OBVIOUS
  <2>2. \A k \in 1..(Len(s) - 1) : Tail(s)[k] = s[k + 1]
    BY <2>1, HeadTailProperties
  <2>3. \A t \in Seq(S) : t = [k \in 1..Len(t) |-> t[k]]
    OBVIOUS
  <2> QED
    BY <2>1, <2>2, <2>3
<1>4. Head(s) = <<x, lines_in_page - Len(s) + 1>>
  BY <1>2, <1>3
<1>5. Rest(Tail(s), x)
  <2>1. \A k \in 1..(Len(s) - 1) : s[k + 1] = <<x, lines_in_page - (Len(s) - 1) + k>>
    <3> SUFFICES ASSUME NEW k \in 1..(Len(s) - 1)
                 PROVE  s[k + 1] = <<x, lines_in_page - (Len(s) - 1) + k>>
      OBVIOUS
    <3>1. k + 1 \in 1..Len(s)
      BY <1>3
    <3>2. s[k + 1] = <<x, lines_in_page - Len(s) + (k + 1)>>
      BY <1>2, <3>1
    <3>3. lines_in_page - Len(s) + (k + 1) = lines_in_page - (Len(s) - 1) + k
      BY <1>1, <1>3
    <3> QED
      BY <3>2, <3>3
  <2>2. Tail(s) = [k \in 1..Len(Tail(s)) |-> <<x, lines_in_page - Len(Tail(s)) + k>>]
    BY <1>3, <2>1
  <2> QED
    BY <1>1, <1>2, <1>3, <2>2 DEF Rest
<1> QED
  BY <1>1, <1>2, <1>3, <1>4, <1>5

\* The read of line ln, the next one of its page, is sent for the migration.
LEMMA ReadSent ==
  ASSUME IInv, mig_status = 1, mig_status' \in {1, 3}, NEW m \in Mems, NEW ln \in Lines, NEW fl,
         MovedFrom(ln) = m, fl = TargetLine(ln), Unread(ln), ~ Unread(ln)',
         \A l \in Lines : l # ln /\ MovedFrom(l) # "none" => (Unread(l)' <=> Unread(l)),
         UNCHANGED <<lines_in_page, buffer, writeq>>,
         \A l : Stay(l) /\ Home(l)' = Home(l), Cross(ln, Misses(m, ln, 0)),
         migq' = [migq EXCEPT ![m] = @ \cup {ReadReq(m, ln, 0, fl)}],
         mig_window' = Append(mig_window, [ln |-> ln, mem |-> m, ready |-> FALSE, val |-> NoVal])
  PROVE  /\ WindowInv' /\ MigqInv' /\ mig_window' \in Seq(WinEntries)
         /\ ReadReq(m, ln, 0, fl) \in MigReads(m)
<1> USE DEF IInv
<1> DEFINE w == [ln |-> ln, mem |-> m, ready |-> FALSE, val |-> NoVal]
           r == ReadReq(m, ln, 0, fl)
<1>1. w \in WinEntries /\ mig_window \in Seq(WinEntries)
  BY QueueTypes DEF WinEntries
<1>2. w.ln = ln /\ w.mem = m /\ ~ w.ready
  OBVIOUS
<1> HIDE DEF w
<1>3. /\ mig_window' \in Seq(WinEntries) /\ Len(mig_window) \in Nat
      /\ Len(mig_window') = Len(mig_window) + 1
      /\ \A i \in 1..Len(mig_window') : i \in 1..Len(mig_window) \/ i = Len(mig_window')
      /\ \A i \in 1..Len(mig_window) : /\ i \in 1..Len(mig_window')
                                       /\ mig_window'[i] = mig_window[i]
      /\ mig_window'[Len(mig_window')] = w /\ Len(mig_window') \in 1..Len(mig_window')
  <2>1. mig_window' = Append(mig_window, w)
    BY DEF w
  <2> QED
    BY <1>1, <2>1
<1>4. /\ \A n \in Mems : buffer[n] = <<>>
      /\ \A i \in 1..Len(mig_window) :
           /\ ~ mig_window[i].ready /\ mig_window[i].ln # ln /\ mig_window[i].ln \in Lines
           /\ MovedFrom(mig_window[i].ln) = mig_window[i].mem /\ ~ Unread(mig_window[i].ln)
      /\ \A i, j \in 1..Len(mig_window) : mig_window[i].ln = mig_window[j].ln => i = j
      /\ \A l \in Lines :
           MovedFrom(l) # "none" =>
             \/ Unread(l) \/ l \in DOMAIN buffer[MovedFrom(l)]
             \/ \E i \in 1..Len(mig_window) : mig_window[i].ln = l
  <2>1. \A n \in Mems : buffer[n] = <<>>
    BY DEF BufferInv
  <2>2. /\ \A i \in 1..Len(mig_window) :
             /\ ~ mig_window[i].ready
             /\ MovedFrom(mig_window[i].ln) = mig_window[i].mem /\ ~ Unread(mig_window[i].ln)
        /\ \A i, j \in 1..Len(mig_window) : mig_window[i].ln = mig_window[j].ln => i = j
        /\ \A l \in Lines :
             MovedFrom(l) # "none" =>
               \/ Unread(l) \/ l \in DOMAIN buffer[MovedFrom(l)]
               \/ \E i \in 1..Len(mig_window) : mig_window[i].ln = l
    BY DEF WindowInv
  <2>3. \A i \in 1..Len(mig_window) : mig_window[i].ln \in Lines
    BY EntryTypes
  <2> QED
    BY <2>1, <2>2, <2>3
<1>5. \A l : MovedFrom(l)' = MovedFrom(l) /\ TargetLine(l)' = TargetLine(l)
  BY DEF Stay
<1>6. Lines' = Lines
  BY SameLines
<1>7. WindowInv'
  <2>1. mig_status' \in {1, 3}
    OBVIOUS
  <2>2. \A i \in 1..Len(mig_window') : ~ mig_window'[i].ready
    BY <1>2, <1>3, <1>4
  <2>3. (\A i \in 1..Len(mig_window) :
           LET e == mig_window[i]
           IN  /\ MovedFrom(e.ln) = e.mem /\ ~ Unread(e.ln)
               /\ e.ln \notin DOMAIN buffer[e.mem]
               /\ e.ready => e.val \in Vals /\ (e.ln \notin crossed => e.val = Home(e.ln)))'
    <3> SUFFICES ASSUME NEW i \in 1..Len(mig_window')
                 PROVE  (LET e == mig_window[i]
                         IN  /\ MovedFrom(e.ln) = e.mem /\ ~ Unread(e.ln)
                             /\ e.ln \notin DOMAIN buffer[e.mem]
                             /\ e.ready => /\ e.val \in Vals
                                           /\ e.ln \notin crossed => e.val = Home(e.ln))'
      OBVIOUS
    <3>1. CASE i \in 1..Len(mig_window)
      <4>1. /\ mig_window'[i] = mig_window[i] /\ ~ mig_window[i].ready
            /\ mig_window[i].ln # ln /\ mig_window[i].ln \in Lines /\ mig_window[i].mem \in Mems
            /\ MovedFrom(mig_window[i].ln) = mig_window[i].mem /\ ~ Unread(mig_window[i].ln)
        BY <1>3, <1>4, <3>1, EntryTypes
      <4>2. MovedFrom(mig_window[i].ln)' = mig_window'[i].mem /\ ~ Unread(mig_window[i].ln)'
        BY <1>5, <4>1 DEF Mems
      <4>3. mig_window[i].ln \notin DOMAIN buffer'[mig_window[i].mem]
        BY <1>4, <4>1
      <4> QED
        BY <4>1, <4>2, <4>3
    <3>2. CASE i = Len(mig_window')
      <4>1. mig_window'[i] = w
        BY <1>3, <3>2
      <4>2. MovedFrom(ln)' = m /\ ~ Unread(ln)' /\ ln \notin DOMAIN buffer'[m]
        BY <1>4, <1>5
      <4> QED
        BY <1>2, <4>1, <4>2
    <3> QED
      BY <1>3, <3>1, <3>2
  <2>4. \A i, j \in 1..Len(mig_window') : mig_window'[i].ln = mig_window'[j].ln => i = j
    BY <1>2, <1>3, <1>4
  <2>5. \A l \in Lines :
          MovedFrom(l)' # "none" =>
            Unread(l)' \/ \E i \in 1..Len(mig_window') : mig_window'[i].ln = l
    <3> SUFFICES ASSUME NEW l \in Lines, MovedFrom(l) # "none"
                 PROVE  Unread(l)' \/ \E i \in 1..Len(mig_window') : mig_window'[i].ln = l
      BY <1>5
    <3>1. MovedFrom(l) \in Mems
      BY MovedIs DEF Mems
    <3>2. CASE l = ln
      BY <1>2, <1>3, <3>2
    <3>3. CASE l # ln
      <4>1. Unread(l) \/ \E i \in 1..Len(mig_window) : mig_window[i].ln = l
        BY <1>4, <3>1
      <4> QED
        BY <1>3, <3>3, <4>1
    <3> QED
      BY <3>2, <3>3
  <2> QED
    BY <1>6, <2>1, <2>2, <2>3, <2>4, <2>5 DEF WindowInv
<1>8. /\ r.ln = ln /\ r.fl = fl /\ r.val = Forwarded(m, ln, 0)
      /\ r.val \in Vals \cup {NoVal}
      /\ ln \notin crossed' =>
           r.val = IF Has(writeq[m], ln) THEN LastVal(writeq[m], ln) ELSE NoVal
  BY ForwardedIs DEF ReadReq, Cross
<1>18. crossed \subseteq crossed'
  BY DEF Cross
<1>9. InFrame(ln) /\ ~ InBuffer(ln, 2)
  BY <1>4 DEF InFrame, InBuffer
<1>10. TargetMem(ln) = m
  BY <1>9, TargetIs, MovedIs DEF Mems
<1>11. Home(ln) = Store(writeq[m], mem[m], ln, fl) /\ Home(ln) \in Vals
  BY <1>9, <1>10 DEF Home, LineOk
<1>12. ln \notin crossed' =>
         \/ r.val = Home(ln) /\ r.val # NoVal
         \/ r.val = NoVal /\ r.fl = TargetLine(ln) /\ ~ Has(writeq[m], ln)
  BY <1>8, <1>11, NoValApart DEF Store
<1>13. r \in MigReads(m)
  <2>1. r.val \in Vals \cup {NoVal} /\ fl \in FrameLines(m)
    BY <1>8, <1>10, TargetIs
  <2> QED
    BY <2>1 DEF ReadReq, MigReads
<1> HIDE DEF r
<1>14. \A n \in Mems : \A s \in migq'[n] : s \in migq[n] \/ (n = m /\ s = r)
  BY DEF Funs, r
<1>15. \A n \in Mems : \A s \in migq[n] :
         \E i \in 1..Len(mig_window) : /\ mig_window[i].ln = s.ln /\ mig_window[i].mem = n
                                       /\ ~ mig_window[i].ready
  BY DEF MigqInv
<1>16. \A n \in Mems : \A s \in migq[n] : s.ln # ln
  BY <1>4, <1>15
<1>17. MigqInv'
  <2> SUFFICES ASSUME NEW n \in Mems, NEW s \in migq'[n]
               PROVE  (/\ \E i \in 1..Len(mig_window) :
                            /\ mig_window[i].ln = s.ln /\ mig_window[i].mem = n
                            /\ ~ mig_window[i].ready
                       /\ \A u \in migq[n] : u.ln = s.ln => u = s
                       /\ s.ln \notin crossed =>
                            \/ s.val = Home(s.ln) /\ s.val # NoVal
                            \/ /\ s.val = NoVal /\ s.fl = TargetLine(s.ln)
                               /\ ~ Has(writeq[n], s.ln))'
    BY DEF MigqInv
  <2>1. CASE s \in migq[n]
    <3>1. \E i \in 1..Len(mig_window') :
            /\ mig_window'[i].ln = s.ln /\ mig_window'[i].mem = n /\ ~ mig_window'[i].ready
      BY <1>3, <1>15, <2>1
    <3>2. \A u \in migq'[n] : u.ln = s.ln => u = s
      <4>1. \A u \in migq[n] : u.ln = s.ln => u = s
        BY <2>1 DEF MigqInv
      <4>2. s.ln # ln
        BY <1>16, <2>1
      <4> QED
        BY <1>8, <1>14, <4>1, <4>2
    <3>3. s.ln \notin crossed' =>
          \/ s.val = Home(s.ln) /\ s.val # NoVal
          \/ s.val = NoVal /\ s.fl = TargetLine(s.ln) /\ ~ Has(writeq[n], s.ln)
      BY <1>18, <2>1 DEF MigqInv
    <3> QED
      BY <1>5, <3>1, <3>2, <3>3
  <2>2. CASE s \notin migq[n]
    <3>1. n = m /\ s = r
      BY <1>14, <2>2
    <3>2. \E i \in 1..Len(mig_window') :
            /\ mig_window'[i].ln = s.ln /\ mig_window'[i].mem = n /\ ~ mig_window'[i].ready
      BY <1>2, <1>3, <1>8, <3>1
    <3>3. \A u \in migq'[n] : u.ln = s.ln => u = s
      BY <1>8, <1>14, <1>16, <3>1
    <3> QED
      BY <1>5, <1>8, <1>12, <3>1, <3>2, <3>3
  <2> QED
    BY <2>1, <2>2
<1> QED
  BY <1>3, <1>7, <1>13, <1>17 DEF r

\* What the parts of the invariant say if only the staging queues, the window
\* and the migration queues change.
LEMMA SendAlone ==
  ASSUME IInv, mig_status \notin {0, 203}, mig_status' \notin {0, 203},
         UNCHANGED <<pageVars, selVars, buffer, readq, writeq, mem,
                     wait_list, mshr, cached, latest, reqs>>,
         crossed \subseteq crossed',
         DOMAIN migq' = Mems
  PROVE  /\ \A l : Stay(l) /\ Home(l)' = Home(l)
         /\ (\A l \in Lines : LineOk(l))' /\ CacheInv' /\ ReadInv' /\ FrameInv' /\ Funs'
<1> USE DEF IInv
<1>1. /\ UNCHANGED <<lines_in_page, dom, frame_addr, free>>
      /\ UNCHANGED <<mig_type, hot_pg_num, cold_pg_num, hot_frame_addr, cold_frame_addr>>
  BY DEF pageVars, selVars
<1>2. \A l : Stay(l) /\ Home(l)' = Home(l)
  BY <1>1, BufferStays, HomeStays
<1>3. (\A l \in Lines : LineOk(l))' /\ CacheInv' /\ ReadInv'
  BY <1>1, <1>2, StayPlaced, DemandAlone
<1>4. FrameInv'
  <2>1. mig_status # 0 /\ mig_status' # 0
    OBVIOUS
  <2> QED
    BY <1>1, <2>1 DEF FrameInv
<1>5. Funs'
  BY <1>1, SameLines DEF Funs
<1> QED
  BY <1>2, <1>3, <1>4, <1>5

\* A read of the hot page, or of the cold page, is sent, or all are sent.
LEMMA SendReadStep ==
  ASSUME IInv, onfly_mig_send_read
  PROVE  IInv'
<1> USE DEF IInv
<1>1. mig_status = 1 /\ mig_status' \in {1, 3}
  BY DEF onfly_mig_send_read
<1>2. /\ UNCHANGED <<pageVars, selVars, hot_writes, cold_writes, buffer, readq, writeq, mem>>
      /\ UNCHANGED <<wait_list, mshr, cached, latest, reqs>>
  BY DEF onfly_mig_send_read, cacheVars
<1>3. /\ UNCHANGED <<lines_in_page, dom, frame_addr, free>>
      /\ UNCHANGED <<mig_type, hot_pg_num, cold_pg_num, hot_frame_addr, cold_frame_addr>>
      /\ UNCHANGED <<hot_writes, cold_writes>>
  BY <1>2 DEF pageVars, selVars
<1>4. DOMAIN migq' = Mems
  BY DEF onfly_mig_send_read, SentOn, Funs
<1>18. crossed \subseteq crossed'
  BY DEF onfly_mig_send_read, SentOn, Cross
<1>5. /\ \A l : Stay(l) /\ Home(l)' = Home(l)
      /\ (\A l \in Lines : LineOk(l))' /\ CacheInv' /\ ReadInv' /\ FrameInv' /\ Funs'
  BY <1>1, <1>2, <1>4, <1>18, SendAlone
<1>6. \A l : MovedFrom(l)' = MovedFrom(l)
  BY <1>5 DEF Stay
<1>7. /\ hotq \in StageQ /\ coldq \in StageQ /\ hotq.pg \in Seq(Lines) /\ coldq.pg \in Seq(Lines)
      /\ hotq.fr \in Seq((L1Frames \cup L2Frames) \X LineNums)
      /\ coldq.fr \in Seq((L1Frames \cup L2Frames) \X LineNums)
      /\ \A n \in Mems : buffer[n] = <<>>
  BY <1>1 DEF TypeOK, StageQ, BufferInv
<1>19. CrossType'
  <2>1. \/ hotq.pg # <<>> /\ Cross(Head(hotq.pg), Misses("l2m", Head(hotq.pg), 0))
        \/ coldq.pg # <<>> /\ Cross(Head(coldq.pg), Misses("l1m", Head(coldq.pg), 0))
        \/ UNCHANGED crossed
    BY DEF onfly_mig_send_read, SentOn
  <2>2. \A s \in Seq(Lines) : s # <<>> => Head(s) \in Lines
    OBVIOUS
  <2>3. crossed \subseteq Lines /\ Lines' = Lines
    BY <1>3, SameLines DEF TypeOK
  <2> QED
    BY <1>7, <2>1, <2>2, <2>3 DEF CrossType, Cross
<1>8. /\ Rest(hotq.pg, hot_pg_num) /\ Rest(hotq.fr, hot_frame_addr)
      /\ Len(hotq.fr) = Len(hotq.pg)
      /\ mig_type = 1 => coldq.pg = <<>>
      /\ mig_type = 2 => /\ Rest(coldq.pg, cold_pg_num) /\ Rest(coldq.fr, cold_frame_addr)
                         /\ Len(coldq.fr) = Len(coldq.pg)
  BY <1>1 DEF StageInv
<1>9. /\ hot_pg_num \in Pages /\ hot_frame_addr = frame_addr[hot_pg_num]
      /\ mig_type \in {1, 2}
      /\ mig_type = 2 => cold_pg_num \in Pages /\ cold_frame_addr = frame_addr[cold_pg_num]
  BY <1>1 DEF FrameInv
<1>10. /\ \A s, x : Rest(s, x)' <=> Rest(s, x)
       /\ \A l : ~ InBuffer(l, 2)
       /\ \A l \in Lines : TargetLine(l) = <<frame_addr[l[1]], l[2]>>
  <2>1. \A l : ~ InBuffer(l, 2)
    BY <1>1, AwayIs
  <2> QED
    BY <1>3, <2>1, TargetIs DEF Rest
<1>11. BufferInv'
  <2>1. \A m \in Mems : \A l \in DOMAIN buffer'[m] : FALSE
    BY <1>2, <1>7
  <2> QED
    BY <1>1, <1>2, <1>7, <2>1 DEF BufferInv
<1> DEFINE FL == (L1Frames \cup L2Frames) \X LineNums
<1>12. SelType'
  BY <1>1, <1>2, <1>3, TypeParts DEF Types, SelType
<1>13. ASSUME NEW m \in Mems, NEW ln \in Lines, NEW q, SentOn(m, q),
              ReadReq(m, ln, 0, Head(q.fr)) \in MigReads(m), ln = Head(q.pg)
       PROVE  ReadTypes'
  <2>1. \A n \in Mems : migq'[n] \subseteq migq[n] \cup {ReadReq(n, ln, 0, Head(q.fr))}
                        /\ (n # m => migq'[n] = migq[n])
    BY <1>13 DEF SentOn, Funs
  <2>2. \A n \in Mems : migq[n] \subseteq MigReads(n) /\ readq[n] \subseteq MigReads(n)
    BY TypeParts DEF Types, ReadTypes
  <2> QED
    BY <1>2, <1>3, <1>13, <2>1, <2>2, SameLines DEF ReadTypes
<1>14. CASE hotq.pg # <<>> /\ SentOn("l2m", hotq) /\ hotq' = Popped(hotq)
            /\ coldq' = coldq /\ mig_status' = mig_status
  <2> DEFINE ln == Head(hotq.pg)
             n == Len(hotq.pg)
  <2>1. /\ ln = <<hot_pg_num, lines_in_page - n + 1>> /\ ln \in Lines
        /\ Tail(hotq.pg) \in Seq(Lines) /\ Len(Tail(hotq.pg)) = n - 1
        /\ Rest(Tail(hotq.pg), hot_pg_num)
        /\ n \in 1..lines_in_page /\ lines_in_page \in Nat
    BY <1>7, <1>8, <1>14, RestTail
  <2>2. hotq.fr # <<>>
    BY <1>7, <1>8, <2>1
  <2>3. /\ Head(hotq.fr) = <<hot_frame_addr, lines_in_page - n + 1>>
        /\ Tail(hotq.fr) \in Seq(FL) /\ Len(Tail(hotq.fr)) = n - 1
        /\ Rest(Tail(hotq.fr), hot_frame_addr)
    <3>1. Rest(hotq.fr, hot_frame_addr) /\ Len(hotq.fr) = n
      BY <1>8
    <3> QED
      BY <1>7, <2>2, <3>1, RestTail
  <2>4. hotq' = [pg |-> Tail(hotq.pg), fr |-> Tail(hotq.fr), pg_backup |-> hotq.pg_backup,
                 fr_backup |-> hotq.fr_backup]
    BY <1>7, <1>14 DEF Popped, StageQ
  <2> HIDE DEF n
  <2>5. hotq' \in StageQ
    BY <1>7, <2>1, <2>3, <2>4 DEF StageQ
  <2>6. /\ hotq'.pg = Tail(hotq.pg) /\ hotq'.fr = Tail(hotq.fr)
        /\ hotq'.pg_backup = hotq.pg_backup /\ hotq'.fr_backup = hotq.fr_backup
    BY <2>4
  <2>7. StageInv'
    BY <1>1, <1>3, <1>10, <1>14, <2>1, <2>3, <2>6 DEF StageInv
  <2>8. PICK x : x = ln
    OBVIOUS
  <2>9. /\ x \in Lines /\ x[1] = hot_pg_num /\ x[2] = lines_in_page - n + 1
        /\ MovedFrom(x) = "l2m"
    <3>1. x \in Lines /\ x[1] = hot_pg_num /\ x[2] = lines_in_page - n + 1
      BY <2>1, <2>8
    <3> QED
      BY <1>1, <3>1, MovedIs
  <2>10. Unread(x) /\ ~ Unread(x)'
    <3>1. x[2] > lines_in_page - Len(hotq.pg)
      <4>1. Len(hotq.pg) = n
        BY DEF n
      <4>2. x[2] = lines_in_page - n + 1 /\ n \in Nat /\ lines_in_page \in Nat
        BY <2>1, <2>9
      <4> QED
        BY <4>1, <4>2
    <3>2. ~ (x[2] > lines_in_page' - Len(hotq'.pg))
      <4>1. Len(hotq'.pg) = n - 1 /\ lines_in_page' = lines_in_page
        BY <1>3, <2>1, <2>6
      <4>2. x[2] = lines_in_page - n + 1 /\ n \in Nat /\ lines_in_page \in Nat
        BY <2>1, <2>9
      <4> QED
        BY <4>1, <4>2
    <3>3. MovedFrom(x)' = MovedFrom(x)
      BY <1>6
    <3> QED
      BY <2>9, <3>1, <3>2, <3>3 DEF Unread
  <2>11. \A l \in Lines : l # x /\ MovedFrom(l) # "none" => (Unread(l)' <=> Unread(l))
    <3> SUFFICES ASSUME NEW l \in Lines, l # x, MovedFrom(l) # "none"
                 PROVE  Unread(l)' <=> Unread(l)
      OBVIOUS
    <3>1. CASE MovedFrom(l) = "l2m"
      <4>1. l = <<l[1], l[2]>> /\ l[2] \in Nat /\ x = <<x[1], x[2]>>
        BY <2>1, <2>9 DEF Lines, LineNums
      <4>2. l[1] = hot_pg_num
        BY <3>1, MovedIs
      <4>3. l[2] # x[2]
        BY <2>9, <4>1, <4>2
      <4> QED
        BY <1>3, <1>6, <2>1, <2>6, <2>9, <3>1, <4>1, <4>3 DEF Unread, n
    <3>2. CASE MovedFrom(l) # "l2m"
      BY <1>3, <1>6, <1>14, <3>2 DEF Unread
    <3> QED
      BY <3>1, <3>2
  <2>12. TargetLine(x) = Head(hotq.fr)
    BY <1>9, <1>10, <2>3, <2>9
  <2>13. /\ migq' = [migq EXCEPT !["l2m"] = @ \cup {ReadReq("l2m", x, 0, Head(hotq.fr))}]
         /\ mig_window' = Append(mig_window, [ln |-> x, mem |-> "l2m", ready |-> FALSE,
                                              val |-> NoVal])
         /\ Cross(x, Misses("l2m", x, 0))
    BY <1>14, <2>8 DEF SentOn
  <2>14. /\ WindowInv' /\ MigqInv' /\ mig_window' \in Seq(WinEntries)
         /\ ReadReq("l2m", x, 0, Head(hotq.fr)) \in MigReads("l2m")
    <3>1. "l2m" \in Mems
      BY DEF Mems
    <3> QED
      BY <1>1, <1>2, <1>3, <1>5, <2>9, <2>10, <2>11, <2>12, <2>13, <3>1, ReadSent
  <2>15. TypeOK'
    <3>1. ReadTypes'
      BY <1>13, <1>14, <2>8, <2>9, <2>14 DEF Mems
    <3>2. StageType'
      BY <1>3, <1>14, <2>5, TypeParts, SameLines DEF Types, StageType
    <3>3. WindowType'
      BY <1>3, <2>14, SameLines DEF WindowType
    <3> QED
      BY <1>2, <1>3, <1>12, <1>19, <3>1, <3>2, <3>3, TypesStay, TypePartsNext DEF Types
  <2> QED
    BY <1>5, <1>11, <2>7, <2>14, <2>15
<1>15. CASE hotq.pg = <<>> /\ coldq.pg # <<>> /\ SentOn("l1m", coldq) /\ coldq' = Popped(coldq)
            /\ hotq' = hotq /\ mig_status' = mig_status
  <2> DEFINE ln == Head(coldq.pg)
             n == Len(coldq.pg)
  <2>t. mig_type = 2 /\ Rest(coldq.pg, cold_pg_num) /\ Rest(coldq.fr, cold_frame_addr)
        /\ Len(coldq.fr) = Len(coldq.pg)
    BY <1>8, <1>9, <1>15
  <2>1. /\ ln = <<cold_pg_num, lines_in_page - n + 1>> /\ ln \in Lines
        /\ Tail(coldq.pg) \in Seq(Lines) /\ Len(Tail(coldq.pg)) = n - 1
        /\ Rest(Tail(coldq.pg), cold_pg_num)
        /\ n \in 1..lines_in_page /\ lines_in_page \in Nat
    BY <1>7, <1>15, <2>t, RestTail
  <2>2. coldq.fr # <<>>
    BY <1>7, <2>t, <2>1
  <2>3. /\ Head(coldq.fr) = <<cold_frame_addr, lines_in_page - n + 1>>
        /\ Tail(coldq.fr) \in Seq(FL) /\ Len(Tail(coldq.fr)) = n - 1
        /\ Rest(Tail(coldq.fr), cold_frame_addr)
    <3>1. Rest(coldq.fr, cold_frame_addr) /\ Len(coldq.fr) = n
      BY <2>t
    <3> QED
      BY <1>7, <2>2, <3>1, RestTail
  <2>4. coldq' = [pg |-> Tail(coldq.pg), fr |-> Tail(coldq.fr), pg_backup |-> coldq.pg_backup,
                  fr_backup |-> coldq.fr_backup]
    BY <1>7, <1>15 DEF Popped, StageQ
  <2> HIDE DEF n
  <2>5. coldq' \in StageQ
    BY <1>7, <2>1, <2>3, <2>4 DEF StageQ
  <2>6. /\ coldq'.pg = Tail(coldq.pg) /\ coldq'.fr = Tail(coldq.fr)
        /\ coldq'.pg_backup = coldq.pg_backup /\ coldq'.fr_backup = coldq.fr_backup
    BY <2>4
  <2>7. StageInv'
    BY <1>1, <1>3, <1>10, <1>15, <2>t, <2>1, <2>3, <2>6 DEF StageInv
  <2>8. PICK x : x = ln
    OBVIOUS
  <2>9. /\ x \in Lines /\ x[1] = cold_pg_num /\ x[2] = lines_in_page - n + 1
        /\ MovedFrom(x) = "l1m"
    <3>1. x \in Lines /\ x[1] = cold_pg_num /\ x[2] = lines_in_page - n + 1
      BY <2>1, <2>8
    <3> QED
      BY <1>1, <2>t, <3>1, MovedIs
  <2>10. Unread(x) /\ ~ Unread(x)'
    <3>1. x[2] > lines_in_page - Len(coldq.pg)
      <4>1. Len(coldq.pg) = n
        BY DEF n
      <4>2. x[2] = lines_in_page - n + 1 /\ n \in Nat /\ lines_in_page \in Nat
        BY <2>1, <2>9
      <4> QED
        BY <4>1, <4>2
    <3>2. ~ (x[2] > lines_in_page' - Len(coldq'.pg))
      <4>1. Len(coldq'.pg) = n - 1 /\ lines_in_page' = lines_in_page
        BY <1>3, <2>1, <2>6
      <4>2. x[2] = lines_in_page - n + 1 /\ n \in Nat /\ lines_in_page \in Nat
        BY <2>1, <2>9
      <4> QED
        BY <4>1, <4>2
    <3>3. MovedFrom(x)' = MovedFrom(x)
      BY <1>6
    <3> QED
      BY <2>9, <3>1, <3>2, <3>3 DEF Unread
  <2>11. \A l \in Lines : l # x /\ MovedFrom(l) # "none" => (Unread(l)' <=> Unread(l))
    <3> SUFFICES ASSUME NEW l \in Lines, l # x, MovedFrom(l) # "none"
                 PROVE  Unread(l)' <=> Unread(l)
      OBVIOUS
    <3>1. CASE MovedFrom(l) = "l1m"
      <4>1. l = <<l[1], l[2]>> /\ l[2] \in Nat /\ x = <<x[1], x[2]>>
        BY <2>1, <2>9 DEF Lines, LineNums
      <4>2. l[1] = cold_pg_num
        BY <3>1, MovedIs
      <4>3. l[2] # x[2]
        BY <2>9, <4>1, <4>2
      <4> QED
        BY <1>3, <1>6, <2>1, <2>6, <2>9, <3>1, <4>1, <4>3 DEF Unread, n
    <3>2. CASE MovedFrom(l) = "l2m"
      BY <1>3, <1>6, <1>15, <3>2 DEF Unread
    <3> QED
      BY <3>1, <3>2, MovedIs
  <2>12. TargetLine(x) = Head(coldq.fr)
    BY <1>9, <1>10, <2>t, <2>3, <2>9
  <2>13. /\ migq' = [migq EXCEPT !["l1m"] = @ \cup {ReadReq("l1m", x, 0, Head(coldq.fr))}]
         /\ mig_window' = Append(mig_window, [ln |-> x, mem |-> "l1m", ready |-> FALSE,
                                              val |-> NoVal])
         /\ Cross(x, Misses("l1m", x, 0))
    BY <1>15, <2>8 DEF SentOn
  <2>14. /\ WindowInv' /\ MigqInv' /\ mig_window' \in Seq(WinEntries)
         /\ ReadReq("l1m", x, 0, Head(coldq.fr)) \in MigReads("l1m")
    <3>1. "l1m" \in Mems
      BY DEF Mems
    <3> QED
      BY <1>1, <1>2, <1>3, <1>5, <2>9, <2>10, <2>11, <2>12, <2>13, <3>1, ReadSent
  <2>15. TypeOK'
    <3>1. ReadTypes'
      BY <1>13, <1>15, <2>8, <2>9, <2>14 DEF Mems
    <3>2. StageType'
      BY <1>3, <1>15, <2>5, TypeParts, SameLines DEF Types, StageType
    <3>3. WindowType'
      BY <1>3, <2>14, SameLines DEF WindowType
    <3> QED
      BY <1>2, <1>3, <1>12, <1>19, <3>1, <3>2, <3>3, TypesStay, TypePartsNext DEF Types
  <2> QED
    BY <1>5, <1>11, <2>7, <2>14, <2>15
<1>16. CASE hotq.pg = <<>> /\ coldq.pg = <<>> /\ mig_status' = 3
            /\ UNCHANGED <<hotq, coldq, migq, mig_window>>
  <2>1. StageInv'
    BY <1>1, <1>3, <1>10, <1>16 DEF StageInv
  <2>2. \A l : Unread(l)' <=> Unread(l)
    BY <1>3, <1>6, <1>16 DEF Unread
  <2>3. WindowInv'
    <3>1. \A i \in 1..Len(mig_window) : mig_window[i].ln \in Lines /\ mig_window[i].mem \in Mems
      BY EntryTypes
    <3>2. (\A i \in 1..Len(mig_window) :
             LET w == mig_window[i]
             IN  /\ MovedFrom(w.ln) = w.mem /\ ~ Unread(w.ln)
                 /\ w.ln \notin DOMAIN buffer[w.mem]
                 /\ w.ready => w.val \in Vals /\ (w.ln \notin crossed => w.val = Home(w.ln)))'
      BY <1>2, <1>3, <1>5, <1>6, <1>16, <1>18, <2>2, SameLines DEF WindowInv
    <3>3. (\A i, j \in 1..Len(mig_window) : mig_window[i].ln = mig_window[j].ln => i = j)'
      BY <1>16 DEF WindowInv
    <3>4. (\A l \in Lines :
             MovedFrom(l) # "none" =>
               \/ Unread(l) \/ l \in DOMAIN buffer[MovedFrom(l)]
               \/ \E i \in 1..Len(mig_window) : mig_window[i].ln = l)'
      <4>1. \A l : MovedFrom(l) \in {"none", "l1m", "l2m"}
        BY MovedIs
      <4>2. \A l \in Lines :
              MovedFrom(l) # "none" =>
                Unread(l) \/ \E i \in 1..Len(mig_window) : mig_window[i].ln = l
        BY <1>1, <1>7, <4>1 DEF WindowInv, Mems
      <4> QED
        BY <1>3, <1>6, <1>16, <2>2, <4>2, SameLines
    <3> QED
      BY <1>16, <3>2, <3>3, <3>4 DEF WindowInv
  <2>4. MigqInv'
    <3> SUFFICES ASSUME NEW m \in Mems, NEW r \in migq[m]
                 PROVE  (/\ \E i \in 1..Len(mig_window) :
                              /\ mig_window[i].ln = r.ln /\ mig_window[i].mem = m
                              /\ ~ mig_window[i].ready
                         /\ \A s \in migq[m] : s.ln = r.ln => s = r
                         /\ r.ln \notin crossed =>
                              \/ r.val = Home(r.ln) /\ r.val # NoVal
                              \/ /\ r.val = NoVal /\ r.fl = TargetLine(r.ln)
                                 /\ ~ Has(writeq[m], r.ln))'
      BY <1>16 DEF MigqInv
    <3>1. Home(r.ln)' = Home(r.ln) /\ TargetLine(r.ln)' = TargetLine(r.ln)
      BY <1>5 DEF Stay
    <3> QED
      BY <1>2, <1>16, <1>18, <3>1 DEF MigqInv
  <2>5. TypeOK'
    <3>1. StageType'
      BY <1>3, <1>16, TypeParts, SameLines DEF Types, StageType
    <3> QED
      BY <1>2, <1>3, <1>12, <1>16, <1>19, <3>1, TypesStay, TypePartsNext DEF Types
  <2> QED
    BY <1>5, <1>11, <2>1, <2>3, <2>4, <2>5
<1>17. \/ hotq.pg # <<>> /\ SentOn("l2m", hotq) /\ hotq' = Popped(hotq)
          /\ coldq' = coldq /\ mig_status' = mig_status
       \/ hotq.pg = <<>> /\ coldq.pg # <<>> /\ SentOn("l1m", coldq) /\ coldq' = Popped(coldq)
          /\ hotq' = hotq /\ mig_status' = mig_status
       \/ hotq.pg = <<>> /\ coldq.pg = <<>> /\ mig_status' = 3
          /\ UNCHANGED <<hotq, coldq, migq, mig_window>>
  BY DEF onfly_mig_send_read
<1> QED
  BY <1>14, <1>15, <1>16, <1>17

\* The oldest read of the window, which has returned, moves to its buffer.
LEMMA StartStep ==
  ASSUME IInv, SentMustWait, onfly_mig_start
  PROVE  IInv'
<1> USE DEF IInv
<1>1. /\ mig_status = 3 /\ mig_window # <<>> /\ Head(mig_window).ready
      /\ mig_window' = Tail(mig_window)
      /\ mig_status' = IF Len(mig_window) = 1 THEN 4 ELSE 3
  BY DEF onfly_mig_start
<1>2. /\ UNCHANGED <<pageVars, selVars, stageVars, migq, readq, writeq, mem>>
      /\ UNCHANGED <<wait_list, mshr, cached, latest, crossed, reqs>>
  BY DEF onfly_mig_start, cacheVars
<1>3. /\ UNCHANGED <<lines_in_page, dom, frame_addr, free>>
      /\ UNCHANGED <<mig_type, hot_pg_num, cold_pg_num, hot_frame_addr, cold_frame_addr>>
      /\ UNCHANGED <<hotq, coldq, hot_writes, cold_writes>>
  BY <1>2 DEF pageVars, selVars, stageVars
<1>4. PICK e : e = mig_window[1]
  OBVIOUS
<1>5. PICK m, x, v : m = e.mem /\ x = e.ln /\ v = e.val
  OBVIOUS
<1>6. /\ Len(mig_window) \in Nat \ {0} /\ 1 \in 1..Len(mig_window)
      /\ mig_window \in Seq(WinEntries) /\ Head(mig_window) = e
  BY <1>1, <1>4, QueueTypes
<1>7. /\ m \in Mems /\ x \in Lines /\ MovedFrom(x) = m /\ x \notin DOMAIN buffer[m]
      /\ v \in Vals /\ (x \notin crossed => v = Home(x)) /\ InFrame(x)
  <2>1. /\ MovedFrom(x) = m /\ x \notin DOMAIN buffer[m]
        /\ v \in Vals /\ (x \notin crossed => v = Home(x))
    BY <1>1, <1>4, <1>5, <1>6 DEF WindowInv
  <2>2. x \in Lines /\ m \in Mems /\ InFrame(x)
    BY <1>4, <1>5, <1>6, WindowHeld
  <2> QED
    BY <2>1, <2>2
<1>8. /\ DOMAIN buffer' = Mems
      /\ DOMAIN buffer'[m] = DOMAIN buffer[m] \cup {x}
      /\ buffer'[m][x] = [st |-> 1, val |-> v]
      /\ \A l \in DOMAIN buffer[m] : l # x => buffer'[m][l] = buffer[m][l]
      /\ \A n \in Mems : n # m => buffer'[n] = buffer[n]
  <2>1. buffer' = [buffer EXCEPT ![m] =
          [l \in DOMAIN buffer[m] \cup {x} |-> IF l = x THEN [st |-> 1, val |-> v]
                                               ELSE buffer[m][l]]]
    BY <1>5, <1>6 DEF onfly_mig_start
  <2>2. /\ DOMAIN buffer' = Mems
        /\ buffer'[m] = [l \in DOMAIN buffer[m] \cup {x} |-> IF l = x THEN [st |-> 1, val |-> v]
                                                             ELSE buffer[m][l]]
        /\ \A n \in Mems : n # m => buffer'[n] = buffer[n]
    BY <1>7, <2>1 DEF Funs
  <2> QED
    BY <2>2
<1>9. \A l : MovedFrom(l)' = MovedFrom(l) /\ MovedFrom(l) \in {"none", "l1m", "l2m"}
  <2>1. mig_status' \in {3, 4}
    BY <1>1
  <2> QED
    BY <1>1, <1>3, <2>1, MovedIs DEF MovedFrom
<1>10. \A n \in Mems : \A l \in DOMAIN buffer'[n] :
         l \in Lines /\ MovedFrom(l) = n /\ buffer'[n][l].st = 1
  <2>1. \A n \in Mems : \A l \in DOMAIN buffer[n] : /\ l \in Lines /\ MovedFrom(l) = n
                                                    /\ buffer[n][l].st = 1
    BY <1>1 DEF BufferInv
  <2> QED
    BY <1>7, <1>8, <2>1
<1>11. \A l : ~ InBuffer(l, 2) /\ ~ InBuffer(l, 2)'
  <2>1. \A l : ~ InBuffer(l, 2)
    BY <1>1, AwayIs
  <2>2. \A l : ~ InBuffer(l, 2)'
    BY <1>9, <1>10 DEF InBuffer, Mems
  <2> QED
    BY <2>1, <2>2
<1>12. \A l : TargetMem(l)' = TargetMem(l) /\ TargetLine(l)' = TargetLine(l)
  BY <1>3, <1>11 DEF TargetMem, TargetLine, WrittenAway
<1>13. \A l : l # x => (InFrame(l)' <=> InFrame(l))
  BY <1>7, <1>8, <1>9 DEF InFrame, InBuffer, Mems
<1>14. \A l : l # x => Placed(l)
  BY <1>12, <1>13 DEF Placed, InFrame
<1>15. ~ InFrame(x)' /\ Home(x)' = v
  <2>1. MovedFrom(x)' = m /\ m # "none" /\ x \in DOMAIN buffer'[m]
    BY <1>7, <1>8, <1>9 DEF Mems
  <2>2. buffer'[m][x].st = 1 /\ buffer'[m][x].val = v
    BY <1>8
  <2>3. ~ InFrame(x)'
    BY <2>1, <2>2 DEF InFrame, InBuffer
  <2> QED
    BY <2>1, <2>2, <2>3 DEF Home
<1>16. \A l \in Lines : l # x \/ l \notin crossed => Home(l)' = Home(l)
  <2> SUFFICES ASSUME NEW l \in Lines, l # x
               PROVE  Home(l)' = Home(l)
    BY <1>7, <1>15
  <2>1. CASE InFrame(l)
    BY <1>2, <1>12, <1>13, <2>1, HomeNext DEF Home
  <2>2. CASE ~ InFrame(l)
    <3>1. MovedFrom(l) \in Mems /\ l \in DOMAIN buffer[MovedFrom(l)]
      BY <1>9, <2>2 DEF InFrame, InBuffer, Mems
    <3>2. buffer'[MovedFrom(l)][l] = buffer[MovedFrom(l)][l]
      BY <1>8, <3>1
    <3> QED
      BY <1>9, <1>13, <2>2, <3>2 DEF Home
  <2> QED
    BY <2>1, <2>2
<1>17. CacheInv' /\ \A l : Version(l)' = Version(l) /\ (NoWriteWaits(l)' <=> NoWriteWaits(l))
  BY <1>2, <1>3, CacheStays
<1>18. (\A l \in Lines : LineOk(l))'
  <2> SUFFICES ASSUME NEW l \in Lines
               PROVE  LineOk(l)'
    BY <1>3, SameLines
  <2>1. NoWriteWaits(l)' /\ l \notin crossed' => Home(l) = Version(l)'
    BY <1>2, <1>17 DEF LineOk
  <2>2. CASE l # x
    BY <1>2, <1>3, <1>14, <1>16, <2>1, <2>2, LineStays
  <2>3. CASE l = x
    BY <1>2, <1>3, <1>7, <1>15, <2>1, <2>3, SameLines DEF LineOk
  <2> QED
    BY <2>2, <2>3
<1>19. ReadInv'
  <2>1. \A n \in Mems : \A r \in readq[n] :
          /\ r.ln \in DOMAIN mshr
          /\ ReadAlone(r.ln)
    BY DEF ReadInv
  <2>2. ASSUME NEW n \in Mems, NEW r \in readq[n], r.ln = x, r.ln \notin crossed
        PROVE  r.val = Version(r.ln)
    <3>1. x[1] \in {hot_pg_num, cold_pg_num}
      BY <1>7, MovedIs DEF Mems
    <3>2. r.fl[1] # frame_addr[x[1]]
      BY <1>1, <2>2, <3>1 DEF SentMustWait
    <3>3. TargetLine(x) = <<frame_addr[x[1]], x[2]>>
      BY <1>7, <1>11, TargetIs
    <3> QED
      BY <2>2, <3>2, <3>3 DEF ReadInv
  <2>3. \A n \in Mems : \A r \in readq'[n] :
           /\ r.ln \in DOMAIN mshr'
           /\ ReadAlone(r.ln)'
           /\ Version(r.ln)' = Version(r.ln)
           /\ r.ln \notin crossed' =>
              \/ r.val = Version(r.ln)
              \/ Placed(r.ln) /\ (~ Has(writeq[n], r.ln) => ~ Has(writeq'[n], r.ln))
    BY <1>2, <1>14, <1>17, <2>1, <2>2 DEF ReadAlone
  <2> QED
    BY <1>2, <2>3, ReadsStay
<1>20. \A l \in Lines : ~ Unread(l) /\ ~ Unread(l)' /\ l[2] > 0
  <2>1. hotq.pg = <<>> /\ coldq.pg = <<>> /\ lines_in_page \in Nat
    BY <1>1, MgAssumption DEF StageInv, TypeOK
  <2>2. \A l \in Lines : l[2] \in 1..lines_in_page
    BY DEF Lines, LineNums
  <2> QED
    BY <1>3, <2>1, <2>2 DEF Unread
<1>21. /\ mig_window' \in Seq(WinEntries) /\ Len(mig_window') = Len(mig_window) - 1
       /\ \A i \in 1..Len(mig_window') : /\ i + 1 \in 1..Len(mig_window)
                                         /\ mig_window'[i] = mig_window[i + 1]
       /\ \A i \in 1..Len(mig_window) : i # 1 => /\ i - 1 \in 1..Len(mig_window')
                                                 /\ mig_window'[i - 1] = mig_window[i]
  BY <1>1, <1>6
<1>22. /\ \A i \in 1..Len(mig_window) :
            LET w == mig_window[i]
            IN  /\ MovedFrom(w.ln) = w.mem /\ ~ Unread(w.ln)
                /\ w.ln \notin DOMAIN buffer[w.mem]
                /\ w.ready => w.val \in Vals /\ (w.ln \notin crossed => w.val = Home(w.ln))
       /\ \A i, j \in 1..Len(mig_window) : mig_window[i].ln = mig_window[j].ln => i = j
       /\ \A l \in Lines :
            MovedFrom(l) # "none" =>
              \/ Unread(l) \/ l \in DOMAIN buffer[MovedFrom(l)]
              \/ \E i \in 1..Len(mig_window) : mig_window[i].ln = l
  BY <1>1 DEF WindowInv
<1>23. \A l \in Lines :
         MovedFrom(l) # "none" =>
           \/ l \in DOMAIN buffer'[MovedFrom(l)]
           \/ \E i \in 1..Len(mig_window') : mig_window'[i].ln = l
  <2> SUFFICES ASSUME NEW l \in Lines, MovedFrom(l) # "none",
                      l \notin DOMAIN buffer'[MovedFrom(l)]
               PROVE  \E i \in 1..Len(mig_window') : mig_window'[i].ln = l
    OBVIOUS
  <2>1. MovedFrom(l) \in Mems /\ l # x /\ l \notin DOMAIN buffer[MovedFrom(l)]
    BY <1>7, <1>8, <1>9 DEF Mems
  <2>2. PICK i \in 1..Len(mig_window) : mig_window[i].ln = l
    BY <1>20, <1>22, <2>1
  <2>3. i # 1
    BY <1>4, <1>5, <2>1, <2>2
  <2> QED
    BY <1>21, <2>2, <2>3
<1>24. WindowInv'
  <2>1. (mig_status \notin {1, 3} => mig_window = <<>>)'
    BY <1>1, <1>6, <1>21
  <2>2. (\A i \in 1..Len(mig_window) :
           LET w == mig_window[i]
           IN  /\ MovedFrom(w.ln) = w.mem /\ ~ Unread(w.ln)
               /\ w.ln \notin DOMAIN buffer[w.mem]
               /\ w.ready => w.val \in Vals /\ (w.ln \notin crossed => w.val = Home(w.ln)))'
    <3> SUFFICES ASSUME NEW i \in 1..Len(mig_window')
                 PROVE  (LET w == mig_window[i]
                         IN  /\ MovedFrom(w.ln) = w.mem /\ ~ Unread(w.ln)
                             /\ w.ln \notin DOMAIN buffer[w.mem]
                             /\ w.ready => /\ w.val \in Vals
                                           /\ w.ln \notin crossed => w.val = Home(w.ln))'
      OBVIOUS
    <3>1. PICK f : f = mig_window'[i]
      OBVIOUS
    <3>2. PICK y, n : y = f.ln /\ n = f.mem
      OBVIOUS
    <3>3. i + 1 \in 1..Len(mig_window) /\ mig_window[i + 1] = f /\ i \in Nat
      BY <1>21, <3>1
    <3>4. /\ y \in Lines /\ n \in Mems /\ MovedFrom(y) = n /\ y \notin DOMAIN buffer[n]
          /\ f.ready => f.val \in Vals /\ (y \notin crossed => f.val = Home(y))
          /\ y # x
      <4>1. y \in Lines /\ n \in Mems
        BY <3>2, <3>3, EntryTypes
      <4>2. /\ MovedFrom(y) = n /\ y \notin DOMAIN buffer[n]
            /\ f.ready => f.val \in Vals /\ (y \notin crossed => f.val = Home(y))
        BY <1>22, <3>2, <3>3
      <4>3. y # x
        <5>1. i + 1 # 1
          BY <3>3
        <5> QED
          BY <1>4, <1>5, <1>6, <1>22, <3>2, <3>3, <5>1
      <4> QED
        BY <4>1, <4>2, <4>3
    <3>5. y \notin DOMAIN buffer'[n]
      BY <1>8, <3>4
    <3>6. MovedFrom(y)' = n /\ ~ Unread(y)' /\ Home(y)' = Home(y)
      BY <1>9, <1>16, <1>20, <3>4
    <3> QED
      BY <1>2, <1>3, <3>1, <3>2, <3>4, <3>5, <3>6, SameLines
  <2>3. (\A i, j \in 1..Len(mig_window) : mig_window[i].ln = mig_window[j].ln => i = j)'
    <3> SUFFICES ASSUME NEW i \in 1..Len(mig_window'), NEW j \in 1..Len(mig_window'),
                        mig_window'[i].ln = mig_window'[j].ln
                 PROVE  i = j
      OBVIOUS
    <3>1. i + 1 = j + 1
      BY <1>21, <1>22
    <3> QED
      BY <3>1
  <2>4. (\A l \in Lines :
           MovedFrom(l) # "none" =>
             \/ Unread(l) \/ l \in DOMAIN buffer[MovedFrom(l)]
             \/ \E i \in 1..Len(mig_window) : mig_window[i].ln = l)'
    BY <1>3, <1>9, <1>23, SameLines
  <2>5. mig_status' # 1
    BY <1>1
  <2> QED
    BY <2>1, <2>2, <2>3, <2>4, <2>5 DEF WindowInv
<1>25. MigqInv'
  <2> SUFFICES ASSUME NEW n \in Mems, NEW r \in migq[n]
               PROVE  (/\ \E i \in 1..Len(mig_window) :
                            /\ mig_window[i].ln = r.ln /\ mig_window[i].mem = n
                            /\ ~ mig_window[i].ready
                       /\ \A s \in migq[n] : s.ln = r.ln => s = r
                       /\ r.ln \notin crossed =>
                          \/ r.val = Home(r.ln) /\ r.val # NoVal
                          \/ r.val = NoVal /\ r.fl = TargetLine(r.ln) /\ ~ Has(writeq[n], r.ln))'
    BY <1>2 DEF MigqInv
  <2>1. PICK i \in 1..Len(mig_window) : /\ mig_window[i].ln = r.ln /\ mig_window[i].mem = n
                                        /\ ~ mig_window[i].ready
    BY DEF MigqInv
  <2>2. i # 1
    BY <1>1, <1>4, <1>6, <2>1
  <2>3. \E j \in 1..Len(mig_window') : /\ mig_window'[j].ln = r.ln /\ mig_window'[j].mem = n
                                       /\ ~ mig_window'[j].ready
    BY <1>21, <2>1, <2>2
  <2>4. r.ln \in Lines
    BY EntryTypes
  <2>5. /\ r.ln \notin crossed => Home(r.ln)' = Home(r.ln)
        /\ TargetLine(r.ln)' = TargetLine(r.ln)
    BY <1>12, <1>16, <2>4
  <2>6. /\ \A s \in migq[n] : s.ln = r.ln => s = r
        /\ r.ln \notin crossed =>
           \/ r.val = Home(r.ln) /\ r.val # NoVal
           \/ r.val = NoVal /\ r.fl = TargetLine(r.ln) /\ ~ Has(writeq[n], r.ln)
    BY DEF MigqInv
  <2> QED
    BY <1>2, <2>3, <2>5, <2>6
<1>26. BufferInv'
  <2>1. mig_status' \in {3, 4}
    BY <1>1
  <2>2. (\A n \in Mems : \A l \in DOMAIN buffer[n] : l \in Lines /\ MovedFrom(l) = n)'
    BY <1>3, <1>9, <1>10, SameLines
  <2>3. \A l \in Lines : ~ Away(l)'
    <3>1. hot_writes = 0 /\ cold_writes = 0
      BY <1>1 DEF StageInv
    <3>2. \A l \in Lines : l[2] \in Nat \ {0}
      BY NoValApart DEF Lines, LineNums
    <3> QED
      BY <1>3, <3>1, <3>2 DEF Away
  <2>4. (\A n \in Mems : \A l \in DOMAIN buffer[n] :
           /\ mig_status = 3 => buffer[n][l].st = 1
           /\ mig_status = 4 => (buffer[n][l].st = 2 <=> Away(l))
           /\ mig_status = 5 => buffer[n][l].st = 2)'
    BY <1>10, <2>1, <2>3
  <2>5. (mig_status \in {4, 5} =>
           \A l \in Lines : MovedFrom(l) # "none" => l \in DOMAIN buffer[MovedFrom(l)])'
    <3> SUFFICES ASSUME mig_status' = 4
                 PROVE  (\A l \in Lines : MovedFrom(l) # "none" =>
                                              l \in DOMAIN buffer[MovedFrom(l)])'
      BY <2>1
    <3>1. Len(mig_window') = 0
      BY <1>1, <1>21
    <3> QED
      BY <1>3, <1>9, <1>23, <3>1, SameLines
  <2> QED
    BY <2>1, <2>2, <2>4, <2>5 DEF BufferInv
<1>27. StageInv'
  <2>1. mig_status' \in {3, 4}
    BY <1>1
  <2>2. hotq.fr = <<>>
    <3>1. hotq.fr \in Seq((L1Frames \cup L2Frames) \X LineNums)
      BY DEF TypeOK, StageQ
    <3>2. Len(hotq.fr) = 0
      BY <1>1 DEF StageInv
    <3> QED
      BY <3>1, <3>2
  <2>3. lines_in_page \in Nat
    BY MgAssumption DEF TypeOK
  <2>4. \A s, y : Rest(s, y)' <=> Rest(s, y)
    BY <1>3 DEF Rest
  <2> QED
    BY <1>1, <1>3, <2>1, <2>2, <2>3, <2>4 DEF StageInv
<1>28. FrameInv'
  <2>1. mig_status # 0 /\ mig_status' # 0
    BY <1>1
  <2> QED
    BY <1>3, <2>1 DEF FrameInv
<1>29. Funs'
  BY <1>2, <1>3, <1>8, SameLines DEF Funs
<1>30. TypeOK'
  <2>1. Types
    BY TypeParts
  <2>2. SelType'
    BY <1>1, <1>3, <2>1 DEF Types, SelType
  <2>3. WindowType'
    BY <1>3, <1>21, SameLines DEF WindowType
  <2>4. BufferType'
    <3>1. \A n \in Mems : \A l \in DOMAIN buffer'[n] : l \in Lines /\ buffer'[n][l] \in BufEntry
      <4>1. [st |-> 1, val |-> v] \in BufEntry
        BY <1>7 DEF BufEntry
      <4> QED
        BY <1>8, <1>10, <2>1, <4>1 DEF Types, BufferType
    <3> QED
      BY <1>3, <3>1, SameLines DEF BufferType
  <2> QED
    BY <1>2, <1>3, <2>2, <2>3, <2>4, TypesStay, TypePartsNext DEF Types
<1> QED
  BY <1>17, <1>18, <1>19, <1>24, <1>25, <1>26, <1>27, <1>28, <1>29, <1>30

\* Line x of a page on the move is written to its new frame.
LEMMA LineWritten ==
  ASSUME IInv, QueuedForOneFrame', mig_status = 4, mig_status' = 4,
         NEW from \in Mems, NEW to \in Mems, NEW x \in Lines, NEW fl \in FrameLines(to),
         MovedFrom(x) = from, ~ Away(x), Away(x)',
         \A l \in Lines : l # x /\ MovedFrom(l) # "none" => (Away(l)' <=> Away(l)),
         to = IF from = "l2m" THEN "l1m" ELSE "l2m",
         fl = <<IF from = "l2m" THEN cold_frame_addr ELSE hot_frame_addr, x[2]>>,
         Written(from, to, x, fl),
         UNCHANGED <<pageVars, selVars, mig_window, migq, readq, mem,
                     wait_list, mshr, cached, latest, crossed, reqs>>,
         StageType'
  PROVE  /\ TypeOK' /\ Funs' /\ FrameInv' /\ BufferInv' /\ WindowInv' /\ MigqInv'
         /\ CacheInv' /\ ReadInv' /\ (\A l \in Lines : LineOk(l))'
<1> USE DEF IInv
<1>1. /\ UNCHANGED <<lines_in_page, dom, frame_addr, free>>
      /\ UNCHANGED <<mig_type, hot_pg_num, cold_pg_num, hot_frame_addr, cold_frame_addr>>
  BY DEF pageVars, selVars
<1>2. \A l : MovedFrom(l)' = MovedFrom(l) /\ MovedFrom(l) \in {"none", "l1m", "l2m"}
  BY <1>1, MovedIs DEF MovedFrom
<1>3. x \in DOMAIN buffer[from] /\ buffer[from][x].st = 1 /\ ~ InFrame(x)
  <2>1. x \in DOMAIN buffer[from]
    BY DEF BufferInv, Mems
  <2>2. buffer[from][x].st # 2
    BY <2>1 DEF BufferInv
  <2>3. buffer[from][x].st \in {1, 2}
    BY <2>1 DEF TypeOK, BufEntry
  <2> QED
    BY <2>1, <2>2, <2>3 DEF InFrame, InBuffer, Mems
<1>4. PICK v : v = buffer[from][x].val
  OBVIOUS
<1>5. v = Home(x) /\ v \in Vals
  BY <1>3, <1>4 DEF Home, LineOk
<1>e. PICK e : e = [ln |-> x, off |-> 0, fl |-> fl, val |-> v]
  OBVIOUS
<1>6. /\ writeq' = [writeq EXCEPT ![to] = Append(@, e)]
      /\ buffer' = [buffer EXCEPT ![from][x].st = 2]
  BY <1>e, <1>4 DEF Written
<1>7. e \in Writes(to) /\ e.ln = x /\ e.fl = fl /\ e.val = v
  BY <1>e, <1>5, OffsetAssumption DEF Writes
<1>8. /\ DOMAIN buffer' = Mems
      /\ \A n \in Mems : DOMAIN buffer'[n] = DOMAIN buffer[n]
      /\ \A n \in Mems : \A l \in DOMAIN buffer[n] : l # x => buffer'[n][l] = buffer[n][l]
      /\ \A n \in Mems : n # from => buffer'[n] = buffer[n]
      /\ buffer'[from][x] = [buffer[from][x] EXCEPT !.st = 2]
      /\ buffer'[from][x].st = 2
  <2>1. /\ DOMAIN buffer' = Mems
        /\ \A n \in Mems : n # from => buffer'[n] = buffer[n]
        /\ buffer'[from] = [buffer[from] EXCEPT ![x].st = 2]
    BY <1>6 DEF Funs
  <2>2. /\ DOMAIN buffer'[from] = DOMAIN buffer[from]
        /\ \A l \in DOMAIN buffer[from] : l # x => buffer'[from][l] = buffer[from][l]
        /\ buffer'[from][x] = [buffer[from][x] EXCEPT !.st = 2]
    BY <1>3, <2>1
  <2>3. buffer[from][x] = [st |-> buffer[from][x].st, val |-> buffer[from][x].val]
    <3>1. buffer[from][x] \in BufEntry
      BY <1>3 DEF TypeOK
    <3> QED
      BY <3>1 DEF BufEntry
  <2>4. buffer'[from][x].st = 2
    BY <2>2, <2>3
  <2> QED
    BY <2>1, <2>2, <2>4
<1>9. InBuffer(x, 2)' /\ InFrame(x)' /\ TargetMem(x)' = to /\ TargetLine(x)' = fl
  <2>1. MovedFrom(x)' = from /\ from # "none" /\ x \in DOMAIN buffer'[from]
    BY <1>2, <1>3, <1>8 DEF Mems
  <2>2. InBuffer(x, 2)' /\ InFrame(x)'
    <3>1. buffer'[from][x].st = 2
      BY <1>8
    <3>2. InBuffer(x, 2)' /\ ~ InBuffer(x, 1)'
      BY <2>1, <3>1 DEF InBuffer
    <3> QED
      BY <3>2 DEF InFrame
  <2> QED
    BY <1>1, <2>1, <2>2 DEF TargetMem, TargetLine, WrittenAway
<1>10. \A l : l # x => /\ InBuffer(l, 1)' <=> InBuffer(l, 1)
                       /\ InBuffer(l, 2)' <=> InBuffer(l, 2)
  BY <1>2, <1>8 DEF InBuffer, Mems
<1>11. \A l : l # x => Placed(l)
  BY <1>1, <1>2, <1>10 DEF Placed, InFrame, TargetMem, TargetLine, WrittenAway
<1>12. FrameInv'
  <2>1. mig_status # 0 /\ mig_status' # 0
    OBVIOUS
  <2> QED
    BY <1>1, <2>1 DEF FrameInv
<1>13. BufferInv'
  <2>1. (\A n \in Mems : \A l \in DOMAIN buffer[n] : l \in Lines /\ MovedFrom(l) = n)'
    BY <1>1, <1>2, <1>8, SameLines DEF BufferInv
  <2>2. \A n \in Mems : \A l \in DOMAIN buffer[n] :
          l \in Lines /\ MovedFrom(l) = n /\ (buffer[n][l].st = 2 <=> Away(l))
    BY DEF BufferInv
  <2>3. ASSUME NEW n \in Mems, NEW l \in DOMAIN buffer'[n]
        PROVE  buffer'[n][l].st = 2 <=> Away(l)'
    <3>1. l \in DOMAIN buffer[n] /\ l \in Lines /\ MovedFrom(l) = n
      BY <1>8, <2>2
    <3>2. CASE l = x
      BY <1>8, <3>1, <3>2
    <3>3. CASE l # x
      BY <1>8, <2>2, <3>1, <3>3 DEF Mems
    <3> QED
      BY <3>2, <3>3
  <2>4. (\A l \in Lines : MovedFrom(l) # "none" => l \in DOMAIN buffer[MovedFrom(l)])'
    BY <1>1, <1>2, <1>8, SameLines DEF BufferInv, Mems
  <2> QED
    BY <2>1, <2>3, <2>4 DEF BufferInv
<1>14. WriteType' /\ BufferType' /\ SelType' /\ Funs'
  <2>1. Types
    BY TypeParts
  <2>2. WriteType'
    <3>1. writeq[to] \in Seq(Writes(to))
      BY QueueTypes
    <3>2. Append(writeq[to], e) \in Seq(Writes(to))
      BY <1>7, <3>1, AppendQueue
    <3>3. \A n \in Mems : writeq'[n] = IF n = to THEN Append(writeq[to], e) ELSE writeq[n]
      BY <1>6 DEF Funs
    <3> QED
      BY <1>1, <2>1, <3>2, <3>3, SameLines DEF Types, WriteType
  <2>3. BufferType'
    <3>1. [buffer[from][x] EXCEPT !.st = 2] \in BufEntry
      <4>1. buffer[from][x] \in BufEntry
        BY <1>3 DEF TypeOK
      <4> QED
        BY <4>1 DEF BufEntry
    <3>2. \A n \in Mems : \A l \in DOMAIN buffer[n] : buffer'[n][l] \in BufEntry
      BY <1>8, <2>1, <3>1 DEF Types, BufferType
    <3> QED
      BY <1>1, <1>8, <2>1, <3>2, SameLines DEF Types, BufferType
  <2>4. SelType'
    BY <1>1, <2>1 DEF Types, SelType
  <2>5. Funs'
    BY <1>1, <1>6, <1>8, SameLines DEF Funs
  <2> QED
    BY <2>2, <2>3, <2>4, <2>5
<1>15. TypeOK'
  BY <1>1, <1>14, TypesStay, TypePartsNext DEF Types
<1>16. Apart'
  BY <1>12, <1>13, <1>15, Injective, PTL
<1>17. ASSUME NEW l \in Lines, InFrame(l), TargetMem(l) = to, TargetLine(l) = fl
       PROVE  l = x
  <2> SUFFICES ASSUME l # x
               PROVE  FALSE
    OBVIOUS
  <2>1. InFrame(l)' /\ TargetMem(l)' = to /\ TargetLine(l)' = fl
    BY <1>11, <1>17 DEF Placed
  <2>2. Lines' = Lines
    BY <1>1, SameLines
  <2>3. \A k \in Lines : /\ InFrame(l)' /\ InFrame(k)'
                         /\ TargetMem(l)' = TargetMem(k)' /\ TargetLine(l)' = TargetLine(k)'
                         => l = k
    BY <1>16, <2>2 DEF Apart
  <2> QED
    BY <1>9, <2>1, <2>3
<1>18. /\ OthersKept(x) /\ OthersQueued(x)
       /\ Has(writeq'[to], x) /\ LastVal(writeq'[to], x) = v
  <2>1. writeq' = [writeq EXCEPT ![to] = Append(@, e)] /\ UNCHANGED mem
    BY <1>6
  <2>2. \A l \in Lines : LineOk(l) /\ (l # e.ln => Placed(l))
    BY <1>7, <1>11
  <2>3. \A l \in Lines : InFrame(l) /\ TargetMem(l) = to /\ TargetLine(l) = e.fl => l = e.ln
    BY <1>7, <1>17
  <2>4. /\ OthersKept(e.ln) /\ OthersQueued(e.ln)
        /\ Has(writeq'[to], e.ln) /\ LastVal(writeq'[to], e.ln) = e.val
    BY <1>7, <2>1, <2>2, <2>3, WriteJoins
  <2> QED
    BY <1>7, <2>4
<1>19. Home(x)' = Home(x)
  <2>1. Home(x)' = Store(writeq'[to], mem'[to], x, fl)
    BY <1>9, HomeNext
  <2> QED
    BY <1>5, <1>18, <2>1 DEF Store
<1>20. \A l \in Lines : Home(l)' = Home(l)
  <2> SUFFICES ASSUME NEW l \in Lines, l # x, ~ InFrame(l)
               PROVE  Home(l)' = Home(l)
    BY <1>18, <1>19 DEF OthersKept
  <2>1. MovedFrom(l) \in Mems /\ l \in DOMAIN buffer[MovedFrom(l)]
    BY <1>2 DEF InFrame, InBuffer, Mems
  <2>2. buffer'[MovedFrom(l)][l] = buffer[MovedFrom(l)][l] /\ ~ InFrame(l)'
    BY <1>8, <1>11, <2>1 DEF Placed
  <2> QED
    BY <1>2, <2>2 DEF Home
<1>21. QueueOk(writeq'[to], x, fl)
  <2>1. writeq'[to] = Append(writeq[to], e) /\ writeq[to] \in Seq(Writes(to))
    BY <1>6, QueueTypes DEF Funs
  <2>2. /\ Len(writeq'[to]) = Len(writeq[to]) + 1 /\ Len(writeq[to]) \in Nat
        /\ writeq'[to][Len(writeq[to]) + 1] = e
        /\ \A i \in 1..Len(writeq[to]) : writeq'[to][i] = writeq[to][i]
    BY <1>7, <2>1
  <2>3. \A i, j \in 1..Len(writeq'[to]) :
          writeq'[to][i].ln = writeq'[to][j].ln => writeq'[to][i].fl = writeq'[to][j].fl
    BY DEF QueuedForOneFrame
  <2>4. \A i \in 1..Len(writeq[to]) : writeq[to][i].ln = x => writeq[to][i].fl = fl
    <3> SUFFICES ASSUME NEW i \in 1..Len(writeq[to]), writeq[to][i].ln = x
                 PROVE  writeq[to][i].fl = fl
      OBVIOUS
    <3>1. i \in 1..Len(writeq'[to]) /\ Len(writeq[to]) + 1 \in 1..Len(writeq'[to])
      BY <2>2
    <3>2. writeq'[to][i].ln = writeq'[to][Len(writeq[to]) + 1].ln
      BY <1>7, <2>2
    <3>3. writeq'[to][i].fl = writeq'[to][Len(writeq[to]) + 1].fl
      BY <2>3, <3>1, <3>2
    <3> QED
      BY <1>7, <2>2, <3>3
  <2> QED
    BY <1>7, <2>1, <2>4, AppendOrder
<1>22. CacheInv' /\ \A l : Version(l)' = Version(l) /\ (NoWriteWaits(l)' <=> NoWriteWaits(l))
  BY <1>1, CacheStays
<1>23. (\A l \in Lines : LineOk(l))'
  <2> SUFFICES ASSUME NEW l \in Lines
               PROVE  LineOk(l)'
    BY <1>1, SameLines
  <2>1. NoWriteWaits(l)' /\ l \notin crossed' => Home(l) = Version(l)'
    BY <1>22 DEF LineOk
  <2>2. CASE l # x
    BY <1>1, <1>11, <1>18, <1>20, <2>1, <2>2, LineStays DEF OthersKept
  <2>3. CASE l = x
    <3>1. (InFrame(x) => QueueOk(writeq[TargetMem(x)], x, TargetLine(x)))'
      BY <1>9, <1>21 DEF QueueOk
    <3>2. Home(x)' \in Vals'
      BY <1>1, <1>5, <1>19, SameLines
    <3> QED
      BY <1>19, <2>1, <2>3, <3>1, <3>2 DEF LineOk
  <2> QED
    BY <2>2, <2>3
<1>24. ReadInv'
  <2>1. \A n \in Mems : \A r \in readq[n] :
          /\ r.ln \in DOMAIN mshr
          /\ ReadAlone(r.ln)
          /\ r.ln = x /\ r.ln \notin crossed => r.val = Version(r.ln)
    BY <1>3 DEF ReadInv
  <2>2. \A n \in Mems : \A r \in readq'[n] :
           /\ r.ln \in DOMAIN mshr'
           /\ ReadAlone(r.ln)'
           /\ Version(r.ln)' = Version(r.ln)
           /\ r.ln \notin crossed' =>
              \/ r.val = Version(r.ln)
              \/ Placed(r.ln) /\ (~ Has(writeq[n], r.ln) => ~ Has(writeq'[n], r.ln))
    <3> SUFFICES ASSUME NEW n \in Mems, NEW r \in readq[n], readq'[n] = readq[n]
                 PROVE  /\ r.ln \in DOMAIN mshr'
                        /\ ReadAlone(r.ln)'
                        /\ Version(r.ln)' = Version(r.ln)
                        /\ r.ln \notin crossed' =>
                           \/ r.val = Version(r.ln)
                           \/ /\ Placed(r.ln)
                              /\ ~ Has(writeq[n], r.ln) => ~ Has(writeq'[n], r.ln)
      BY <1>1
    <3>1. UNCHANGED <<mshr, wait_list, crossed>>
      BY <1>1
    <3>2. r.ln \in DOMAIN mshr /\ ReadAlone(r.ln)
      BY <2>1
    <3>3. ReadAlone(r.ln)'
      BY <3>1, <3>2 DEF ReadAlone
    <3>4. r.ln # x => Placed(r.ln) /\ (Has(writeq'[n], r.ln) <=> Has(writeq[n], r.ln))
      BY <1>11, <1>18 DEF OthersQueued
    <3>5. r.ln = x /\ r.ln \notin crossed => r.val = Version(r.ln)
      BY <2>1
    <3> QED
      BY <1>22, <3>1, <3>2, <3>3, <3>4, <3>5
  <2> QED
    BY <2>2, ReadsStay
<1>25. WindowInv' /\ MigqInv'
  <2>1. mig_window = <<>>
    BY DEF WindowInv
  <2> QED
    BY <2>1, WindowEmpty
<1> QED
  BY <1>12, <1>13, <1>14, <1>15, <1>22, <1>23, <1>24, <1>25

\* A line is written to its new frame, the hot page's first, or all have been.
LEMMA SendWriteStep ==
  ASSUME IInv, QueuedForOneFrame', onfly_mig_send_write
  PROVE  IInv'
<1> USE DEF IInv
<1>1. mig_status = 4
  BY DEF onfly_mig_send_write
<1>2. /\ UNCHANGED <<pageVars, selVars, mig_window, migq, readq, mem>>
      /\ UNCHANGED <<wait_list, mshr, cached, latest, crossed, reqs>>
  BY DEF onfly_mig_send_write, cacheVars
<1>3. /\ UNCHANGED <<lines_in_page, dom, frame_addr, free>>
      /\ UNCHANGED <<mig_type, hot_pg_num, cold_pg_num, hot_frame_addr, cold_frame_addr>>
  BY <1>2 DEF pageVars, selVars
<1>4. /\ hotq.pg = <<>> /\ hotq.fr = <<>> /\ coldq.pg = <<>>
      /\ Rest(hotq.pg_backup, hot_pg_num) /\ Rest(coldq.fr_backup, cold_frame_addr)
      /\ Len(hotq.pg_backup) = lines_in_page - hot_writes
      /\ Len(coldq.fr_backup) = lines_in_page - hot_writes
      /\ mig_type = 1 => coldq.pg_backup = <<>> /\ cold_writes = 0
      /\ mig_type = 2 =>
           /\ Rest(coldq.pg_backup, cold_pg_num) /\ Rest(hotq.fr_backup, hot_frame_addr)
           /\ Len(coldq.pg_backup) = lines_in_page - cold_writes
           /\ Len(hotq.fr_backup) = lines_in_page - cold_writes
           /\ cold_writes > 0 => hot_writes = lines_in_page
  BY <1>1 DEF StageInv
<1> DEFINE FL == (L1Frames \cup L2Frames) \X LineNums
<1>5. /\ hotq \in StageQ /\ coldq \in StageQ
      /\ hotq.pg_backup \in Seq(Lines) /\ coldq.pg_backup \in Seq(Lines)
      /\ hotq.fr_backup \in Seq(FL) /\ coldq.fr_backup \in Seq(FL)
  BY DEF TypeOK, StageQ
<1>6. /\ lines_in_page \in Nat /\ hot_writes \in 0..lines_in_page
      /\ cold_writes \in 0..lines_in_page
  BY MgAssumption DEF TypeOK
<1>7. /\ mig_type \in {1, 2} /\ cold_frame_addr \in L1Frames
      /\ hot_frame_addr \in L2Frames
  <2>1. /\ mig_type \in {1, 2} /\ cold_frame_addr \in L1Frames
        /\ hot_pg_num \in Pages /\ hot_frame_addr = frame_addr[hot_pg_num]
        /\ dom[hot_pg_num] = "l2m"
    BY <1>1 DEF FrameInv
  <2>2. frame_addr[hot_pg_num] \in Frames(dom[hot_pg_num])
    BY <2>1 DEF FrameInv
  <2> QED
    BY <2>1, <2>2 DEF Frames
<1>9. \A s, y : Rest(s, y)' <=> Rest(s, y)
  BY <1>3 DEF Rest
<1>10. ASSUME hot_writes < lines_in_page,
              Written("l2m", "l1m", Head(hotq.pg_backup), HotTarget),
              hotq' = [hotq EXCEPT !.pg_backup = Tail(@)],
              coldq' = [coldq EXCEPT !.fr_backup = Tail(@)],
              hot_writes' = hot_writes + 1, UNCHANGED <<cold_writes, mig_status>>
       PROVE  IInv'
  <2>1. hotq.pg_backup # <<>> /\ coldq.fr_backup # <<>>
    BY <1>4, <1>6, <1>10
  <2>2. /\ Head(hotq.pg_backup) = <<hot_pg_num, lines_in_page - Len(hotq.pg_backup) + 1>>
        /\ Head(hotq.pg_backup) \in Lines
        /\ Tail(hotq.pg_backup) \in Seq(Lines)
        /\ Len(Tail(hotq.pg_backup)) = Len(hotq.pg_backup) - 1
        /\ Rest(Tail(hotq.pg_backup), hot_pg_num)
    BY <1>4, <1>5, <2>1, RestTail
  <2>3. /\ Head(coldq.fr_backup) = <<cold_frame_addr, lines_in_page - Len(coldq.fr_backup) + 1>>
        /\ Tail(coldq.fr_backup) \in Seq(FL)
        /\ Len(Tail(coldq.fr_backup)) = Len(coldq.fr_backup) - 1
        /\ Rest(Tail(coldq.fr_backup), cold_frame_addr)
    BY <1>4, <1>5, <2>1, RestTail
  <2>4. PICK x, fl : x = Head(hotq.pg_backup) /\ fl = HotTarget
    OBVIOUS
  <2>5. /\ x \in Lines /\ x[1] = hot_pg_num /\ x[2] = hot_writes + 1
        /\ fl = <<cold_frame_addr, hot_writes + 1>>
    <3>1. lines_in_page - (lines_in_page - hot_writes) + 1 = hot_writes + 1
      BY <1>6
    <3> QED
      BY <1>4, <2>2, <2>3, <2>4, <3>1 DEF HotTarget
  <2>6. hotq' = [pg |-> <<>>, fr |-> <<>>, pg_backup |-> Tail(hotq.pg_backup),
                 fr_backup |-> hotq.fr_backup]
    BY <1>4, <1>5, <1>10 DEF StageQ
  <2>7. coldq' = [pg |-> <<>>, fr |-> coldq.fr, pg_backup |-> coldq.pg_backup,
                  fr_backup |-> Tail(coldq.fr_backup)]
    BY <1>4, <1>5, <1>10 DEF StageQ
  <2>8. StageType'
    <3>1. hotq' \in StageQ
      BY <2>2, <2>6, <1>5 DEF StageQ
    <3>2. coldq' \in StageQ
      BY <2>3, <2>7, <1>5 DEF StageQ
    <3>3. hot_writes' \in 0..lines_in_page /\ cold_writes' \in 0..lines_in_page
      BY <1>6, <1>10
    <3> QED
      BY <1>3, <3>1, <3>2, <3>3, SameLines DEF StageType
  <2>9. MovedFrom(x) = "l2m"
    BY <1>1, <2>5, MovedIs
  <2>10. \A l : MovedFrom(l)' = MovedFrom(l)
    BY <1>1, <1>3, <1>10 DEF MovedFrom
  <2>11. ~ Away(x) /\ Away(x)'
    BY <1>6, <1>10, <2>5, <2>9, <2>10 DEF Away
  <2>12. \A l \in Lines : l # x /\ MovedFrom(l) # "none" => (Away(l)' <=> Away(l))
    <3> SUFFICES ASSUME NEW l \in Lines, l # x, MovedFrom(l) # "none"
                 PROVE  Away(l)' <=> Away(l)
      OBVIOUS
    <3>1. CASE MovedFrom(l) = "l2m"
      <4>1. l = <<l[1], l[2]>> /\ l[2] \in Nat /\ x = <<x[1], x[2]>>
        BY <1>6, <2>5 DEF Lines, LineNums
      <4>2. l[1] = hot_pg_num
        BY <3>1, MovedIs
      <4>3. l[2] # hot_writes + 1
        BY <2>5, <4>1, <4>2
      <4>4. l[2] <= hot_writes + 1 <=> l[2] <= hot_writes
        BY <1>6, <4>1, <4>3
      <4> QED
        BY <1>10, <2>10, <3>1, <4>4 DEF Away
    <3>2. CASE MovedFrom(l) # "l2m"
      BY <1>10, <2>10, <3>2 DEF Away
    <3> QED
      BY <3>1, <3>2
  <2>13. fl \in FrameLines("l1m") /\ fl = <<cold_frame_addr, x[2]>>
    BY <1>7, <2>5 DEF FrameLines, Frames, Lines
  <2>14. Written("l2m", "l1m", x, fl)
    BY <1>10, <2>4
  <2>15. /\ TypeOK' /\ Funs' /\ FrameInv' /\ BufferInv' /\ WindowInv' /\ MigqInv'
         /\ CacheInv' /\ ReadInv' /\ (\A l \in Lines : LineOk(l))'
    <3>1. "l1m" \in Mems /\ "l2m" \in Mems
      BY DEF Mems
    <3> QED
      BY <1>1, <1>2, <1>10, <2>5, <2>8, <2>9, <2>11, <2>12, <2>13, <2>14, <3>1, LineWritten
  <2>16. StageInv'
    <3>1. /\ hotq'.pg = <<>> /\ hotq'.fr = <<>> /\ coldq'.pg = <<>>
          /\ hotq'.pg_backup = Tail(hotq.pg_backup) /\ hotq'.fr_backup = hotq.fr_backup
          /\ coldq'.fr_backup = Tail(coldq.fr_backup) /\ coldq'.pg_backup = coldq.pg_backup
      BY <2>6, <2>7
    <3>2. /\ Len(Tail(hotq.pg_backup)) = lines_in_page - hot_writes'
          /\ Len(Tail(coldq.fr_backup)) = lines_in_page - hot_writes'
      BY <1>4, <1>6, <1>10, <2>2, <2>3
    <3>3. cold_writes' = 0 \/ mig_type = 1
      BY <1>4, <1>6, <1>7, <1>10
    <3>4. mig_status' = 4
      BY <1>1, <1>10
    <3> QED
      BY <1>3, <1>4, <1>9, <1>10, <2>2, <2>3, <3>1, <3>2, <3>3, <3>4 DEF StageInv
  <2> QED
    BY <2>15, <2>16
<1>11. ASSUME hot_writes = lines_in_page, DOMAIN buffer["l1m"] # {}, cold_writes < lines_in_page,
              Written("l1m", "l2m", Head(coldq.pg_backup), Head(hotq.fr_backup)),
              coldq' = [coldq EXCEPT !.pg_backup = Tail(@)],
              hotq' = [hotq EXCEPT !.fr_backup = Tail(@)],
              cold_writes' = cold_writes + 1, UNCHANGED <<hot_writes, mig_status>>
       PROVE  IInv'
  <2>t. mig_type = 2
    <3>1. PICK l \in DOMAIN buffer["l1m"] : TRUE
      BY <1>11
    <3>2. MovedFrom(l) = "l1m"
      BY <3>1 DEF BufferInv, Mems
    <3> QED
      BY <3>2, MovedIs
  <2>c. /\ Rest(coldq.pg_backup, cold_pg_num) /\ Rest(hotq.fr_backup, hot_frame_addr)
        /\ Len(coldq.pg_backup) = lines_in_page - cold_writes
        /\ Len(hotq.fr_backup) = lines_in_page - cold_writes
    BY <1>4, <2>t
  <2>1. coldq.pg_backup # <<>> /\ hotq.fr_backup # <<>>
    BY <1>6, <1>11, <2>c
  <2>2. /\ Head(coldq.pg_backup) = <<cold_pg_num, lines_in_page - Len(coldq.pg_backup) + 1>>
        /\ Head(coldq.pg_backup) \in Lines
        /\ Tail(coldq.pg_backup) \in Seq(Lines)
        /\ Len(Tail(coldq.pg_backup)) = Len(coldq.pg_backup) - 1
        /\ Rest(Tail(coldq.pg_backup), cold_pg_num)
    BY <1>5, <2>c, <2>1, RestTail
  <2>3. /\ Head(hotq.fr_backup) = <<hot_frame_addr, lines_in_page - Len(hotq.fr_backup) + 1>>
        /\ Tail(hotq.fr_backup) \in Seq(FL)
        /\ Len(Tail(hotq.fr_backup)) = Len(hotq.fr_backup) - 1
        /\ Rest(Tail(hotq.fr_backup), hot_frame_addr)
    BY <1>5, <2>c, <2>1, RestTail
  <2>4. PICK x, fl : x = Head(coldq.pg_backup) /\ fl = Head(hotq.fr_backup)
    OBVIOUS
  <2>5. /\ x \in Lines /\ x[1] = cold_pg_num /\ x[2] = cold_writes + 1
        /\ fl = <<hot_frame_addr, cold_writes + 1>>
    <3>1. lines_in_page - (lines_in_page - cold_writes) + 1 = cold_writes + 1
      BY <1>6
    <3> QED
      BY <2>c, <2>2, <2>3, <2>4, <3>1
  <2>6. hotq' = [pg |-> <<>>, fr |-> <<>>, pg_backup |-> hotq.pg_backup,
                 fr_backup |-> Tail(hotq.fr_backup)]
    BY <1>4, <1>5, <1>11 DEF StageQ
  <2>7. coldq' = [pg |-> <<>>, fr |-> coldq.fr, pg_backup |-> Tail(coldq.pg_backup),
                  fr_backup |-> coldq.fr_backup]
    BY <1>4, <1>5, <1>11 DEF StageQ
  <2>8. StageType'
    <3>1. hotq' \in StageQ
      BY <2>3, <2>6, <1>5 DEF StageQ
    <3>2. coldq' \in StageQ
      BY <2>2, <2>7, <1>5 DEF StageQ
    <3>3. hot_writes' \in 0..lines_in_page /\ cold_writes' \in 0..lines_in_page
      BY <1>6, <1>11
    <3> QED
      BY <1>3, <3>1, <3>2, <3>3, SameLines DEF StageType
  <2>9. MovedFrom(x) = "l1m"
    BY <1>1, <2>t, <2>5, MovedIs
  <2>10. \A l : MovedFrom(l)' = MovedFrom(l)
    BY <1>1, <1>3, <1>11 DEF MovedFrom
  <2>11. ~ Away(x) /\ Away(x)'
    BY <1>6, <1>11, <2>5, <2>9, <2>10 DEF Away
  <2>12. \A l \in Lines : l # x /\ MovedFrom(l) # "none" => (Away(l)' <=> Away(l))
    <3> SUFFICES ASSUME NEW l \in Lines, l # x, MovedFrom(l) # "none"
                 PROVE  Away(l)' <=> Away(l)
      OBVIOUS
    <3>1. CASE MovedFrom(l) = "l1m"
      <4>1. l = <<l[1], l[2]>> /\ l[2] \in Nat /\ x = <<x[1], x[2]>>
        BY <1>6, <2>5 DEF Lines, LineNums
      <4>2. l[1] = cold_pg_num
        BY <3>1, MovedIs
      <4>3. l[2] # cold_writes + 1
        BY <2>5, <4>1, <4>2
      <4>4. l[2] <= cold_writes + 1 <=> l[2] <= cold_writes
        BY <1>6, <4>1, <4>3
      <4> QED
        BY <1>11, <2>10, <3>1, <4>4 DEF Away
    <3>2. CASE MovedFrom(l) = "l2m"
      BY <1>11, <2>10, <3>2 DEF Away
    <3> QED
      BY <3>1, <3>2, MovedIs
  <2>13. fl \in FrameLines("l2m") /\ fl = <<hot_frame_addr, x[2]>>
    BY <1>7, <2>5 DEF FrameLines, Frames, Lines
  <2>14. Written("l1m", "l2m", x, fl)
    BY <1>11, <2>4
  <2>15. /\ TypeOK' /\ Funs' /\ FrameInv' /\ BufferInv' /\ WindowInv' /\ MigqInv'
         /\ CacheInv' /\ ReadInv' /\ (\A l \in Lines : LineOk(l))'
    <3>1. "l1m" \in Mems /\ "l2m" \in Mems
      BY DEF Mems
    <3> QED
      BY <1>1, <1>2, <1>11, <2>5, <2>8, <2>9, <2>11, <2>12, <2>13, <2>14, <3>1, LineWritten
  <2>16. StageInv'
    <3>1. /\ hotq'.pg = <<>> /\ hotq'.fr = <<>> /\ coldq'.pg = <<>>
          /\ hotq'.pg_backup = hotq.pg_backup /\ hotq'.fr_backup = Tail(hotq.fr_backup)
          /\ coldq'.fr_backup = coldq.fr_backup /\ coldq'.pg_backup = Tail(coldq.pg_backup)
      BY <2>6, <2>7
    <3>2. /\ Len(Tail(coldq.pg_backup)) = lines_in_page - cold_writes'
          /\ Len(Tail(hotq.fr_backup)) = lines_in_page - cold_writes'
      BY <2>c, <1>6, <1>11, <2>2, <2>3
    <3>3. mig_status' = 4 /\ mig_type' = 2
      BY <1>1, <1>3, <1>11, <2>t
    <3> QED
      BY <1>3, <1>4, <1>9, <1>11, <2>2, <2>3, <3>1, <3>2, <3>3 DEF StageInv
  <2> QED
    BY <2>15, <2>16
<1>12. ASSUME hot_writes = lines_in_page, mig_type = 2 => cold_writes = lines_in_page,
              mig_status' = 5, hot_writes' = 0, cold_writes' = 0,
              UNCHANGED <<hotq, coldq, writeq, buffer>>
       PROVE  IInv'
  <2>1. mig_status \notin {0, 203} /\ mig_status' \notin {0, 203}
    BY <1>1, <1>12
  <2>2. /\ \A l : Stay(l) /\ Home(l)' = Home(l)
        /\ (\A l \in Lines : LineOk(l))' /\ CacheInv' /\ ReadInv' /\ FrameInv' /\ Funs'
    BY <1>2, <1>12, <2>1, SendAlone DEF Funs
  <2>3. \A l : MovedFrom(l)' = MovedFrom(l) /\ MovedFrom(l) \in {"none", "l1m", "l2m"}
    BY <2>2, MovedIs DEF Stay
  <2>4. \A l \in Lines : MovedFrom(l) # "none" => Away(l)
    <3> SUFFICES ASSUME NEW l \in Lines, MovedFrom(l) # "none"
                 PROVE  Away(l)
      OBVIOUS
    <3>1. l[2] <= lines_in_page
      BY <1>6 DEF Lines, LineNums
    <3>2. MovedFrom(l) # "l2m" => mig_type = 2
      BY <2>3, MovedIs
    <3> QED
      BY <1>12, <3>1, <3>2 DEF Away
  <2>5. BufferInv'
    <3>1. \A n \in Mems : \A l \in DOMAIN buffer[n] :
            l \in Lines /\ MovedFrom(l) = n /\ (buffer[n][l].st = 2 <=> Away(l))
      BY <1>1 DEF BufferInv
    <3>2. \A n \in Mems : \A l \in DOMAIN buffer[n] : buffer[n][l].st = 2
      BY <2>4, <3>1 DEF Mems
    <3>3. \A l \in Lines : MovedFrom(l) # "none" => l \in DOMAIN buffer[MovedFrom(l)]
      BY <1>1 DEF BufferInv
    <3> QED
      BY <1>3, <1>12, <2>3, <3>1, <3>2, <3>3, SameLines DEF BufferInv
  <2>6. StageInv'
    <3>1. hotq.pg_backup = <<>> /\ coldq.fr_backup = <<>> /\ coldq.pg_backup = <<>>
      <4>1. Len(hotq.pg_backup) = 0 /\ Len(coldq.fr_backup) = 0
        BY <1>4, <1>6, <1>12
      <4>2. coldq.pg_backup = <<>> \/ Len(coldq.pg_backup) = 0
        BY <1>4, <1>6, <1>7, <1>12
      <4> QED
        BY <1>5, <4>1, <4>2
    <3> QED
      BY <1>4, <1>12, <3>1 DEF StageInv
  <2>7. WindowInv' /\ MigqInv'
    <3>1. mig_window = <<>>
      BY <1>1 DEF WindowInv
    <3> QED
      BY <1>2, <1>12, <3>1, WindowEmpty
  <2>8. TypeOK'
    <3>1. SelType'
      BY <1>3, <1>12, TypeParts DEF Types, SelType
    <3>2. StageType'
      BY <1>3, <1>5, <1>6, <1>12, SameLines DEF StageType
    <3> QED
      BY <1>2, <1>3, <1>12, <3>1, <3>2, TypesStay, TypePartsNext DEF Types
  <2> QED
    BY <2>2, <2>5, <2>6, <2>7, <2>8
<1> QED
  BY <1>10, <1>11, <1>12 DEF onfly_mig_send_write

\* The pages have their new frames, where all of their lines are by now.
LEMMA CompletionStep ==
  ASSUME IInv, onfly_mig_completion
  PROVE  IInv'
<1> USE DEF IInv
<1>1. /\ mig_status = 5 /\ mig_status' = 0
      /\ dom' = NewDoms /\ frame_addr' = NewFrames
      /\ buffer' = [m \in Mems |-> <<>>]
      /\ hot_pg_num' = NoPage /\ cold_pg_num' = NoPage
      /\ hot_frame_addr' = NoFrame /\ cold_frame_addr' = NoFrame
  BY DEF onfly_mig_completion
<1>2. UNCHANGED <<lines_in_page, free, mig_type, stageVars, mig_window, migq, readq, writeq, mem>>
  BY DEF onfly_mig_completion
<1>3. UNCHANGED <<wait_list, mshr, cached, latest, crossed, reqs>>
  BY DEF onfly_mig_completion, cacheVars
<1>4. /\ hot_pg_num \in Pages /\ dom[hot_pg_num] = "l2m"
      /\ hot_frame_addr = frame_addr[hot_pg_num]
      /\ cold_frame_addr \in L1Frames /\ mig_type \in {1, 2}
      /\ mig_type = 1 => /\ cold_pg_num = NoPage /\ cold_frame_addr \notin free
                         /\ \A p \in Pages : dom[p] = "l1m" => frame_addr[p] # cold_frame_addr
      /\ mig_type = 2 => /\ cold_pg_num \in Pages /\ dom[cold_pg_num] = "l1m"
                         /\ cold_frame_addr = frame_addr[cold_pg_num]
  BY <1>1 DEF FrameInv
<1>5. /\ \A p \in Pages : /\ frame_addr[p] \in Frames(dom[p]) /\ dom[p] \in Mems
                          /\ dom[p] = "l1m" => frame_addr[p] \notin free
      /\ \A p, q \in Pages : dom[p] = dom[q] /\ frame_addr[p] = frame_addr[q] => p = q
  BY DEF FrameInv, TypeOK
<1>6. \A p \in Pages :
        /\ p = hot_pg_num => dom'[p] = "l1m" /\ frame_addr'[p] = cold_frame_addr
        /\ p # hot_pg_num /\ p = cold_pg_num /\ mig_type = 2 =>
             dom'[p] = "l2m" /\ frame_addr'[p] = hot_frame_addr
        /\ p # hot_pg_num /\ ~ (p = cold_pg_num /\ mig_type = 2) =>
             dom'[p] = dom[p] /\ frame_addr'[p] = frame_addr[p]
  <2> SUFFICES ASSUME NEW p \in Pages
               PROVE  /\ p = hot_pg_num => NewDoms[p] = "l1m" /\ NewFrames[p] = cold_frame_addr
                      /\ p # hot_pg_num /\ p = cold_pg_num /\ mig_type = 2 =>
                           NewDoms[p] = "l2m" /\ NewFrames[p] = hot_frame_addr
                      /\ p # hot_pg_num /\ ~ (p = cold_pg_num /\ mig_type = 2) =>
                           NewDoms[p] = dom[p] /\ NewFrames[p] = frame_addr[p]
    BY <1>1, Zenon
  <2>1. NewDoms[p] = CASE p = hot_pg_num -> "l1m"
                       [] p = cold_pg_num /\ mig_type = 2 -> "l2m"
                       [] OTHER -> dom[p]
    BY DEF NewDoms
  <2>2. NewFrames[p] = CASE p = hot_pg_num -> cold_frame_addr
                         [] p = cold_pg_num /\ mig_type = 2 -> hot_frame_addr
                         [] OTHER -> frame_addr[p]
    BY DEF NewFrames
  <2>3. mig_type = 2 => cold_pg_num # hot_pg_num
    BY <1>4
  <2>4. CASE p = hot_pg_num
    BY <2>1, <2>2, <2>3, <2>4
  <2>5. CASE p # hot_pg_num /\ p = cold_pg_num /\ mig_type = 2
    BY <2>1, <2>2, <2>5
  <2>6. CASE p # hot_pg_num /\ ~ (p = cold_pg_num /\ mig_type = 2)
    BY <2>1, <2>2, <2>6
  <2> QED
    BY <2>4, <2>5, <2>6
<1>7. hot_frame_addr \in L2Frames /\ (mig_type = 2 => cold_pg_num # hot_pg_num)
  BY <1>4, <1>5 DEF Frames
<1>8. BufferInv' /\ \A l : ~ InBuffer(l, 1)' /\ ~ InBuffer(l, 2)'
  <2>1. \A m \in Mems : buffer'[m] = <<>>
    BY <1>1
  <2> QED
    BY <1>1, <2>1, BuffersEmpty
<1>9. \A l \in Lines : MovedFrom(l) # "none" => InBuffer(l, 2)
  BY <1>1, AwayIs
<1>10. \A l : InFrame(l) /\ InFrame(l)'
  <2>1. \A m \in Mems : \A l \in DOMAIN buffer[m] : buffer[m][l].st = 2
    BY <1>1 DEF BufferInv
  <2>2. \A l : ~ InBuffer(l, 1)
    BY <2>1, MovedIs DEF InBuffer, Mems
  <2> QED
    BY <1>8, <2>2 DEF InFrame
<1>11. \A l : TargetMem(l)' = dom'[l[1]] /\ TargetLine(l)' = <<frame_addr'[l[1]], l[2]>>
  BY <1>8 DEF TargetMem, TargetLine, WrittenAway
<1>12. ASSUME NEW l \in Lines
       PROVE  Placed(l) /\ Home(l)' = Home(l)
  <2>1. l[1] \in Pages
    BY DEF Lines
  <2>2. TargetMem(l) = dom'[l[1]] /\ TargetLine(l) = <<frame_addr'[l[1]], l[2]>>
    <3>1. CASE l[1] = hot_pg_num
      <4>1. MovedFrom(l) = "l2m" /\ InBuffer(l, 2)
        BY <1>1, <1>9, <3>1, MovedIs
      <4>2. TargetMem(l) = "l1m" /\ TargetLine(l) = <<cold_frame_addr, l[2]>>
        BY <4>1, TargetIs
      <4> QED
        BY <1>6, <2>1, <3>1, <4>2
    <3>2. CASE l[1] = cold_pg_num /\ mig_type = 2
      <4>1. MovedFrom(l) = "l1m" /\ InBuffer(l, 2)
        BY <1>1, <1>9, <3>2, MovedIs
      <4>2. TargetMem(l) = "l2m" /\ TargetLine(l) = <<hot_frame_addr, l[2]>>
        BY <4>1, TargetIs
      <4> QED
        BY <1>6, <1>7, <2>1, <3>2, <4>2
    <3>3. CASE l[1] # hot_pg_num /\ ~ (l[1] = cold_pg_num /\ mig_type = 2)
      <4>1. MovedFrom(l) = "none"
        BY <3>3, MovedIs
      <4>2. ~ InBuffer(l, 2)
        BY <4>1 DEF InBuffer
      <4>3. TargetMem(l) = dom[l[1]] /\ TargetLine(l) = <<frame_addr[l[1]], l[2]>>
        BY <4>2, TargetIs
      <4> QED
        BY <1>6, <2>1, <3>3, <4>3
    <3> QED
      BY <3>1, <3>2, <3>3
  <2>3. Placed(l)
    <3>1. TargetMem(l)' = TargetMem(l) /\ TargetLine(l)' = TargetLine(l)
      BY <1>11, <2>2
    <3>2. InFrame(l)' = InFrame(l)
      BY <1>10 DEF InFrame
    <3> QED
      BY <3>1, <3>2 DEF Placed
  <2>4. Home(l)' = Store(writeq'[TargetMem(l)], mem'[TargetMem(l)], l, TargetLine(l))
    BY <1>10, <1>11, <2>2, HomeNext
  <2>5. Home(l) = Store(writeq[TargetMem(l)], mem[TargetMem(l)], l, TargetLine(l))
    BY <1>10 DEF Home
  <2> QED
    BY <1>2, <2>3, <2>4, <2>5
<1>13. (\A l \in Lines : LineOk(l))' /\ CacheInv' /\ ReadInv'
  BY <1>2, <1>3, <1>12, DemandAlone
<1>14. WindowInv' /\ MigqInv'
  <2>1. mig_window = <<>> /\ mig_status' \notin {1, 3}
    BY <1>1 DEF WindowInv
  <2> QED
    BY <1>2, <2>1, WindowEmpty
<1>15. FrameInv'
  <2>1. \A p \in Pages : frame_addr'[p] \in Frames(dom'[p])
    BY <1>4, <1>5, <1>6, <1>7 DEF Frames
  <2>2. \A p \in Pages : dom'[p] = "l1m" => frame_addr'[p] \notin free
    BY <1>4, <1>5, <1>6
  <2>3. \A p, q \in Pages : dom'[p] = dom'[q] /\ frame_addr'[p] = frame_addr'[q] => p = q
    BY <1>4, <1>5, <1>6
  <2> QED
    BY <1>1, <1>2, <2>1, <2>2, <2>3 DEF FrameInv, Frames
<1>16. StageInv'
  BY <1>1, <1>2 DEF StageInv, stageVars
<1>17. TypeOK'
  <2>1. Types
    BY TypeParts
  <2>2. PageType'
    <3>1. dom' \in [Pages -> Mems]
      <4>1. dom' = [p \in Pages |-> NewDoms[p]]
        BY <1>1 DEF NewDoms
      <4>2. \A p \in Pages : dom'[p] \in Mems
        BY <1>5, <1>6 DEF Mems
      <4> QED
        BY <1>1, <4>1, <4>2
    <3>2. frame_addr' \in [Pages -> L1Frames \cup L2Frames]
      <4>1. frame_addr' = [p \in Pages |-> NewFrames[p]]
        BY <1>1 DEF NewFrames
      <4>2. \A p \in Pages : frame_addr'[p] \in L1Frames \cup L2Frames
        BY <1>4, <1>5, <1>6, <1>7 DEF Frames
      <4> QED
        BY <1>1, <4>1, <4>2
    <3> QED
      BY <1>2, <2>1, <3>1, <3>2 DEF Types, PageType
  <2>3. SelType'
    BY <1>1, <1>2, <2>1 DEF Types, SelType
  <2>4. BufferType'
    BY <1>1 DEF BufferType
  <2> QED
    BY <1>2, <1>3, <2>2, <2>3, <2>4, TypesStay, TypePartsNext DEF Types
<1>18. Funs'
  BY <1>1, <1>2, <1>3, SameLines DEF Funs
<1> QED
  BY <1>8, <1>13, <1>14, <1>15, <1>16, <1>17, <1>18

(***************************************************************************)
(* The theorems.                                                           *)
(***************************************************************************)
\* A step that changes nothing the invariant is about.
LEMMA StutterStep ==
  ASSUME IInv, UNCHANGED vars
  PROVE  IInv'
<1> USE DEF IInv
<1>1. /\ UNCHANGED <<pageVars, mig_status, selVars, stageVars, mig_window, migq, buffer,
                     readq, writeq, mem, wait_list, mshr, cached, latest, crossed, reqs>>
      /\ UNCHANGED <<lines_in_page, dom, frame_addr, free>>
      /\ UNCHANGED <<mig_type, hot_pg_num, cold_pg_num, hot_frame_addr, cold_frame_addr>>
      /\ UNCHANGED <<hotq, coldq, hot_writes, cold_writes>>
  BY DEF vars, pageVars, selVars, stageVars, cacheVars
<1>2. \A l : Stay(l) /\ Home(l)' = Home(l)
  BY <1>1, BufferStays, HomeStays
<1>3. (\A l \in Lines : LineOk(l))' /\ CacheInv' /\ ReadInv'
  BY <1>1, <1>2, StayPlaced, DemandAlone
<1>4. FrameInv'
  BY <1>1 DEF FrameInv
<1>5. StageInv'
  BY <1>1 DEF StageInv, Rest
<1>6. \A l : MovedFrom(l)' = MovedFrom(l) /\ Unread(l)' = Unread(l) /\ Away(l)' = Away(l)
  BY <1>1 DEF MovedFrom, Unread, Away
<1>7. Lines' = Lines /\ Vals' = Vals
  BY <1>1, SameLines
<1>8. BufferInv'
  BY <1>1, <1>6, <1>7 DEF BufferInv
<1>9. WindowInv'
  BY <1>1, <1>2, <1>6, <1>7 DEF WindowInv
<1>10. MigqInv'
  <2>1. \A l : TargetLine(l)' = TargetLine(l)
    BY <1>2 DEF Stay
  <2> QED
    BY <1>1, <1>2, <2>1 DEF MigqInv, Has
<1>11. TypeOK'
  BY <1>1, TypesStay, TypePartsNext DEF Types
<1>12. Funs'
  BY <1>1, SameLines DEF Funs
<1> QED
  BY <1>3, <1>4, <1>5, <1>8, <1>9, <1>10, <1>11, <1>12

\* Every step keeps the invariant while the conditions hold.
LEMMA NextStep ==
  ASSUME IInv, Benign, Benign', [Next]_vars
  PROVE  IInv'
<1>1. ASSUME NEW ln \in Lines, NEW off \in Offsets, Miss(ln, off)
      PROVE  IInv'
  BY <1>1, MissStep
<1>2. ASSUME NEW ln \in Lines, NEW off \in Offsets, WriteBack(ln, off)
      PROVE  IInv'
  BY <1>2, WriteBackStep
<1>3. CASE BufferHit
  BY <1>3, BufferHitStep DEF Benign
<1>4. CASE SendDemand
  BY <1>4, SendDemandStep DEF Benign
<1>5. CASE Select
  BY <1>5, SelectStep
<1>6. CASE onfly_fill_mig_stage_q
  BY <1>6, FillStep DEF Benign
<1>7. CASE onfly_mig_demand_pending
  BY <1>7, PendingStep
<1>8. CASE onfly_mig_send_read
  BY <1>8, SendReadStep
<1>9. CASE onfly_mig_start
  BY <1>9, StartStep DEF Benign
<1>10. CASE onfly_mig_send_write
  <2>1. QueuedForOneFrame'
    BY DEF Benign
  <2> QED
    BY <1>10, <2>1, SendWriteStep
<1>11. CASE onfly_mig_completion
  BY <1>11, CompletionStep
<1>12. ASSUME NEW m \in Mems, ServeRead(m)
       PROVE  IInv'
  BY <1>12, ServeReadStep
<1>13. ASSUME NEW m \in Mems, ServeWrite(m)
       PROVE  IInv'
  BY <1>13, ServeWriteStep
<1>14. ASSUME NEW m \in Mems, ServeMig(m)
       PROVE  IInv'
  BY <1>14, ServeMigStep
<1>15. CASE UNCHANGED vars
  BY <1>15, StutterStep
<1> QED
  BY <1>1, <1>2, <1>3, <1>4, <1>5, <1>6, <1>7, <1>8, <1>9, <1>10, <1>11, <1>12, <1>13,
     <1>14, <1>15 DEF Next, CacheStep, MigStep, MemStep

\* At first every page is in its frame, and nothing is queued.
LEMMA InitInv == Init => IInv
<1> SUFFICES ASSUME Init
             PROVE  IInv
  OBVIOUS
<1> USE DEF Mems
<1>1. /\ mig_status = 0 /\ mig_type = 0 /\ hot_pg_num = NoPage /\ cold_pg_num = NoPage
      /\ hot_frame_addr = NoFrame /\ cold_frame_addr = NoFrame
      /\ hotq = EmptyQ /\ coldq = EmptyQ /\ hot_writes = 0 /\ cold_writes = 0
      /\ mig_window = <<>> /\ wait_list = <<>> /\ mshr = <<>> /\ reqs = 0
      /\ cached = [l \in Lines |-> NoVal] /\ latest = [l \in Lines |-> 0]
      /\ lines_in_page \in PageSizes /\ crossed = {}
  BY DEF Init
<1>2. /\ migq = [m \in Mems |-> {}] /\ buffer = [m \in Mems |-> <<>>]
      /\ readq = [m \in Mems |-> {}] /\ writeq = [m \in Mems |-> <<>>]
  BY DEF Init
<1> DEFINE At(m, x) == CHOOSE p \in Pages : dom[p] = m /\ frame_addr[p] = x
           Cell(m, fl) == IF \E p \in Pages : dom[p] = m /\ frame_addr[p] = fl[1]
                          THEN <<<<At(m, fl[1]), fl[2]>>, 0>> ELSE Junk
<1>3. /\ dom \in [Pages -> Mems] /\ frame_addr \in [Pages -> L1Frames \cup L2Frames]
      /\ \A p \in Pages : frame_addr[p] \in Frames(dom[p])
      /\ \A p, q \in Pages : dom[p] = dom[q] /\ frame_addr[p] = frame_addr[q] => p = q
      /\ free \subseteq L1Frames
      /\ \A p \in Pages : dom[p] = "l1m" => frame_addr[p] \notin free
      /\ mem = [m \in Mems |-> [fl \in FrameLines(m) |-> Cell(m, fl)]]
  BY DEF Init
<1>4. \A p \in Pages : At(dom[p], frame_addr[p]) = p
  <2> SUFFICES ASSUME NEW p \in Pages
               PROVE  At(dom[p], frame_addr[p]) = p
    OBVIOUS
  <2>1. /\ At(dom[p], frame_addr[p]) \in Pages
        /\ dom[At(dom[p], frame_addr[p])] = dom[p]
        /\ frame_addr[At(dom[p], frame_addr[p])] = frame_addr[p]
    OBVIOUS
  <2> HIDE DEF At
  <2> QED
    BY <1>3, <2>1
<1>5. \A m \in Mems : \A x :
        (\E p \in Pages : dom[p] = m /\ frame_addr[p] = x) => At(m, x) \in Pages
  OBVIOUS
<1> HIDE DEF At
<1>7. \A m \in Mems : \A fl \in FrameLines(m) : Cell(m, fl) \in Vals
  <2> SUFFICES ASSUME NEW m \in Mems, NEW fl \in FrameLines(m),
                      \E p \in Pages : dom[p] = m /\ frame_addr[p] = fl[1]
               PROVE  <<<<At(m, fl[1]), fl[2]>>, 0>> \in Vals
    BY DEF Vals
  <2>1. At(m, fl[1]) \in Pages /\ fl[2] \in LineNums
    BY <1>5 DEF FrameLines
  <2>2. 0 \in 0..MaxReqs
    BY BoundAssumption
  <2> QED
    BY <2>1, <2>2 DEF Vals, Lines
<1>8. \A l \in Lines : /\ <<l, 0>> \in Vals
                       /\ mem[dom[l[1]]][<<frame_addr[l[1]], l[2]>>] = <<l, 0>>
  <2> SUFFICES ASSUME NEW l \in Lines
               PROVE  /\ <<l, 0>> \in Vals
                      /\ mem[dom[l[1]]][<<frame_addr[l[1]], l[2]>>] = <<l, 0>>
    OBVIOUS
  <2>1. l[1] \in Pages /\ l[2] \in LineNums /\ l = <<l[1], l[2]>>
    BY DEF Lines
  <2> DEFINE fl == <<frame_addr[l[1]], l[2]>>
  <2>2. dom[l[1]] \in Mems /\ fl \in FrameLines(dom[l[1]])
    BY <1>3, <2>1 DEF FrameLines
  <2>3. fl[1] = frame_addr[l[1]] /\ fl[2] = l[2]
    OBVIOUS
  <2> HIDE DEF fl
  <2>4. Cell(dom[l[1]], fl) = <<<<l[1], l[2]>>, 0>>
    BY <1>4, <2>1, <2>3
  <2> HIDE DEF Cell
  <2>5. mem[dom[l[1]]][fl] = <<l, 0>>
    BY <1>3, <2>1, <2>2, <2>4
  <2>6. 0 \in 0..MaxReqs
    BY BoundAssumption
  <2> QED
    BY <2>5, <2>6 DEF Vals, fl
<1> HIDE DEF Cell
<1>9. /\ \A m \in Mems : migq[m] = {} /\ buffer[m] = <<>> /\ readq[m] = {} /\ writeq[m] = <<>>
      /\ DOMAIN migq = Mems /\ DOMAIN readq = Mems /\ DOMAIN writeq = Mems
      /\ DOMAIN mem = Mems /\ DOMAIN buffer = Mems
  BY <1>2, <1>3
<1>10. TypeOK
  <2>1. PageType /\ SelType
    BY <1>1, <1>3 DEF PageType, SelType
  <2>2. StageType
    <3>1. 0 \in 0..lines_in_page
      BY <1>1, MgAssumption
    <3>2. EmptyQ \in StageQ
      BY DEF EmptyQ, StageQ
    <3> QED
      BY <1>1, <3>1, <3>2 DEF StageType
  <2>3. WindowType /\ ReadTypes /\ WriteType
    <3>1. WindowType /\ ReadTypes
      BY <1>1, <1>9 DEF WindowType, ReadTypes
    <3>2. \A S : <<>> \in Seq(S)
      OBVIOUS
    <3>3. WriteType
      BY <1>9, <3>2, Zenon DEF WriteType
    <3> QED
      BY <3>1, <3>3
  <2>4. MemType
    BY <1>3, <1>7 DEF MemType
  <2>5. BufferType
    BY <1>9 DEF BufferType
  <2>6. CacheType
    <3>1. 0 \in 0..MaxReqs
      BY BoundAssumption
    <3> QED
      BY <1>1, <3>1 DEF CacheType
  <2>7. CrossType
    BY <1>1 DEF CrossType
  <2> QED
    BY <2>1, <2>2, <2>3, <2>4, <2>5, <2>6, <2>7, TypeParts DEF Types
<1>11. Funs
  <2>1. 0 \in 0..MaxReqs
    BY BoundAssumption
  <2> QED
    BY <1>1, <1>9, <2>1 DEF Funs
<1>12. FrameInv
  BY <1>1, <1>3 DEF FrameInv
<1>13. StageInv
  BY <1>1 DEF StageInv, EmptyQ
<1>14. BufferInv
  BY <1>1, <1>9 DEF BufferInv
<1>15. WindowInv /\ MigqInv /\ ReadInv
  BY <1>1, <1>9 DEF WindowInv, MigqInv, ReadInv
<1>16. CacheInv
  BY <1>1 DEF CacheInv, CacheCoherent, WaitInv
<1>17. ASSUME NEW l \in Lines
       PROVE  LineOk(l)
  <2>1. InFrame(l) /\ TargetMem(l) = dom[l[1]] /\ TargetLine(l) = <<frame_addr[l[1]], l[2]>>
    BY <1>1, <1>10, <1>12, <1>14, AwayIs, TargetIs
  <2>2. TargetMem(l) \in Mems
    BY <1>10, <1>12, <1>14, TargetIs
  <2>3. ~ Has(writeq[TargetMem(l)], l) /\ QueueOk(writeq[TargetMem(l)], l, TargetLine(l))
    BY <1>9, <2>2 DEF Has, QueueOk
  <2>4. Home(l) = <<l, 0>>
    BY <1>8, <2>1, <2>3 DEF Home, Store
  <2>5. Version(l) = <<l, 0>>
    BY <1>1 DEF Version
  <2> QED
    BY <1>8, <2>3, <2>4, <2>5 DEF LineOk
<1> QED
  BY <1>10, <1>11, <1>12, <1>13, <1>14, <1>15, <1>16, <1>17 DEF IInv

\* The invariant holds in every run of the controller, the cache and the memories
\* in which the four conditions hold.
THEOREM MigrationInvariant == Spec /\ []Benign => []IInv
<1>1. IInv /\ (Benign /\ Benign') /\ [Next]_vars => IInv'
  BY NextStep
<1> QED
  BY <1>1, InitInv, PTL DEF Spec

\* What the invariant says of the lines that the cache holds and, between migrations,
\* of those it has written back.
LEMMA CoherentAndWhole == IInv => CacheCoherent /\ PagesWhole
<1>1. IInv => CacheCoherent
  BY DEF IInv, CacheInv
<1>2. IInv => PagesWhole
  <2> SUFFICES ASSUME IInv, mig_status = 0, NEW l \in Lines \ crossed,
                      ~ \E i \in 1..Len(wait_list) : /\ wait_list[i].type = "WRITE"
                                                     /\ wait_list[i].ln = l
               PROVE  \/ /\ LineQueued(dom[l[1]], l)
                         /\ LastOfLine(dom[l[1]], l).val = <<l, latest[l]>>
                      \/ /\ ~ LineQueued(dom[l[1]], l)
                         /\ mem[dom[l[1]]][<<frame_addr[l[1]], l[2]>>] = <<l, latest[l]>>
    BY DEF PagesWhole
  <2>1. InFrame(l) /\ TargetMem(l) = dom[l[1]] /\ TargetLine(l) = <<frame_addr[l[1]], l[2]>>
    BY AwayIs, TargetIs DEF IInv
  <2>2. NoWriteWaits(l)
    BY EntryTypes DEF NoWriteWaits, IInv
  <2>3. TypeOK /\ dom[l[1]] \in Mems
    BY <2>1, TargetIs DEF IInv
  <2>4. Store(writeq[dom[l[1]]], mem[dom[l[1]]], l, <<frame_addr[l[1]], l[2]>>) = Version(l)
    BY <2>1, <2>2 DEF IInv, LineOk, Home
  <2> QED
    BY <2>3, <2>4, ForwardedIs DEF Store, Version
<1> QED
  BY <1>1, <1>2

\* Whatever a migration does to a line between the miss and the answer, the cache gets
\* the line it asked for, as it was last written back, unless the line is crossed.
THEOREM CacheIsCoherent == Spec /\ []Benign => []CacheCoherent
BY CoherentAndWhole, MigrationInvariant, PTL

\* Between migrations no page has lost a line that is not crossed: the latest version is
\* in a write-back that waits, in the write queue of its memory, or in its frame.
THEOREM PagesAreWhole == Spec /\ []Benign => []PagesWhole
BY CoherentAndWhole, MigrationInvariant, PTL

\* Without a free frame in the fast memory only swaps are selected, and a swap leaves
\* nothing in the staging queues.
SwapInv == /\ free = {} /\ mig_type \in {0, 2}
           /\ mig_status \in {0, 203, 4, 5} => coldq.fr = <<>>
           /\ mig_status \in {0, 203, 5} => hotq.fr_backup = <<>>

\* The frame addresses of a swap are taken one by one, with the lines they are for.
LEMMA SwapStep ==
  ASSUME IInv, SwapInv, [Next]_vars
  PROVE  SwapInv'
<1>1. TypeOK /\ FrameInv /\ StageInv
  BY DEF IInv
<1>2. mig_status # 0 => mig_type = 2
  BY <1>1 DEF FrameInv, SwapInv
<1>3. coldq.fr \in Seq((L1Frames \cup L2Frames) \X LineNums)
      /\ hotq.fr_backup \in Seq((L1Frames \cup L2Frames) \X LineNums)
  BY <1>1 DEF TypeOK, StageQ
<1>4. mig_status = 3 => coldq.fr = <<>>
  <2>1. mig_status = 3 => Len(coldq.fr) = Len(coldq.pg) /\ coldq.pg = <<>>
    BY <1>1, <1>2 DEF StageInv
  <2> QED
    BY <1>3, <2>1
<1>5. mig_status = 4 /\ cold_writes = lines_in_page => hotq.fr_backup = <<>>
  <2>1. mig_status = 4 => Len(hotq.fr_backup) = lines_in_page - cold_writes
    BY <1>1, <1>2 DEF StageInv
  <2>2. lines_in_page \in Nat
    BY <1>1, MgAssumption DEF TypeOK
  <2> QED
    BY <1>3, <2>1, <2>2
<1>6. ASSUME UNCHANGED <<free, mig_type, mig_status, coldq, hotq>>
      PROVE  SwapInv'
  BY <1>6 DEF SwapInv
<1>7. ASSUME \E ln \in Lines, off \in Offsets : Miss(ln, off) \/ WriteBack(ln, off)
      PROVE  SwapInv'
  BY <1>6, <1>7 DEF Miss, WriteBack, pageVars, selVars, stageVars
<1>8. CASE CacheStep
  BY <1>6, <1>8 DEF CacheStep, BufferHit, SendDemand, pageVars, selVars, stageVars
<1>9. ASSUME NEW m \in Mems, MemStep(m)
      PROVE  SwapInv'
  BY <1>6, <1>9 DEF MemStep, ServeRead, ServeWrite, ServeMig, pageVars, selVars, stageVars
<1>10. CASE Select
  <2>1. mig_type' = 2 /\ free' = free
    BY <1>10 DEF Select, SwapInv
  <2>2. mig_status = 0 /\ mig_status' = 203 /\ UNCHANGED <<coldq, hotq>>
    BY <1>10 DEF Select, stageVars
  <2> QED
    BY <2>1, <2>2 DEF SwapInv
<1>11. CASE onfly_fill_mig_stage_q
  <2>1. mig_status' \in {1, 2} /\ free' = free /\ mig_type' = mig_type
    BY <1>11 DEF onfly_fill_mig_stage_q, pageVars, selVars
  <2> QED
    BY <2>1 DEF SwapInv
<1>12. CASE onfly_mig_demand_pending
  BY <1>12 DEF onfly_mig_demand_pending, SwapInv, pageVars, selVars
<1>13. CASE onfly_mig_send_read
  <2>1. mig_status' \in {1, 3} /\ free' = free /\ mig_type' = mig_type
    BY <1>13 DEF onfly_mig_send_read, pageVars, selVars
  <2> QED
    BY <2>1 DEF SwapInv
<1>14. CASE onfly_mig_start
  <2>1. mig_status = 3 /\ mig_status' \in {3, 4} /\ UNCHANGED <<free, mig_type, coldq, hotq>>
    BY <1>14 DEF onfly_mig_start, pageVars, selVars, stageVars
  <2> QED
    BY <1>4, <2>1 DEF SwapInv
<1>15. CASE onfly_mig_send_write
  <2>1. mig_status = 4 /\ free' = free /\ mig_type' = mig_type
    BY <1>15 DEF onfly_mig_send_write, pageVars, selVars
  <2>2. coldq'.fr = coldq.fr
    <3>1. coldq \in StageQ
      BY <1>1 DEF TypeOK
    <3>2. \/ coldq' = [coldq EXCEPT !.fr_backup = Tail(@)]
          \/ coldq' = [coldq EXCEPT !.pg_backup = Tail(@)]
          \/ coldq' = coldq
      BY <1>15 DEF onfly_mig_send_write
    <3> QED
      BY <3>1, <3>2 DEF StageQ
  <2>3. \/ mig_status' = 4
        \/ mig_status' = 5 /\ cold_writes = lines_in_page /\ hotq' = hotq
    BY <1>2, <1>15, <2>1 DEF onfly_mig_send_write
  <2> QED
    BY <1>5, <2>1, <2>2, <2>3 DEF SwapInv
<1>16. CASE onfly_mig_completion
  <2>1. /\ mig_status = 5 /\ mig_status' = 0
        /\ UNCHANGED <<free, mig_type, coldq, hotq>>
    BY <1>16 DEF onfly_mig_completion, stageVars
  <2> QED
    BY <2>1 DEF SwapInv
<1>17. CASE UNCHANGED vars
  BY <1>6, <1>17 DEF vars, pageVars, selVars, stageVars
<1> QED
  BY <1>7, <1>8, <1>9, <1>10, <1>11, <1>12, <1>13, <1>14, <1>15, <1>16, <1>17
     DEF Next, MigStep

\* Three of the conditions are enough for a system whose fast memory is full, as every
\* migration of it is a swap: the lines that are not crossed are coherent and kept.
THEOREM SwapsAreCoherent ==
  Spec /\ free = {} /\ [](NeverRefused /\ QueuedForOneFrame /\ SentMustWait)
    => [](CacheCoherent /\ PagesWhole)
<1> DEFINE Rest3 == NeverRefused /\ QueuedForOneFrame /\ SentMustWait
<1>1. SwapInv /\ Rest3 => Benign
  BY DEF SwapInv, Benign, StagesEmptied
<1>2. Init /\ free = {} => IInv /\ SwapInv
  <2>1. Init /\ free = {} => SwapInv
    BY DEF Init, SwapInv, EmptyQ
  <2> QED
    BY <2>1, InitInv
<1>3. IInv /\ SwapInv /\ Rest3 /\ Rest3' /\ [Next]_vars => IInv' /\ SwapInv'
  <2> SUFFICES ASSUME IInv, SwapInv, Rest3, Rest3', [Next]_vars
               PROVE  IInv' /\ SwapInv'
    OBVIOUS
  <2>1. SwapInv'
    BY SwapStep
  <2>2. Benign /\ Benign'
    BY <2>1 DEF SwapInv, Benign, StagesEmptied
  <2> QED
    BY <2>1, <2>2, NextStep
<1>4. IInv => CacheCoherent /\ PagesWhole
  BY CoherentAndWhole
<1> QED
  BY <1>2, <1>3, <1>4, PTL DEF Spec
=============================================================================
