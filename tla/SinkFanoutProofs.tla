--------------------------- MODULE SinkFanoutProofs ---------------------------
(***************************************************************************)
(* What reaches a sink, for every set of levels, list of sinks and number  *)
(* of records: only what both levels let through, in order, and without    *)
(* silent loss.                                                            *)
(***************************************************************************)
EXTENDS SinkFanout, SequenceTheorems, TLAPS

Chunk == (1..MaxRecords) \X {"text", "newline"}

-----------------------------------------------------------------------------
(* Sequences of chunks                                                     *)

LEMMA Cut ==
  ASSUME NEW S, NEW s \in Seq(S), NEW k \in 0..Len(s)
  PROVE  /\ SubSeq(s, 1, k) \in Seq(S) /\ SubSeq(s, k + 1, Len(s)) \in Seq(S)
         /\ SubSeq(s, 1, k) \o SubSeq(s, k + 1, Len(s)) = s
<1>1. Len(s) \in Nat /\ \A i \in 1..Len(s) : s[i] \in S
  BY LenProperties, ElementOfSeq
<1>2. SubSeq(s, 1, k) \in Seq(S)
  <2>1. \A i \in 1..k : s[i] \in S
    BY <1>1
  <2> QED
    BY <1>1, <2>1, SubSeqProperties
<1>3. SubSeq(s, k + 1, Len(s)) \in Seq(S)
  <2>1. \A i \in (k + 1)..Len(s) : s[i] \in S
    BY <1>1
  <2> QED
    BY <1>1, <2>1, SubSeqProperties
<1>4. SubSeq(s, 1, k) \o SubSeq(s, k + 1, Len(s)) = SubSeq(s, 1, Len(s))
  <2>1. 1 \in 1..(Len(s) + 1) /\ k \in (1 - 1)..Len(s) /\ Len(s) \in k..Len(s)
    BY <1>1
  <2> QED
    BY <2>1, ConcatAdjacentSubSeq
<1>5. SubSeq(s, 1, Len(s)) = s
  BY SubSeqFull
<1> QED
  BY <1>2, <1>3, <1>4, <1>5

\* z is x with y behind it, point by point.
Joins(z, x, y) ==
  /\ Len(z) = Len(x) + Len(y)
  /\ \A i \in 1..(Len(x) + Len(y)) : z[i] = IF i <= Len(x) THEN x[i] ELSE y[i - Len(x)]

LEMMA ConcatJoins == \A S : \A x, y \in Seq(S) : x \o y \in Seq(S) /\ Joins(x \o y, x, y)
<1> SUFFICES ASSUME NEW S, NEW x \in Seq(S), NEW y \in Seq(S)
             PROVE  x \o y \in Seq(S) /\ Joins(x \o y, x, y)
  BY Zenon
<1> QED
  BY ConcatProperties DEF Joins

LEMMA JoinsAssociate ==
  \A p, q, t, pq, qt, l, r \in Seq(Chunk) :
    Joins(pq, p, q) /\ Joins(qt, q, t) /\ Joins(l, pq, t) /\ Joins(r, p, qt) => l = r
<1> SUFFICES ASSUME NEW p \in Seq(Chunk), NEW q \in Seq(Chunk), NEW t \in Seq(Chunk),
                    NEW pq \in Seq(Chunk), NEW qt \in Seq(Chunk), NEW l \in Seq(Chunk), NEW r \in Seq(Chunk),
                    Joins(pq, p, q), Joins(qt, q, t), Joins(l, pq, t), Joins(r, p, qt)
             PROVE  l = r
  BY ZenonT(60)
<1>1. PICK a \in Nat, b \in Nat, c \in Nat : a = Len(p) /\ b = Len(q) /\ c = Len(t)
  BY LenProperties
<1>2. Len(pq) = a + b /\ Len(qt) = b + c /\ Len(l) = (a + b) + c /\ Len(r) = a + (b + c)
  BY <1>1 DEF Joins
<1>3. ASSUME NEW i \in 1..((a + b) + c) PROVE l[i] = r[i]
  <2>1. /\ l[i] = IF i <= a + b THEN pq[i] ELSE t[i - (a + b)]
        /\ r[i] = IF i <= a THEN p[i] ELSE qt[i - a]
    BY <1>1, <1>2 DEF Joins
  <2>2. i \in 1..(a + b) => pq[i] = IF i <= a THEN p[i] ELSE q[i - a]
    BY <1>1, <1>2 DEF Joins
  <2>3. i - a \in 1..(b + c) => qt[i - a] = IF i - a <= b THEN q[i - a] ELSE t[(i - a) - b]
    BY <1>1, <1>2 DEF Joins
  <2>4. (i - a) - b = i - (a + b) /\ (i <= a + b <=> i - a <= b) /\ (i <= a => i <= a + b)
    OBVIOUS
  <2>5. (i <= a + b => i \in 1..(a + b)) /\ (~(i <= a) => i - a \in 1..(b + c))
    OBVIOUS
  <2> QED
    BY <2>1, <2>2, <2>3, <2>4, <2>5, Zenon
<1> QED
  BY <1>2, <1>3, SeqEqual

\* v is w with the text of record r, its whole line, or nothing behind it.
Grows(w, v, r) ==
  /\ Len(v) \in Len(w)..(Len(w) + 2)
  /\ \A i \in 1..Len(w) : v[i] = w[i]
  /\ Len(v) > Len(w) => v[Len(w) + 1] = <<r, "text">>
  /\ Len(v) = Len(w) + 2 => v[Len(w) + 2] = <<r, "newline">>

LEMMA LineParts ==
  ASSUME NEW r \in 1..MaxRecords
  PROVE  /\ Line(r) \in Seq(Chunk) /\ Len(Line(r)) = 2
         /\ Line(r)[1] = <<r, "text">> /\ Line(r)[2] = <<r, "newline">>
         /\ SubSeq(Line(r), 1, 0) = <<>> /\ SubSeq(Line(r), 1, 1) = <<<<r, "text">>>>
         /\ <<<<r, "text">>>> \in Seq(Chunk)
<1>1. <<r, "text">> \in Chunk /\ <<r, "newline">> \in Chunk
  BY DEF Chunk
<1>2. Line(r) \in Seq(Chunk) /\ Len(Line(r)) = 2 /\ <<<<r, "text">>>> \in Seq(Chunk)
  BY <1>1 DEF Line
<1>3. Line(r)[1] = <<r, "text">> /\ Line(r)[2] = <<r, "newline">>
  BY DEF Line
<1>4. SubSeq(Line(r), 1, 0) = <<>>
  BY SubSeqEmpty
<1>5. SubSeq(Line(r), 1, 1) = <<Line(r)[1]>>
  <2>1. /\ SubSeq(Line(r), 1, 1) \in Seq(Chunk) /\ Len(SubSeq(Line(r), 1, 1)) = 1
        /\ SubSeq(Line(r), 1, 1)[1] = Line(r)[1]
    <3>1. \A i \in 1..1 : Line(r)[i] \in Chunk
      BY <1>1, <1>3
    <3> QED
      BY <3>1, SubSeqProperties
  <2>2. <<Line(r)[1]>> \in Seq(Chunk) /\ Len(<<Line(r)[1]>>) = 1 /\ <<Line(r)[1]>>[1] = Line(r)[1]
    BY <1>1, <1>3
  <2>3. ASSUME NEW t \in Seq(Chunk), NEW u \in Seq(Chunk), Len(t) = 1, Len(u) = 1, t[1] = u[1]
        PROVE  t = u
    BY <2>3, SeqEqual
  <2> QED
    BY <2>1, <2>2, <2>3, Zenon
<1> QED
  BY <1>2, <1>3, <1>4, <1>5

\* What a write hands to the writer makes the output grow in this sense.
LEMMA ConcatGrows ==
  ASSUME NEW w \in Seq(Chunk), NEW r \in 1..MaxRecords,
         NEW c \in {<<>>, <<<<r, "text">>>>, Line(r)}
  PROVE  c \in Seq(Chunk) /\ w \o c \in Seq(Chunk) /\ Grows(w, w \o c, r)
<1>1. /\ c \in Seq(Chunk) /\ Len(c) \in 0..2
      /\ Len(c) > 0 => c[1] = <<r, "text">>
      /\ Len(c) = 2 => c[2] = <<r, "newline">>
  <2>1. CASE c = <<>>
    BY <2>1
  <2>2. CASE c = <<<<r, "text">>>>
    BY <2>2, LineParts
  <2>3. CASE c = Line(r)
    <3>1. c \in Seq(Chunk) /\ Len(c) = 2 /\ c[1] = <<r, "text">> /\ c[2] = <<r, "newline">>
      BY <2>3, LineParts, Zenon
    <3> QED
      BY <3>1
  <2> QED
    BY <2>1, <2>2, <2>3
<1>2. PICK m \in 0..2 : m = Len(c) /\ (m > 0 => c[1] = <<r, "text">>) /\ (m = 2 => c[2] = <<r, "newline">>)
  BY <1>1, Zenon
<1>3. PICK v \in Seq(Chunk) :
        /\ v = w \o c /\ Len(v) = Len(w) + Len(c)
        /\ \A i \in 1..(Len(w) + Len(c)) : v[i] = IF i <= Len(w) THEN w[i] ELSE c[i - Len(w)]
  <2>1. /\ w \o c \in Seq(Chunk) /\ Len(w \o c) = Len(w) + Len(c)
        /\ \A i \in 1..(Len(w) + Len(c)) : (w \o c)[i] = IF i <= Len(w) THEN w[i] ELSE c[i - Len(w)]
    BY <1>1, ConcatProperties
  <2> QED
    BY <2>1, Zenon
<1>4. Len(w) \in Nat
  BY LenProperties
<1>5. Len(v) = Len(w) + Len(c) /\ \A i \in 1..(Len(w) + Len(c)) : v[i] = IF i <= Len(w) THEN w[i] ELSE c[i - Len(w)]
  BY <1>3
<1>6. Grows(w, v, r)
  <2>1. Len(v) = Len(w) + m /\ \A i \in 1..(Len(w) + m) : v[i] = IF i <= Len(w) THEN w[i] ELSE c[i - Len(w)]
    BY <1>2, <1>5
  <2>2. Len(v) \in Len(w)..(Len(w) + 2) /\ \A i \in 1..Len(w) : v[i] = w[i]
    BY <1>4, <2>1
  <2>3. m > 0 => v[Len(w) + 1] = c[1]
    BY <1>4, <2>1
  <2>4. m = 2 => v[Len(w) + 2] = c[2]
    BY <1>4, <2>1
  <2>5. (Len(v) > Len(w) => m > 0) /\ (Len(v) = Len(w) + 2 => m = 2)
    BY <1>4, <2>1
  <2> QED
    BY <1>2, <2>2, <2>3, <2>4, <2>5 DEF Grows
<1> QED
  BY <1>1, <1>3, <1>6

\* The order OrderedOutput asks for.
Sorted(w) ==
  /\ \A i, j \in DOMAIN w : i < j => w[i][1] < w[j][1]
                                     \/ (w[i][1] = w[j][1] /\ w[i][2] = "text" /\ w[j][2] = "newline")
  /\ \A i \in DOMAIN w : w[i][2] = "newline" => i > 1 /\ w[i - 1] = <<w[i][1], "text">>

LEMMA Positions ==
  \A n \in Nat : \A m \in n..(n + 2) : \A i \in 1..m :
    i \in 1..n \/ (i = n + 1 /\ m > n) \/ (i = n + 2 /\ m = n + 2)
OBVIOUS

\* Output that is sorted and of earlier records only stays sorted when it grows.
LEMMA GrowsSorted ==
  ASSUME NEW w \in Seq(Chunk), NEW v \in Seq(Chunk), NEW r \in 1..MaxRecords, Grows(w, v, r),
         Sorted(w), \A i \in 1..Len(w) : w[i][1] < r
  PROVE  Sorted(v)
<1>0. Len(w) \in Nat /\ DOMAIN w = 1..Len(w) /\ DOMAIN v = 1..Len(v) /\ Len(v) \in Len(w)..(Len(w) + 2)
  BY LenProperties DEF Grows
<1>1. \A i \in 1..Len(w) : v[i] = w[i]
  BY DEF Grows
<1>2. /\ Len(v) > Len(w) => v[Len(w) + 1][1] = r /\ v[Len(w) + 1][2] = "text" /\ v[Len(w) + 1] = <<r, "text">>
      /\ Len(v) = Len(w) + 2 => v[Len(w) + 2][1] = r /\ v[Len(w) + 2][2] = "newline"
  BY DEF Grows
<1>3. \A i \in 1..Len(v) : \/ i \in 1..Len(w) \/ (i = Len(w) + 1 /\ Len(v) > Len(w))
                            \/ (i = Len(w) + 2 /\ Len(v) = Len(w) + 2)
  BY <1>0, Positions, Zenon
<1>4. ASSUME NEW i \in 1..Len(v), NEW j \in 1..Len(v), i < j
      PROVE  v[i][1] < v[j][1] \/ (v[i][1] = v[j][1] /\ v[i][2] = "text" /\ v[j][2] = "newline")
  <2>1. CASE j \in 1..Len(w)
    <3>1. i \in 1..Len(w)
      BY <1>0, <1>4, <2>1
    <3> QED
      BY <1>0, <1>1, <1>4, <2>1, <3>1 DEF Sorted
  <2>2. CASE j = Len(w) + 1 /\ Len(v) > Len(w)
    <3>1. i \in 1..Len(w)
      BY <1>0, <1>4, <2>2
    <3>2. v[j][1] = r /\ v[i][1] < r
      BY <1>1, <1>2, <2>2, <3>1
    <3> QED
      BY <3>2
  <2>3. CASE j = Len(w) + 2 /\ Len(v) = Len(w) + 2
    <3>0. Len(v) > Len(w)
      BY <1>0, <2>3
    <3>1. CASE i \in 1..Len(w)
      BY <1>1, <1>2, <2>3, <3>1
    <3>2. CASE i = Len(w) + 1
      BY <1>2, <2>3, <3>0, <3>2
    <3>3. i \in 1..Len(w) \/ i = Len(w) + 1
      BY <1>0, <1>4, <2>3
    <3> QED
      BY <3>1, <3>2, <3>3
  <2> QED
    BY <1>3, <2>1, <2>2, <2>3
<1>5. ASSUME NEW i \in 1..Len(v), v[i][2] = "newline" PROVE i > 1 /\ v[i - 1] = <<v[i][1], "text">>
  <2>1. CASE i \in 1..Len(w)
    <3>1. i > 1 /\ w[i - 1] = <<w[i][1], "text">>
      BY <1>0, <1>1, <1>5, <2>1 DEF Sorted
    <3>2. i - 1 \in 1..Len(w)
      BY <1>0, <2>1, <3>1
    <3> QED
      BY <1>1, <2>1, <3>1, <3>2
  <2>2. CASE i = Len(w) + 1 /\ Len(v) > Len(w)
    BY <1>2, <1>5, <2>2
  <2>3. CASE i = Len(w) + 2 /\ Len(v) = Len(w) + 2
    BY <1>0, <1>2, <2>3
  <2> QED
    BY <1>3, <2>1, <2>2, <2>3
<1> QED
  BY <1>0, <1>4, <1>5 DEF Sorted

-----------------------------------------------------------------------------
(* The inductive invariant                                                 *)

N == Len(SinkLevels)
Quota(k) == k * N

Places ==
  /\ level \in Levels /\ level_visible \subseteq Levels
  /\ log \in Seq([level : Levels, gate : Levels]) /\ Len(log) <= MaxRecords
  /\ next \in 1..(Len(log) + 1) /\ sink \in 0..(N + 1)
  /\ flushing \in BOOLEAN /\ stopped \in BOOLEAN
  /\ sink > 0 => next <= Len(log)
  /\ flushing => sink \in 1..N

Streams == buffer \in [Sinks -> Seq(Chunk)] /\ file \in [Sinks -> Seq(Chunk)]

\* One failure at most for each sink a record has passed.
Failures ==
  /\ {write_errors, flush_errors, panic_count} \subseteq Nat
  /\ write_errors + flush_errors + panic_count <= Quota(next - 1) + (IF sink = 0 THEN 0 ELSE sink - 1)

\* Records pass the macro's check before they are in the log.
Gated == \A r \in 1..Len(log) : log[r].level >= log[r].gate

\* Record r has been written to sink s, or skipped there, or has failed.
Passed(r, s) == r < next \/ (r = next /\ (s < sink \/ (s = sink /\ flushing)))

\* What a sink holds: records that passed it and that it accepts, in order.
Output ==
  \A s \in Sinks :
    /\ \A i \in 1..Len(Written(s)) :
         /\ Passed(Written(s)[i][1], s)
         /\ log[Written(s)[i][1]].level >= SinkLevels[s]
    /\ Sorted(Written(s))

\* Without a failure so far, an accepted record is in the file once its flush is over,
\* and behind the writer before.
Failed == write_errors + flush_errors + panic_count > 0
Complete ==
  Failed \/
    /\ \A s \in Sinks : \A r \in 1..Len(log) :
         (r < next \/ (r = next /\ s < sink)) /\ log[r].level >= SinkLevels[s] => HasLine(file[s], r)
    /\ flushing => HasLine(Written(sink), next)

IInv == Places /\ Streams /\ Failures /\ Gated /\ Output /\ Complete

-----------------------------------------------------------------------------
(* Counting                                                                *)

LEMMA NType == N \in Nat /\ Sinks = 1..N /\ \A s \in Sinks : SinkLevels[s] \in Levels /\ SinkLevels[s] \in Nat
<1>1. N \in Nat /\ Sinks = 1..N
  BY LevelsAssumption, LenProperties DEF N, Sinks
<1> QED
  BY <1>1, LevelsAssumption, ElementOfSeq DEF N

LEMMA QuotaStep == \A k \in Nat : Quota(k) \in Nat /\ Quota(k + 1) = Quota(k) + N
BY NType DEF Quota

LEMMA QuotaGrows == \A k, m \in Nat : k <= m => Quota(k) <= Quota(m)
BY NType DEF Quota

LEMMA IInvTypeOK == IInv => TypeOK
<1> SUFFICES ASSUME IInv PROVE TypeOK
  OBVIOUS
<1>0. Places /\ Streams /\ Failures /\ Len(log) \in Nat /\ MaxRecords \in Nat /\ N \in Nat
  BY MaxRecordsAssumption, NType, LenProperties DEF IInv, Places
<1>n. next - 1 \in Nat
  BY <1>0 DEF Places
<1>1. write_errors + flush_errors + panic_count <= Quota(MaxRecords)
  <2>1. CASE sink = 0
    <3>1. Quota(next - 1) <= Quota(MaxRecords)
      BY <1>0, QuotaGrows DEF Places
    <3>2. Quota(next - 1) \in Nat /\ Quota(MaxRecords) \in Nat
      BY <1>0, <1>n, QuotaStep, Zenon
    <3> QED
      BY <1>0, <2>1, <3>1, <3>2 DEF Failures
  <2>2. CASE sink # 0
    <3>1. Quota(next) <= Quota(MaxRecords) /\ Quota((next - 1) + 1) = Quota(next - 1) + N
      BY <1>0, <2>2, QuotaGrows, QuotaStep, SMTT(30) DEF Places
    <3>2. (next - 1) + 1 = next
      BY <1>0 DEF Places
    <3>3. Quota(next - 1) \in Nat /\ Quota(MaxRecords) \in Nat
      BY <1>0, <1>n, QuotaStep, Zenon
    <3>4. write_errors + flush_errors + panic_count <= Quota(next - 1) + (sink - 1) /\ sink - 1 <= N
      BY <1>0, <2>2 DEF Failures, Places
    <3>5. Quota(next - 1) + N <= Quota(MaxRecords)
      BY <3>1, <3>2
    <3> QED
      BY SMTT(30), <1>0, <3>3, <3>4, <3>5 DEF Failures, Places
  <2> QED
    BY <2>1, <2>2
<1>2. {write_errors, flush_errors, panic_count} \subseteq 0..(MaxRecords * Len(SinkLevels))
  <2>1. Quota(MaxRecords) \in Nat /\ Quota(MaxRecords) = MaxRecords * Len(SinkLevels)
    BY <1>0, QuotaStep DEF Quota, N
  <2> QED
    BY <1>0, <1>1, <2>1 DEF Failures
<1>3. \A s \in Sinks : Written(s) \in Seq(Chunk)
  BY <1>0, ConcatProperties DEF Written, Streams
<1>4. next \in 1..(MaxRecords + 1) /\ sink \in 0..(Len(SinkLevels) + 1)
  BY <1>0 DEF Places, N
<1> QED
  BY <1>0, <1>2, <1>3, <1>4 DEF TypeOK, Places, Chunk

LEMMA InitIInv == Init => IInv
<1> SUFFICES ASSUME Init PROVE IInv
  OBVIOUS
<1> USE DEF Init
<1>1. Places
  <2>1. level \in Levels /\ level_visible \subseteq Levels
    OBVIOUS
  <2>2. log \in Seq([level : Levels, gate : Levels]) /\ Len(log) = 0
    OBVIOUS
  <2>3. flushing \in BOOLEAN /\ stopped \in BOOLEAN /\ ~flushing
    BY Zenon
  <2>4. next \in 1..(Len(log) + 1) /\ sink \in 0..(N + 1) /\ ~(sink > 0) /\ Len(log) <= MaxRecords
    BY <2>2, MaxRecordsAssumption, NType
  <2> QED
    BY <2>1, <2>2, <2>3, <2>4, Zenon DEF Places
<1>2. Streams
  BY DEF Streams
<1>3. Failures
  BY QuotaStep DEF Failures
<1>4. Gated
  BY DEF Gated
<1>5. \A s \in Sinks : Written(s) = <<>>
  BY DEF Written
<1>6. Output
  BY <1>5 DEF Output, Sorted
<1>7. Complete
  BY DEF Complete
<1> QED
  BY <1>1, <1>2, <1>3, <1>4, <1>6, <1>7 DEF IInv

-----------------------------------------------------------------------------
(* What a step does to the output of a sink                                *)

LEMMA BufferedParts ==
  ASSUME Streams, NEW s \in Sinks, NEW c \in Seq(Chunk), Buffered(s, c)
  PROVE  /\ Streams'
         /\ Written(s)' = Written(s) \o c
         /\ \A u \in Sinks : u # s => Written(u)' = Written(u) /\ file'[u] = file[u]
         /\ \E x \in Seq(Chunk) : file'[s] = file[s] \o x
<1>1. PICK f \in Seq(Chunk), b \in Seq(Chunk) : f = file[s] /\ b = buffer[s]
  BY DEF Streams
<1>2. PICK held \in Seq(Chunk) : held = b \o c
  BY ConcatProperties
<1>3. PICK k \in 0..Len(held) :
        /\ file' = [file EXCEPT ![s] = @ \o SubSeq(held, 1, k)]
        /\ buffer' = [buffer EXCEPT ![s] = SubSeq(held, k + 1, Len(held))]
  BY <1>1, <1>2 DEF Buffered
<1>4. PICK x \in Seq(Chunk), y \in Seq(Chunk) :
        x = SubSeq(held, 1, k) /\ y = SubSeq(held, k + 1, Len(held)) /\ x \o y = held
  <2>1. /\ SubSeq(held, 1, k) \in Seq(Chunk) /\ SubSeq(held, k + 1, Len(held)) \in Seq(Chunk)
        /\ SubSeq(held, 1, k) \o SubSeq(held, k + 1, Len(held)) = held
    BY Cut, Zenon
  <2> QED
    BY <2>1, Zenon
<1>5. file' = [file EXCEPT ![s] = f \o x] /\ buffer' = [buffer EXCEPT ![s] = y]
  BY <1>1, <1>3, <1>4
<1>6. f \o x \in Seq(Chunk)
  BY ConcatProperties
<1>7. Streams'
  BY <1>5, <1>6 DEF Streams
<1>8. file'[s] = f \o x /\ buffer'[s] = y
  BY <1>5 DEF Streams
<1>9. (f \o x) \o y = (f \o b) \o c
  <2>0. ASSUME NEW p \in Seq(Chunk), NEW q \in Seq(Chunk), NEW t \in Seq(Chunk), held = q \o t
        PROVE  (p \o q) \o t = p \o held
    <3>1. PICK pq \in Seq(Chunk) : pq = p \o q /\ Joins(pq, p, q)
      BY ConcatJoins, Zenon
    <3>2. Joins(held, q, t)
      BY <2>0, ConcatJoins, Zenon
    <3>3. PICK l \in Seq(Chunk) : l = pq \o t /\ Joins(l, pq, t)
      BY ConcatJoins, Zenon
    <3>4. PICK r \in Seq(Chunk) : r = p \o held /\ Joins(r, p, held)
      BY ConcatJoins, Zenon
    <3>5. l = r
      <4>1. Joins(pq, p, q) /\ Joins(held, q, t) /\ Joins(l, pq, t) /\ Joins(r, p, held)
        BY <3>1, <3>2, <3>3, <3>4, Zenon
      <4> QED
        BY <4>1, JoinsAssociate, ZenonT(60)
    <3> QED
      BY <3>1, <3>3, <3>4, <3>5, Zenon
  <2>1. (f \o x) \o y = f \o held
    BY <1>4, <2>0, Zenon
  <2>2. (f \o b) \o c = f \o held
    BY <1>2, <2>0, Zenon
  <2> QED
    BY <2>1, <2>2, Zenon
<1>10. Written(s)' = Written(s) \o c
  BY <1>1, <1>8, <1>9, Zenon DEF Written
<1>11. \A u \in Sinks : u # s => file'[u] = file[u] /\ buffer'[u] = buffer[u]
  BY <1>5 DEF Streams
<1>12. \A u \in Sinks : u # s => Written(u)' = Written(u) /\ file'[u] = file[u]
  BY <1>11, Zenon DEF Written
<1> QED
  BY <1>1, <1>7, <1>8, <1>10, <1>12, Zenon

\* One write to the sink p in hand: its output grows by a part of the record's line.
LEMMA WriteParts ==
  ASSUME IInv, NEW p \in Sinks, p = sink,
         NEW c \in {<<>>, <<<<next, "text">>>>, Line(next)}, Buffered(p, c)
  PROVE  /\ Streams' /\ next \in 1..MaxRecords /\ next \in 1..Len(log)
         /\ \E n \in 1..Len(log) : n = next /\ Grows(Written(p), Written(p)', n)
         /\ Written(p)' = Written(p) \o c
         /\ \A u \in Sinks : u # p => Written(u)' = Written(u) /\ file'[u] = file[u]
         /\ \E x \in Seq(Chunk) : file'[p] = file[p] \o x
<1>1. next \in 1..MaxRecords /\ next \in 1..Len(log)
  BY NType, MaxRecordsAssumption, LenProperties DEF IInv, Places
<1>2. Written(p) \in Seq(Chunk)
  BY ConcatProperties DEF IInv, Streams, Written
<1>3. c \in Seq(Chunk) /\ Grows(Written(p), Written(p) \o c, next)
  BY <1>1, <1>2, ConcatGrows, Zenon
<1>4. Streams
  BY DEF IInv
<1>5. /\ Streams'
      /\ Written(p)' = Written(p) \o c
      /\ \A u \in Sinks : u # p => Written(u)' = Written(u) /\ file'[u] = file[u]
      /\ \E x \in Seq(Chunk) : file'[p] = file[p] \o x
  BY <1>3, <1>4, BufferedParts, Zenon
<1>6. Grows(Written(p), Written(p)', next)
  BY <1>3, <1>5, Zenon
<1>7. \E n \in 1..Len(log) : n = next /\ Grows(Written(p), Written(p)', n)
  BY <1>1, <1>6, Zenon
<1> QED
  BY <1>1, <1>5, <1>7, Zenon

\* A flush moves what the writer holds to the file and leaves the output as it is.
LEMMA FlushParts ==
  ASSUME IInv, NEW p \in Sinks, p = sink, FlushOk
  PROVE  /\ Streams'
         /\ \A u \in Sinks : Written(u)' = Written(u)
         /\ \A u \in Sinks : u # p => file'[u] = file[u]
         /\ file'[p] = Written(p)
<1>1. Streams
  BY DEF IInv
<1>2. PICK f \in Seq(Chunk), b \in Seq(Chunk) : f = file[p] /\ b = buffer[p]
  BY <1>1 DEF Streams
<1>3. file' = [file EXCEPT ![p] = f \o b] /\ buffer' = [buffer EXCEPT ![p] = <<>>]
  BY <1>2 DEF FlushOk
<1>4. PICK w \in Seq(Chunk) : w = f \o b
  BY ConcatProperties
<1>5. file' = [file EXCEPT ![p] = w] /\ <<>> \in Seq(Chunk)
  BY <1>3, <1>4
<1>6. Streams'
  BY <1>1, <1>3, <1>5 DEF Streams
<1>7. file'[p] = w /\ buffer'[p] = <<>>
  BY <1>1, <1>3, <1>5 DEF Streams
<1>8. w \o <<>> = w
  BY ConcatEmptySeq
<1>9. Written(p) = w
  BY <1>2, <1>4, Zenon DEF Written
<1>10. Written(p)' = w
  BY <1>7, <1>8, Zenon DEF Written
<1>11. \A u \in Sinks : u # p => file'[u] = file[u] /\ buffer'[u] = buffer[u]
  BY <1>1, <1>3, <1>5 DEF Streams
<1>12. \A u \in Sinks : u # p => Written(u)' = Written(u)
  BY <1>11, Zenon DEF Written
<1> QED
  BY <1>1, <1>6, <1>7, <1>9, <1>10, <1>11, <1>12, Zenon

-----------------------------------------------------------------------------
(* Every step keeps the invariant                                          *)

\* The log only grows at its end, and by records that passed the macro's check.
LEMMA LogStep ==
  ASSUME IInv, [Next]_vars
  PROVE  /\ log' \in Seq([level : Levels, gate : Levels]) /\ Len(log') <= MaxRecords
         /\ Len(log') \in Len(log)..(Len(log) + 1)
         /\ \A r \in 1..Len(log) : log'[r] = log[r]
         /\ \A r \in 1..Len(log') : r > Len(log) => log'[r].level >= log'[r].gate
<1>0. log \in Seq([level : Levels, gate : Levels]) /\ Len(log) <= MaxRecords /\ Len(log) \in Nat
  BY LenProperties DEF IInv, Places
<1>1. CASE log' = log
  BY <1>0, <1>1
<1>2. ASSUME NEW l \in Levels, LogCall(l), log' # log
      PROVE  /\ log' \in Seq([level : Levels, gate : Levels]) /\ Len(log') <= MaxRecords
             /\ Len(log') \in Len(log)..(Len(log) + 1)
             /\ \A r \in 1..Len(log) : log'[r] = log[r]
             /\ \A r \in 1..Len(log') : r > Len(log) => log'[r].level >= log'[r].gate
  <2>1. PICK gate \in Levels : l >= gate /\ log' = Append(log, [level |-> l, gate |-> gate])
    BY <1>2 DEF LogCall, Emits, IInv, Places
  <2>2. PICK e \in [level : Levels, gate : Levels] : e = [level |-> l, gate |-> gate] /\ e.level >= e.gate
    BY <2>1
  <2>3. /\ Append(log, e) \in Seq([level : Levels, gate : Levels]) /\ Len(Append(log, e)) = Len(log) + 1
        /\ \A r \in 1..Len(log) : Append(log, e)[r] = log[r]
        /\ Append(log, e)[Len(log) + 1] = e
    BY <1>0, AppendProperties
  <2>4. PICK g \in Seq([level : Levels, gate : Levels]) :
          /\ g = log' /\ Len(g) = Len(log) + 1 /\ \A r \in 1..Len(log) : g[r] = log[r]
          /\ g[Len(log) + 1] = e
    BY <2>1, <2>2, <2>3, Zenon
  <2>5. Len(log) + 1 <= MaxRecords
    BY <1>0, <1>2, MaxRecordsAssumption DEF LogCall
  <2> QED
    BY <1>0, <2>2, <2>4, <2>5
<1> QED
  BY <1>1, <1>2 DEF Next, Fanout, SetLevel, LevelSettles, ProcessRecord, SkipSink, WriteOk, WriteErr,
     FlushOk, FlushErr, SinkPanic, RecordDone, Stop, vars

LEMMA StepPlaces == IInv /\ [Next]_vars => Places'
<1> SUFFICES ASSUME IInv, [Next]_vars PROVE Places'
  OBVIOUS
<1>0. /\ Places /\ N \in Nat /\ Sinks = 1..N /\ Len(log) \in Nat
      /\ log' \in Seq([level : Levels, gate : Levels]) /\ Len(log') <= MaxRecords
      /\ Len(log') \in Len(log)..(Len(log) + 1)
  BY LogStep, NType, LenProperties DEF IInv, Places
<1>1. level' \in Levels /\ level_visible' \subseteq Levels
  BY DEF IInv, Places, Next, Fanout, SetLevel, LogCall, LevelSettles, ProcessRecord, SkipSink, WriteOk, WriteErr,
     FlushOk, FlushErr, SinkPanic, RecordDone, Stop, vars
<1>2. flushing' \in BOOLEAN /\ stopped' \in BOOLEAN
  BY <1>0, Zenon DEF Places, Next, Fanout, SetLevel, LogCall, LevelSettles, ProcessRecord, SkipSink, WriteOk,
     WriteErr, FlushOk, FlushErr, SinkPanic, RecordDone, Stop, NextSink, vars
<1>3. /\ next' \in 1..(Len(log') + 1) /\ sink' \in 0..(N + 1)
      /\ sink' > 0 => next' <= Len(log')
      /\ flushing' => sink' \in 1..N
  <2>1. CASE next' = next /\ sink' = sink /\ flushing' = flushing
    BY <1>0, <2>1 DEF Places
  <2>2. CASE ProcessRecord
    BY <1>0, <2>2 DEF Places, ProcessRecord, InHand
  <2>3. CASE AtSink /\ NextSink /\ next' = next /\ log' = log
    BY <1>0, <2>3 DEF Places, AtSink, NextSink
  <2>4. CASE WriteOk
    BY <1>0, <2>4 DEF Places, WriteOk, AtSink
  <2>5. CASE SinkPanic
    BY <1>0, <2>5 DEF Places, SinkPanic, AtSink, Handled
  <2>6. CASE RecordDone
    BY <1>0, <2>6 DEF Places, RecordDone, AtSink, InHand, Handled
  <2> QED
    BY <2>1, <2>2, <2>3, <2>4, <2>5, <2>6 DEF Next, Fanout, SetLevel, LogCall, LevelSettles, SkipSink, WriteErr,
       FlushOk, FlushErr, Stop, vars
<1> QED
  BY <1>0, <1>1, <1>2, <1>3, Zenon DEF Places

LEMMA StepGated == IInv /\ [Next]_vars => Gated'
<1> SUFFICES ASSUME IInv, [Next]_vars PROVE Gated'
  OBVIOUS
<1>1. Len(log) \in Nat /\ Gated
  BY LenProperties DEF IInv, Places
<1>2. ASSUME NEW r \in 1..Len(log') PROVE log'[r].level >= log'[r].gate
  <2>1. r \in 1..Len(log) \/ r > Len(log)
    BY <1>1, LogStep
  <2> QED
    BY <1>1, <2>1, LogStep DEF Gated
<1> QED
  BY <1>2 DEF Gated

LEMMA StepFailures == IInv /\ [Next]_vars => Failures'
<1> SUFFICES ASSUME IInv, [Next]_vars PROVE Failures'
  OBVIOUS
<1>0. /\ N \in Nat /\ Sinks = 1..N /\ next - 1 \in Nat /\ sink \in 0..(N + 1) /\ next \in Nat
      /\ write_errors \in Nat /\ flush_errors \in Nat /\ panic_count \in Nat
      /\ write_errors + flush_errors + panic_count <= Quota(next - 1) + (IF sink = 0 THEN 0 ELSE sink - 1)
  BY NType, LenProperties DEF IInv, Places, Failures
<1>1. PICK q \in Nat : q = Quota(next - 1)
  BY <1>0, QuotaStep, Zenon
<1>2. Quota((next + 1) - 1) = q + N
  <2>1. Quota((next - 1) + 1) = Quota(next - 1) + N
    BY <1>0, QuotaStep, Zenon
  <2>2. (next - 1) + 1 = (next + 1) - 1
    BY <1>0
  <2> QED
    BY <1>1, <2>1, <2>2
<1>3. CASE counters' = counters /\ next' = next /\ sink' = sink
  BY <1>0, <1>3 DEF Failures, counters
<1>4. CASE ProcessRecord
  BY <1>0, <1>4 DEF Failures, counters, ProcessRecord, InHand
<1>5. CASE AtSink /\ NextSink /\ counters' = counters /\ next' = next
  BY <1>0, <1>1, <1>5 DEF Failures, counters, AtSink, NextSink
<1>6. CASE WriteErr
  BY <1>0, <1>1, <1>6 DEF Failures, AtSink, NextSink, WriteErr
<1>7. CASE FlushErr
  BY <1>0, <1>1, <1>7 DEF Failures, AtSink, NextSink, FlushErr
<1>8. CASE SinkPanic
  BY <1>0, <1>1, <1>2, <1>8 DEF Failures, AtSink, SinkPanic, Handled
<1>9. CASE RecordDone
  BY <1>0, <1>1, <1>2, <1>9 DEF Failures, InHand, RecordDone, counters, Handled
<1> QED
  BY <1>3, <1>4, <1>5, <1>6, <1>7, <1>8, <1>9 DEF Next, Fanout, SetLevel, LogCall, LevelSettles, SkipSink,
     WriteOk, FlushOk, Stop, vars, counters

\* A record that has passed a sink stays so, and the record in hand passes the
\* sink it is written to.
LEMMA StepPassed ==
  ASSUME IInv, [Next]_vars, NEW s \in Sinks
  PROVE  /\ \A r \in Nat : Passed(r, s) => Passed(r, s)'
         /\ next' \in {next, next + 1}
<1>0. N \in Nat /\ Sinks = 1..N /\ next \in Nat /\ sink \in 0..(N + 1) /\ (flushing => sink \in 1..N)
  BY NType, LenProperties DEF IInv, Places
<1>1. CASE next' = next /\ sink' = sink /\ flushing' = flushing
  BY <1>0, <1>1 DEF Passed
<1>2. CASE ProcessRecord
  BY <1>0, <1>2 DEF Passed, ProcessRecord, InHand
<1>3. CASE AtSink /\ NextSink /\ next' = next
  BY <1>0, <1>3 DEF Passed, AtSink, NextSink
<1>4. CASE WriteOk
  BY <1>0, <1>4 DEF Passed, WriteOk
<1>5. CASE SinkPanic \/ RecordDone
  BY <1>0, <1>5 DEF Passed, SinkPanic, RecordDone, Handled
<1> QED
  BY <1>1, <1>2, <1>3, <1>4, <1>5 DEF Next, Fanout, SetLevel, LogCall, LevelSettles, SkipSink,
     WriteErr, FlushErr, FlushOk, Stop, vars

\* What one step can do to the output of sink s.
Wrote(s, n) ==
  /\ n = next /\ s = sink /\ ~flushing /\ log[n].level >= SinkLevels[s]
  /\ Passed(n, s)' /\ Grows(Written(s), Written(s)', n)

LEMMA StepWritten ==
  ASSUME IInv, [Next]_vars
  PROVE  /\ Streams'
         /\ \A s \in Sinks : Written(s)' = Written(s) \/ \E n \in 1..Len(log) : Wrote(s, n)
         /\ \A s \in Sinks : file'[s] = file[s] \/ \E x \in Seq(Chunk) : file'[s] = file[s] \o x
<1> DEFINE Goal == /\ Streams'
                   /\ \A s \in Sinks : Written(s)' = Written(s) \/ \E n \in 1..Len(log) : Wrote(s, n)
                   /\ \A s \in Sinks : file'[s] = file[s] \/ \E x \in Seq(Chunk) : file'[s] = file[s] \o x
<1> SUFFICES Goal
  OBVIOUS
<1>0. Streams /\ N \in Nat /\ Sinks = 1..N /\ next \in Nat
  BY NType, LenProperties DEF IInv, Places
<1>1. CASE UNCHANGED <<buffer, file>>
  BY <1>0, <1>1 DEF Streams, Written
<1>2. ASSUME NEW p \in Sinks, p = sink, ~flushing, Accepts(p),
             NEW c \in {<<>>, <<<<next, "text">>>>, Line(next)}, Buffered(p, c),
             \/ next' = next /\ (sink' = sink + 1 \/ (sink' = sink /\ flushing'))
             \/ next' = next + 1
      PROVE  Goal
  <2>1. /\ Streams'
        /\ \A u \in Sinks : u # p => Written(u)' = Written(u) /\ file'[u] = file[u]
        /\ \E x \in Seq(Chunk) : file'[p] = file[p] \o x
    BY <1>2, WriteParts, Zenon
  <2>2. PICK n \in 1..Len(log) : n = next /\ Grows(Written(p), Written(p)', n)
    BY <1>2, WriteParts, Zenon
  <2>3. Passed(n, p)'
    BY <1>0, <1>2, <2>2 DEF Passed
  <2>4. log[n].level >= SinkLevels[p]
    BY <1>2, <2>2 DEF Accepts, Record
  <2>5. Wrote(p, n)
    BY <1>2, <2>2, <2>3, <2>4, Zenon DEF Wrote
  <2> QED
    BY <2>1, <2>5, Zenon
<1>3. ASSUME NEW p \in Sinks, p = sink, Buffered(p, <<>>)
      PROVE  Goal
  <2>1. /\ Streams' /\ Written(p)' = Written(p) \o <<>>
        /\ \A u \in Sinks : u # p => Written(u)' = Written(u) /\ file'[u] = file[u]
        /\ \E x \in Seq(Chunk) : file'[p] = file[p] \o x
    BY <1>3, WriteParts, Zenon
  <2>2. Written(p) \in Seq(Chunk)
    BY <1>0, ConcatProperties DEF Written, Streams
  <2>3. Written(p) \o <<>> = Written(p)
    BY <2>2, ConcatEmptySeq, Zenon
  <2> QED
    BY <2>1, <2>3, Zenon
<1>4. CASE WriteOk
  <2>1. PICK p \in Sinks : p = sink
    BY <1>4 DEF WriteOk, AtSink
  <2>2. ~flushing /\ Accepts(p) /\ Buffered(p, Line(next)) /\ next' = next /\ sink' = sink /\ flushing'
    BY <1>4, <2>1 DEF WriteOk
  <2> QED
    BY <1>2, <2>1, <2>2, Zenon
<1>5. ASSUME AtSink, ~flushing, Accepts(sink), NEW k \in {0, 1}, Buffered(sink, SubSeq(Line(next), 1, k)),
             (next' = next /\ sink' = sink + 1) \/ next' = next + 1
      PROVE  Goal
  <2>1. PICK p \in Sinks : p = sink
    BY <1>5 DEF AtSink
  <2>2. next \in 1..MaxRecords
    BY <1>0, <2>1, MaxRecordsAssumption, LenProperties DEF IInv, Places
  <2>3. SubSeq(Line(next), 1, k) \in {<<>>, <<<<next, "text">>>>}
    BY <2>2, LineParts, Zenon
  <2>4. PICK c \in {<<>>, <<<<next, "text">>>>, Line(next)} : Buffered(p, c)
    BY <1>5, <2>1, <2>3, Zenon
  <2> QED
    BY <1>2, <1>5, <2>1, <2>4, Zenon
<1>6. CASE WriteErr
  BY <1>5, <1>6, Zenon DEF WriteErr, Refused, NextSink
<1>7. CASE FlushOk
  <2>1. PICK p \in Sinks : p = sink
    BY <1>7 DEF FlushOk, AtSink
  <2>2. /\ file'[p] = file[p] \o buffer[p] /\ buffer[p] \in Seq(Chunk)
    BY <1>0, <1>7, <2>1 DEF FlushOk, Streams
  <2>3. /\ Streams' /\ \A u \in Sinks : Written(u)' = Written(u)
        /\ \A u \in Sinks : u # p => file'[u] = file[u]
    BY <1>7, <2>1, FlushParts, Zenon
  <2> QED
    BY <2>2, <2>3, Zenon
<1>8. CASE FlushErr
  <2>1. PICK p \in Sinks : p = sink
    BY <1>8 DEF FlushErr, AtSink
  <2> QED
    BY <1>3, <1>8, <2>1, Zenon DEF FlushErr
<1>9. CASE SinkPanic
  <2>1. PICK p \in Sinks : p = sink
    BY <1>9 DEF SinkPanic, AtSink
  <2>2. CASE flushing
    BY <1>3, <1>9, <2>1, <2>2, Zenon DEF SinkPanic
  <2>3. CASE ~flushing
    BY <1>5, <1>9, <2>1, <2>3, Zenon DEF SinkPanic, Refused, Handled
  <2> QED
    BY <2>2, <2>3
<1> QED
  <2> HIDE DEF Goal
  <2> QED
    BY <1>1, <1>4, <1>6, <1>7, <1>8, <1>9 DEF Next, Fanout, SetLevel, LogCall, LevelSettles, SkipSink,
       ProcessRecord, RecordDone, Stop, vars

LEMMA WrittenType == ASSUME Streams, NEW s \in Sinks PROVE Written(s) \in Seq(Chunk)
BY ConcatProperties DEF Written, Streams

LEMMA ChunkParts == \A w \in Seq(Chunk) : \A i \in 1..Len(w) : w[i][1] \in 1..MaxRecords /\ w[i][1] \in Nat
<1> SUFFICES ASSUME NEW w \in Seq(Chunk), NEW i \in 1..Len(w) PROVE w[i][1] \in 1..MaxRecords /\ w[i][1] \in Nat
  OBVIOUS
<1>1. w[i] \in Chunk
  BY ElementOfSeq
<1> QED
  BY <1>1, MaxRecordsAssumption DEF Chunk

\* Records that have passed a sink are in the log.
LEMMA PassedInLog ==
  ASSUME IInv, NEW s \in Sinks, NEW r \in 1..MaxRecords, Passed(r, s)
  PROVE  r \in 1..Len(log)
BY NType, MaxRecordsAssumption, LenProperties DEF IInv, Places, Passed

LEMMA StepOutput == IInv /\ [Next]_vars => Output'
<1> SUFFICES ASSUME IInv, [Next]_vars, NEW s \in Sinks
             PROVE  \E v \in Seq(Chunk) :
                      /\ v = Written(s)'
                      /\ \A i \in 1..Len(v) : Passed(v[i][1], s)' /\ log'[v[i][1]].level >= SinkLevels[s]
                      /\ Sorted(v)
  BY Zenon DEF Output, Passed
<1>1. PICK w \in Seq(Chunk) : w = Written(s)
  BY WrittenType, Zenon DEF IInv
<1>2. PICK v \in Seq(Chunk) : v = Written(s)'
  <2>1. Streams'
    BY StepWritten
  <2>2. file'[s] \o buffer'[s] \in Seq(Chunk)
    BY <2>1, ConcatProperties DEF Streams
  <2> QED
    BY <2>2, Zenon DEF Written
<1>3. /\ \A i \in 1..Len(w) : Passed(w[i][1], s) /\ log[w[i][1]].level >= SinkLevels[s]
      /\ Sorted(w)
  BY <1>1 DEF IInv, Output
<1>4. ASSUME NEW i \in 1..Len(w) PROVE Passed(w[i][1], s)' /\ log'[w[i][1]].level >= SinkLevels[s]
  <2>1. PICK r \in 1..MaxRecords : r = w[i][1] /\ r \in Nat
    BY ChunkParts, Zenon
  <2>2. Passed(r, s) /\ log[r].level >= SinkLevels[s]
    BY <1>3, <2>1
  <2>3. r \in 1..Len(log)
    BY <2>2, PassedInLog, Zenon
  <2>4. log'[r] = log[r]
    BY <2>3, LogStep, Zenon
  <2>5. Passed(r, s)'
    BY <2>1, <2>2, StepPassed, Zenon
  <2> QED
    BY <2>1, <2>2, <2>4, <2>5
<1>5. /\ \A i \in 1..Len(v) : Passed(v[i][1], s)' /\ log'[v[i][1]].level >= SinkLevels[s]
      /\ Sorted(v)
  <2>1. CASE v = w
    BY <1>3, <1>4, <2>1
  <2>2. ASSUME NEW n \in 1..Len(log), Wrote(s, n)
        PROVE  /\ \A i \in 1..Len(v) : Passed(v[i][1], s)' /\ log'[v[i][1]].level >= SinkLevels[s]
               /\ Sorted(v)
    <3>1. n = next /\ s = sink /\ ~flushing /\ log[n].level >= SinkLevels[s] /\ Passed(n, s)' /\ Grows(w, v, n)
      BY <1>1, <1>2, <2>2 DEF Wrote
    <3>2. n \in 1..MaxRecords /\ log'[n] = log[n]
      BY LogStep, LenProperties, MaxRecordsAssumption DEF IInv, Places
    <3>3. ASSUME NEW i \in 1..Len(w) PROVE w[i][1] < n
      <4>1. PICK r \in 1..MaxRecords : r = w[i][1] /\ r \in Nat
        BY ChunkParts, Zenon
      <4>2. Passed(r, s)
        BY <1>3, <4>1
      <4> QED
        BY <3>1, <4>1, <4>2, NType DEF Passed
    <3>4. Sorted(v)
      BY <1>3, <3>1, <3>2, <3>3, GrowsSorted
    <3>5. ASSUME NEW i \in 1..Len(v) PROVE Passed(v[i][1], s)' /\ log'[v[i][1]].level >= SinkLevels[s]
      <4>1. Len(w) \in Nat /\ Len(v) \in Len(w)..(Len(w) + 2)
        BY <3>1, LenProperties DEF Grows
      <4>2. \/ i \in 1..Len(w) \/ (i = Len(w) + 1 /\ Len(v) > Len(w))
            \/ (i = Len(w) + 2 /\ Len(v) = Len(w) + 2)
        BY <4>1, Positions, Zenon
      <4>3. CASE i \in 1..Len(w)
        <5>1. v[i] = w[i]
          BY <3>1, <4>3 DEF Grows
        <5> QED
          BY <1>4, <4>3, <5>1
      <4>4. CASE i = Len(w) + 1 /\ Len(v) > Len(w)
        <5>1. v[i][1] = n
          BY <3>1, <4>4 DEF Grows
        <5> QED
          BY <3>1, <3>2, <5>1
      <4>5. CASE i = Len(w) + 2 /\ Len(v) = Len(w) + 2
        <5>1. v[i][1] = n
          BY <3>1, <4>5 DEF Grows
        <5> QED
          BY <3>1, <3>2, <5>1
      <4> QED
        BY <4>2, <4>3, <4>4, <4>5
    <3> QED
      BY <3>4, <3>5
  <2>3. Written(s)' = Written(s) \/ \E n \in 1..Len(log) : Wrote(s, n)
    BY StepWritten
  <2> QED
    BY <1>1, <1>2, <2>1, <2>2, <2>3
<1> QED
  BY <1>2, <1>5, Zenon

LEMMA HasLineGrows ==
  \A f, x, z \in Seq(Chunk) : \A r \in Nat : z = f \o x /\ HasLine(f, r) => HasLine(z, r)
<1> SUFFICES ASSUME NEW f \in Seq(Chunk), NEW x \in Seq(Chunk), NEW z \in Seq(Chunk), NEW r \in Nat,
                    z = f \o x, HasLine(f, r)
             PROVE  HasLine(z, r)
  BY Zenon
<1>1. PICK a \in Nat, b \in Nat : a = Len(f) /\ b = Len(x)
  BY LenProperties
<1>2. Joins(z, f, x)
  BY ConcatJoins, Zenon
<1>3. Len(z) = a + b /\ \A i \in 1..a : z[i] = f[i]
  <2>1. Len(z) = a + b /\ \A i \in 1..(a + b) : z[i] = IF i <= a THEN f[i] ELSE x[i - a]
    BY <1>1, <1>2 DEF Joins
  <2> QED
    BY <2>1
<1>4. PICK i \in 1..(a - 1) : <<f[i], f[i + 1]>> = Line(r)
  BY <1>1 DEF HasLine
<1>5. i \in 1..((a + b) - 1) /\ i \in 1..a /\ i + 1 \in 1..a
  OBVIOUS
<1>6. z[i] = f[i] /\ z[i + 1] = f[i + 1]
  BY <1>3, <1>5
<1> QED
  BY <1>3, <1>4, <1>5, <1>6 DEF HasLine

\* A line once in the file of a sink stays there.
LEMMA FileKeepsLine ==
  ASSUME IInv, [Next]_vars, NEW s \in Sinks, NEW r \in Nat, HasLine(file[s], r)
  PROVE  HasLine(file'[s], r)
<1>1. Streams /\ Streams' /\ (file'[s] = file[s] \/ \E x \in Seq(Chunk) : file'[s] = file[s] \o x)
  BY StepWritten DEF IInv
<1>2. file[s] \in Seq(Chunk) /\ file'[s] \in Seq(Chunk)
  BY <1>1 DEF Streams
<1>3. CASE file'[s] = file[s]
  BY <1>3
<1>4. ASSUME NEW x \in Seq(Chunk), file'[s] = file[s] \o x PROVE HasLine(file'[s], r)
  BY <1>2, <1>4, HasLineGrows, Zenon
<1> QED
  BY <1>1, <1>3, <1>4

\* Writing a whole line puts it behind the writer.
LEMMA LineWritten ==
  \A w, v \in Seq(Chunk) : \A r \in Nat : Grows(w, v, r) /\ Len(v) = Len(w) + 2 => HasLine(v, r)
<1> SUFFICES ASSUME NEW w \in Seq(Chunk), NEW v \in Seq(Chunk), NEW r \in Nat, Grows(w, v, r),
                    Len(v) = Len(w) + 2
             PROVE  HasLine(v, r)
  BY Zenon
<1>1. PICK a \in Nat : a = Len(w)
  BY LenProperties
<1>2. v[a + 1] = <<r, "text">> /\ v[a + 2] = <<r, "newline">> /\ Len(v) = a + 2
  BY <1>1 DEF Grows
<1>3. a + 1 \in 1..(Len(v) - 1) /\ (a + 1) + 1 = a + 2
  BY <1>2
<1>4. <<v[a + 1], v[(a + 1) + 1]>> = Line(r)
  BY <1>2, <1>3 DEF Line
<1> QED
  BY <1>3, <1>4, Zenon DEF HasLine

\* Record r is over at sink s.
Over(r, s) == r < next \/ (r = next /\ s < sink)

LEMMA StepComplete == IInv /\ [Next]_vars => Complete'
<1> SUFFICES ASSUME IInv, [Next]_vars, ~Failed' PROVE Complete'
  BY DEF Complete
<1> DEFINE Lines == \A s \in Sinks : \A r \in 1..Len(log) :
                      Over(r, s) /\ log[r].level >= SinkLevels[s] => HasLine(file[s], r)
<1>0. /\ N \in Nat /\ Sinks = 1..N /\ next \in 1..(Len(log) + 1) /\ sink \in 0..(N + 1) /\ Len(log) \in Nat
      /\ (sink > 0 => next <= Len(log)) /\ (flushing => sink \in 1..N)
      /\ write_errors \in Nat /\ flush_errors \in Nat /\ panic_count \in Nat
  BY NType, LenProperties DEF IInv, Places, Failures
<1>1. ~WriteErr /\ ~FlushErr /\ ~SinkPanic /\ ~Failed
  <2>1. ~WriteErr
    BY <1>0 DEF WriteErr, Failed
  <2>2. ~FlushErr
    BY <1>0 DEF FlushErr, Failed
  <2>3. ~SinkPanic
    BY <1>0 DEF SinkPanic, Failed
  <2>4. UNCHANGED <<write_errors, flush_errors, panic_count>>
    BY <2>1, <2>2, <2>3 DEF Next, Fanout, SetLevel, LogCall, LevelSettles, SkipSink, ProcessRecord, WriteOk,
       FlushOk, RecordDone, Stop, vars, counters
  <2> QED
    BY <2>1, <2>2, <2>3, <2>4 DEF Failed
<1>2. Lines /\ (flushing => HasLine(Written(sink), next))
  BY <1>1 DEF IInv, Complete, Over
<1>3. ASSUME NEW s \in Sinks, NEW r \in 1..Len(log'), Over(r, s)', log'[r].level >= SinkLevels[s]
      PROVE  HasLine(file'[s], r)
  <2>0. r \in Nat /\ Len(log') \in Len(log)..(Len(log) + 1)
    BY <1>0, LogStep
  <2>1. CASE Over(r, s)
    <3>1. r \in 1..Len(log)
      BY <1>0, <2>0, <2>1 DEF Over
    <3>2. log'[r] = log[r]
      BY <3>1, LogStep, Zenon
    <3>3. HasLine(file[s], r)
      BY <1>2, <1>3, <2>1, <3>1, <3>2
    <3> QED
      BY <2>0, <3>3, FileKeepsLine, Zenon
  <2>2. CASE ~Over(r, s)
    <3>1. (SkipSink \/ FlushOk) /\ r = next /\ s = sink
      <4>1. CASE next' = next /\ sink' = sink
        BY <1>3, <2>2, <4>1 DEF Over
      <4>2. CASE ProcessRecord
        BY <1>0, <1>3, <2>2, <4>2 DEF Over, ProcessRecord, InHand
      <4>3. CASE SkipSink \/ FlushOk
        <5>1. next' = next /\ sink' = sink + 1
          BY <4>3 DEF SkipSink, FlushOk, NextSink
        <5>2. r = next /\ s = sink
          BY <1>0, <1>3, <2>0, <2>2, <5>1 DEF Over
        <5> QED
          BY <4>3, <5>2
      <4>4. CASE RecordDone
        BY <1>0, <1>3, <2>0, <2>2, <4>4 DEF Over, RecordDone, InHand, AtSink, Handled
      <4> QED
        BY <1>1, <4>1, <4>2, <4>3, <4>4 DEF Next, Fanout, SetLevel, LogCall, LevelSettles, WriteOk, Stop, vars
    <3>2. CASE SkipSink
      BY <1>3, <3>1, <3>2 DEF SkipSink, Accepts, Record
    <3>3. CASE FlushOk
      <4>1. file'[s] = Written(s)
        BY <3>1, <3>3, FlushParts, Zenon
      <4>2. flushing
        BY <3>3 DEF FlushOk
      <4> QED
        BY <1>2, <3>1, <4>1, <4>2
    <3> QED
      BY <3>1, <3>2, <3>3
  <2> QED
    BY <2>1, <2>2
<1>4. ASSUME flushing' PROVE \E p \in Sinks, n \in Nat : p = sink' /\ n = next' /\ HasLine(Written(p)', n)
  <2>1. CASE WriteOk
    <3>1. PICK p \in Sinks : p = sink /\ p = sink'
      BY <2>1 DEF WriteOk, AtSink
    <3>2. next \in 1..MaxRecords /\ Line(next) \in Seq(Chunk) /\ Len(Line(next)) = 2
      <4>1. next \in 1..MaxRecords
        BY <1>0, <3>1, MaxRecordsAssumption DEF IInv, Places
      <4> QED
        BY <4>1, LineParts, Zenon
    <3>3. Buffered(p, Line(next))
      BY <2>1, <3>1 DEF WriteOk
    <3>4. PICK n \in 1..Len(log) : n = next /\ Grows(Written(p), Written(p)', n)
      BY <3>1, <3>3, WriteParts, Zenon
    <3>5. Written(p)' = Written(p) \o Line(next) /\ Streams'
      BY <3>1, <3>3, WriteParts, Zenon
    <3>6. PICK w \in Seq(Chunk) : w = Written(p)
      BY WrittenType, Zenon DEF IInv
    <3>7. PICK v \in Seq(Chunk) : v = Written(p)' /\ Joins(v, w, Line(next))
      BY <3>2, <3>5, <3>6, ConcatJoins, Zenon
    <3>8. Len(v) = Len(w) + 2
      BY <3>2, <3>7 DEF Joins
    <3>9. HasLine(v, n)
      BY <1>0, <3>4, <3>6, <3>7, <3>8, LineWritten
    <3>10. n = next' /\ n \in Nat
      BY <1>0, <2>1, <3>4 DEF WriteOk
    <3> QED
      BY <3>1, <3>7, <3>9, <3>10, Zenon
  <2>2. CASE flushing /\ next' = next /\ sink' = sink /\ UNCHANGED <<buffer, file>>
    <3>1. PICK p \in Sinks, n \in Nat : p = sink /\ n = next /\ p = sink' /\ n = next'
      BY <1>0, <2>2
    <3>2. HasLine(Written(p), n)
      BY <1>2, <2>2, <3>1
    <3>3. Written(p)' = Written(p)
      BY <2>2 DEF Written
    <3> QED
      BY <3>1, <3>2, <3>3, Zenon
  <2>3. ~ProcessRecord
    <3> SUFFICES ASSUME ProcessRecord PROVE FALSE
      OBVIOUS
    <3>1. flushing /\ ~(sink > 0)
      BY <1>4, Zenon DEF ProcessRecord, InHand
    <3> QED
      BY <1>0, <3>1
  <2>4. ~RecordDone
    BY <1>0, <1>4 DEF RecordDone, AtSink
  <2>5. ~SkipSink /\ ~FlushOk
    BY <1>4 DEF SkipSink, FlushOk, NextSink
  <2>6. \/ WriteOk
        \/ flushing /\ next' = next /\ sink' = sink /\ UNCHANGED <<buffer, file>>
    BY <1>1, <1>4, <2>3, <2>4, <2>5 DEF Next, Fanout, SetLevel, LogCall, LevelSettles, Stop, vars
  <2> QED
    BY <2>1, <2>2, <2>6
<1>5. flushing' => HasLine(Written(sink), next)'
  BY <1>4, Zenon DEF HasLine, Written
<1> QED
  BY <1>3, <1>5, Zenon DEF Complete, Over

-----------------------------------------------------------------------------
(* Theorems                                                                *)

LEMMA Invariance == Spec => []IInv
<1>1. IInv /\ [Next]_vars => IInv'
  <2> SUFFICES ASSUME IInv, [Next]_vars PROVE IInv'
    OBVIOUS
  <2>1. Streams'
    BY StepWritten
  <2> QED
    BY <2>1, StepPlaces, StepFailures, StepGated, StepOutput, StepComplete DEF IInv
<1> QED
  BY <1>1, InitIInv, PTL DEF Spec

\* Every variable keeps its type; no counter of failures exceeds one per record
\* and sink.
THEOREM TypeCorrect == Spec => []TypeOK
BY Invariance, IInvTypeOK, PTL

\* Whatever the levels, the number of sinks and the interleaving of set_level with
\* the macros' relaxed loads, nothing reaches a writer that the macro's check or
\* the sink's own level (fanout_to_sinks) excludes.
THEOREM EffectiveLevels == Spec => []EffectiveLevel
<1>1. IInv => EffectiveLevel
  <2> SUFFICES ASSUME IInv, NEW s \in Sinks, NEW i \in DOMAIN Written(s)
               PROVE  LET r == log[Written(s)[i][1]] IN r.level >= r.gate /\ r.level >= SinkLevels[s]
    BY DEF EffectiveLevel
  <2>1. PICK w \in Seq(Chunk) : w = Written(s)
    BY WrittenType, Zenon DEF IInv
  <2>2. i \in 1..Len(w)
    BY <2>1, LenProperties
  <2>3. PICK r \in 1..MaxRecords : r = w[i][1]
    BY <2>2, ChunkParts, Zenon
  <2>4. Passed(r, s) /\ log[r].level >= SinkLevels[s]
    BY <2>1, <2>2, <2>3 DEF IInv, Output
  <2>5. r \in 1..Len(log)
    BY <2>4, PassedInLog, Zenon
  <2>6. log[r].level >= log[r].gate
    BY <2>5 DEF IInv, Gated
  <2> QED
    BY <2>1, <2>3, <2>4, <2>6
<1> QED
  BY <1>1, Invariance, PTL

\* A sink's output is in record order, without repeats and without a newline that
\* lost its text, whatever writes and flushes failed or panicked in between.
THEOREM AlwaysOrderedOutput == Spec => []OrderedOutput
<1>1. IInv => OrderedOutput
  BY DEF IInv, Output, Sorted, OrderedOutput
<1> QED
  BY <1>1, Invariance, PTL

\* Loss always shows in a counter: with all three at zero, every record the worker
\* has handled is out of the BufWriter of every sink that accepts it.
THEOREM LossIsCounted == Spec => []NoSilentLoss
<1>1. IInv => NoSilentLoss
  <2> SUFFICES ASSUME IInv, write_errors = 0 /\ flush_errors = 0 /\ panic_count = 0,
                      NEW s \in Sinks, NEW r \in 1..(next - 1), log[r].level >= SinkLevels[s]
               PROVE  HasLine(file[s], r)
    BY DEF NoSilentLoss
  <2>1. r \in 1..Len(log) /\ r < next
    BY LenProperties DEF IInv, Places
  <2>2. ~Failed
    BY DEF Failed
  <2> QED
    BY <2>1, <2>2 DEF IInv, Complete
<1> QED
  BY <1>1, Invariance, PTL

=============================================================================
