------------------------ MODULE OutputTailerProofs ------------------------
(***************************************************************************)
(* Proofs about OutputTailer, for any number of retries, lines, files and  *)
(* starts of the application.                                              *)
(***************************************************************************)
EXTENDS OutputTailer, FiniteSetTheorems, TLAPS

Even(n) == n % 2 = 0

\* A line is begun only in a file, and only where there is room for it.
OutputShape ==
  /\ file = 0 => lines = <<>>
  /\ half => file > 0 /\ Len(lines) < MaxLines

Tailers ==
  [on : BOOLEAN, timer : BOOLEAN, stopped : BOOLEAN,
   identity : 0..MaxFiles, read : Offsets, committed : Offsets,
   counted : Offsets, totals : 0..MaxLines, attempts : 0..MaxRetries,
   exhausted : BOOLEAN, backoff : BOOLEAN, throttled : BOOLEAN]

\* The offsets of a tailer are ordered and end lines, and its totals are what
\* lies between; it does not know a file that is to come.
Fits(t) ==
  /\ t \in Tailers
  /\ t.counted <= t.committed /\ t.committed <= t.read
  /\ Even(t.counted) /\ Even(t.committed)
  /\ 2 * t.totals = t.committed - t.counted
  /\ t.identity <= file
  /\ t.timer => t.on

OffsetsAgree == Fits(tailer) /\ Even(stored.offset) /\ stored.file <= file

\* What a poll captured before its POST still fits the tailer.
PostFits(w) ==
  post[w] # NoPost =>
    /\ tailer.on
    /\ tailer.committed < post[w].end /\ post[w].end <= tailer.read
    /\ Even(post[w].end)
    /\ 2 * post[w].totals = post[w].end - tailer.counted

\* A flush comes when the process is gone, stops the interval, and sends
\* what is left of the last file, alone.
FlushIsLast ==
  /\ flush # "none" => ~alive /\ tailer.on /\ ~tailer.timer
  /\ post["flush"] # NoPost => flush = "posting"
  /\ flush = "posting" =>
       /\ post["tick"] = NoPost
       /\ post["flush"] # NoPost
       /\ tailer.identity = file
       /\ post["flush"].end >= 2 * Len(lines)

\* An offset into the file that is written: it is not past its end, and the
\* cloud has the lines before it.
InFile(offset) == offset <= Size /\ Delivered(offset)

OffsetsDeliver ==
  ~misread =>
    /\ tailer.identity = file => tailer.read <= Size /\ Delivered(tailer.committed)
    /\ stored.file = file => InFile(stored.offset)

TailerInv ==
  /\ TypeOK
  /\ OutputShape
  /\ OffsetsAgree
  /\ \A w \in Pollers : PostFits(w)
  /\ FlushIsLast
  /\ OffsetsDeliver
  /\ FlushDelivers

-----------------------------------------------------------------------------
(* Arithmetic of half lines.                                               *)

LEMMA Halves ==
  ASSUME NEW n \in Nat
  PROVE  /\ n \div 2 \in Nat
         /\ 2 * (n \div 2) <= n /\ n <= 2 * (n \div 2) + 1
         /\ Even(n) <=> 2 * (n \div 2) = n
         /\ Even(2 * (n \div 2))
BY DEF Even

\* The lines of a frame are as many as its offsets say.
LEMMA FrameCounts ==
  ASSUME NEW from \in Nat, NEW to \in Nat, Even(from), Even(to), from <= to
  PROVE  /\ Cardinality(LinesIn(from, to)) \in Nat
         /\ 2 * Cardinality(LinesIn(from, to)) = to - from
<1> DEFINE a == from \div 2
           b == to \div 2
<1>1. a \in Nat /\ b \in Nat /\ 2 * a = from /\ 2 * b = to
  BY Halves
<1> HIDE DEF a, b
<1>2. a + 1 \in Int /\ b \in Int /\ a <= b
  BY <1>1
<1>3. Cardinality(a + 1 .. b) = IF a + 1 > b THEN 0 ELSE b - (a + 1) + 1
  BY <1>2, FS_Interval
<1>4. Cardinality(a + 1 .. b) = b - a
  BY <1>1, <1>2, <1>3
<1> QED  BY <1>1, <1>2, <1>4 DEF LinesIn, a, b

\* What lies before an offset is what lies before an earlier one, and the
\* lines between.
LEMMA LinesSplit ==
  ASSUME NEW from \in Nat, NEW to \in Nat
  PROVE  LinesIn(0, to) \subseteq LinesIn(0, from) \cup LinesIn(from, to)
<1>1. from \div 2 \in Nat /\ to \div 2 \in Nat /\ 0 \div 2 = 0
  BY Halves
<1> QED  BY <1>1 DEF LinesIn

\* The lines of a frame are lines of a file.
LEMMA LinesAreLines ==
  ASSUME NEW from \in Offsets, NEW to \in Offsets
  PROVE  LinesIn(from, to) \subseteq 1..MaxLines
<1>1. MaxLines \in Nat /\ from \in Nat /\ to \in Nat /\ to <= 2 * MaxLines + 1
  BY TailerAssumption DEF Offsets
<1>2. from \div 2 \in Nat /\ to \div 2 \in Nat /\ 2 * (to \div 2) <= to
  BY <1>1, Halves
<1>3. to \div 2 <= MaxLines
  BY <1>1, <1>2
<1> QED  BY <1>1, <1>2, <1>3 DEF LinesIn

\* The size of the file is an offset, and covers its complete lines.
LEMMA SizeType ==
  ASSUME TypeOK, OutputShape
  PROVE  /\ Size \in Offsets /\ Size \in Nat
         /\ 2 * Len(lines) <= Size /\ Size <= 2 * Len(lines) + 1
         /\ Size \div 2 = Len(lines)
<1>1. Len(lines) \in Nat /\ Len(lines) <= MaxLines /\ half \in BOOLEAN
  BY DEF TypeOK
<1>2. MaxLines \in Nat
  BY TailerAssumption
<1>3. /\ Size \in Offsets /\ Size \in Nat
      /\ 2 * Len(lines) <= Size /\ Size <= 2 * Len(lines) + 1
  BY <1>1, <1>2 DEF Size, Offsets
<1>4. 2 * (Size \div 2) <= Size /\ Size <= 2 * (Size \div 2) + 1 /\ Size \div 2 \in Nat
  BY <1>3, Halves
<1>5. Size \div 2 = Len(lines)
  BY <1>1, <1>3, <1>4
<1> QED  BY <1>3, <1>5

\* Before any line nothing is missing.
LEMMA NothingBefore == Delivered(0) /\ Even(0)
<1>1. 0 \div 2 = 0 /\ 0 % 2 = 0
  BY Halves DEF Even
<1> QED  BY <1>1 DEF Delivered, LinesIn, Even

(***************************************************************************)
(* The tailer as a poll finds it, in its file and read to the end.         *)
(***************************************************************************)
LEMMA ReadFits ==
  ASSUME TailerInv, NEW t, t = ReadOn(Adopted)
  PROVE  /\ Fits(t) /\ t.identity = file
         /\ t.on = tailer.on /\ t.timer = tailer.timer
         /\ t.read >= Size
         /\ ~misread => t.read <= Size /\ Delivered(t.committed)
<1> DEFINE a == Adopted
<1>1. Fits(tailer) /\ tailer \in Tailers /\ file \in 0..MaxFiles
  BY DEF TailerInv, OffsetsAgree, Fits, TypeOK
<1>2. MaxLines \in Nat /\ 0 \in Offsets /\ 0 \in 0..MaxLines
  BY TailerAssumption DEF Offsets
<1>3. Size \in Offsets /\ Size \in Nat
  BY SizeType DEF TailerInv
<1>4. /\ Fits(a) /\ a.identity = file
      /\ a.on = tailer.on /\ a.timer = tailer.timer
      /\ ~misread => a.read <= Size /\ Delivered(a.committed)
  <2>1. CASE tailer.identity = file
    BY <1>1, <2>1 DEF Adopted, TailerInv, OffsetsDeliver
  <2>2. CASE tailer.identity # file
    <3>1. a \in Tailers /\ a.identity = file /\ a.read = 0 /\ a.committed = 0
          /\ a.counted = 0 /\ a.totals = 0
          /\ a.on = tailer.on /\ a.timer = tailer.timer
      BY <1>1, <1>2, <2>2 DEF Adopted, Tailers
    <3> HIDE DEF a
    <3>2. Fits(a)
      BY <1>1, <3>1, NothingBefore DEF Fits
    <3> QED  BY <1>3, <3>1, <3>2, NothingBefore
  <2> QED  BY <2>1, <2>2
<1> HIDE DEF a
<1>5. t = [a EXCEPT !.read = IF Size > @ THEN Size ELSE @]
  BY DEF ReadOn, a
<1>6. a \in Tailers /\ a.read \in Offsets /\ a.read \in Nat
  BY <1>2, <1>4 DEF Fits, Tailers, Offsets
<1>7. /\ t \in Tailers /\ t.identity = file /\ t.on = a.on /\ t.timer = a.timer
      /\ t.committed = a.committed /\ t.counted = a.counted /\ t.totals = a.totals
      /\ t.read = IF Size > a.read THEN Size ELSE a.read
  BY <1>3, <1>4, <1>5, <1>6 DEF Tailers
<1>8. t.read >= Size /\ t.read >= a.read /\ (a.read <= Size => t.read <= Size)
  BY <1>3, <1>6, <1>7
<1>9. a.committed \in Nat
  BY <1>2, <1>6 DEF Tailers, Offsets
<1>10. Fits(t)
  BY <1>3, <1>4, <1>6, <1>7, <1>8, <1>9 DEF Fits
<1> QED  BY <1>4, <1>7, <1>8, <1>10

\* What a poll would post: complete lines, counted on from the totals.
LEMMA FrameFits ==
  ASSUME NEW t, Fits(t), NEW end, end = FrameEnd(t), OutputShape, TypeOK,
         t.read >= Size
  PROVE  LET totals == t.totals + Cardinality(LinesIn(t.committed, end))
         IN  /\ end \in Offsets /\ Even(end)
             /\ end <= t.read /\ end >= 2 * Len(lines)
             /\ end > t.committed =>
                  totals \in 0..MaxLines /\ 2 * totals = end - t.counted
<1> DEFINE n == Cardinality(LinesIn(t.committed, end))
<1>1. MaxLines \in Nat /\ Len(lines) \in Nat
  BY TailerAssumption DEF TypeOK
<1>2. /\ t.read \in Nat /\ t.committed \in Nat /\ t.counted \in Nat
      /\ t.totals \in Nat
      /\ t.read <= 2 * MaxLines + 1
  BY <1>1 DEF Fits, Tailers, Offsets
<1>3. /\ end \in Nat /\ Even(end) /\ end <= t.read /\ t.read <= end + 1
  <2>1. end = 2 * (t.read \div 2)
    BY DEF FrameEnd
  <2> QED  BY <1>2, <2>1, Halves
<1>4. end \in Offsets
  BY <1>1, <1>2, <1>3 DEF Offsets
<1>5. end >= 2 * Len(lines)
  <2>1. Size >= 2 * Len(lines) /\ Size \in Nat
    BY SizeType
  <2>2. end = 2 * (end \div 2) /\ end \div 2 \in Nat
    BY <1>3, Halves
  <2> QED  BY <1>1, <1>2, <1>3, <2>1, <2>2
<1>6. ASSUME end > t.committed
      PROVE  t.totals + n \in 0..MaxLines /\ 2 * (t.totals + n) = end - t.counted
  <2>1. n \in Nat /\ 2 * n = end - t.committed
    BY <1>2, <1>3, <1>6, FrameCounts DEF Fits
  <2>2. 2 * t.totals = t.committed - t.counted
    BY DEF Fits
  <2> DEFINE sum == t.totals + n
  <2>3. sum \in Nat /\ 2 * sum = end - t.counted
    BY <1>2, <1>3, <2>1, <2>2
  <2> HIDE DEF n, sum
  <2>4. 2 * sum <= 2 * MaxLines + 1
    BY <1>1, <1>2, <1>3, <2>3
  <2>5. sum <= MaxLines
    BY <1>1, <2>3, <2>4
  <2> QED  BY <1>1, <2>3, <2>5 DEF sum
<1> QED  BY <1>3, <1>4, <1>5, <1>6

\* A frame that is committed leaves a tailer that fits.
LEMMA CommitFits ==
  ASSUME NEW t, Fits(t), NEW end \in Offsets, NEW totals \in 0..MaxLines,
         Even(end), t.committed <= end, end <= t.read,
         2 * totals = end - t.counted
  PROVE  LET c == Committed(t, end, totals)
         IN  /\ Fits(c)
             /\ c.committed = end /\ c.read = t.read /\ c.counted = t.counted
             /\ c.identity = t.identity /\ c.on = t.on /\ c.timer = t.timer
<1> DEFINE c == Committed(t, end, totals)
<1>1. t \in Tailers /\ t.committed \in Nat /\ end \in Nat /\ t.counted \in Nat
  BY TailerAssumption DEF Fits, Tailers, Offsets
<1>2. (IF end > t.committed THEN end ELSE t.committed) = end
  BY <1>1
<1>3. /\ c \in Tailers
      /\ c.committed = end /\ c.totals = totals /\ c.read = t.read
      /\ c.counted = t.counted
      /\ c.identity = t.identity /\ c.on = t.on /\ c.timer = t.timer
  BY <1>1, <1>2 DEF Committed, Tailers
<1> HIDE DEF c
<1>4. Fits(c)
  BY <1>1, <1>3 DEF Fits
<1> QED  BY <1>3, <1>4 DEF c

\* Only flush() stops a tailer that answers, which keeps what it knows.
SameOffsets(s, t) ==
  /\ s.identity = t.identity /\ s.read = t.read /\ s.committed = t.committed
  /\ s.counted = t.counted /\ s.on = t.on /\ s.timer = t.timer

\* The end of a poll in a stopped tailer leaves the offsets alone.
LEMMA StoppedFits ==
  ASSUME NEW t, Fits(t), NEW w
  PROVE  Fits(Stopped(w, t)) /\ SameOffsets(Stopped(w, t), t)
<1>1. CASE w = "flush"
  <2> DEFINE s == [t EXCEPT !.stopped = TRUE]
  <2>1. /\ s \in Tailers /\ s.totals = t.totals
        /\ SameOffsets(s, t)
    BY DEF Fits, Tailers, SameOffsets
  <2> HIDE DEF s
  <2>2. Fits(s)
    BY <2>1 DEF Fits, SameOffsets
  <2> QED  BY <1>1, <2>1, <2>2 DEF Stopped, s
<1>2. CASE w # "flush"
  BY <1>2 DEF Stopped, SameOffsets
<1> QED  BY <1>1, <1>2

\* Delivered, of any output ls and lines had the cloud has.
Upto(ls, had, offset) ==
  /\ Even(offset)
  /\ \A i \in LinesIn(0, offset) : i <= Len(ls) /\ ls[i] = "shown" => i \in had

\* Where all complete lines are delivered, none that is shown is missing.
LEMMA DeliveredAll ==
  ASSUME NEW ls \in Seq(Kinds), NEW had, NEW offset \in Nat,
         Upto(ls, had, offset), offset >= 2 * Len(ls)
  PROVE  \A i \in DOMAIN ls : ls[i] = "shown" => i \in had
<1>1. Len(ls) \in Nat /\ DOMAIN ls = 1..Len(ls) /\ 0 \div 2 = 0
  BY Halves
<1>2. offset \div 2 \in Nat /\ 2 * (offset \div 2) = offset
  BY Halves DEF Upto
<1>3. Len(ls) <= offset \div 2
  BY <1>1, <1>2
<1>4. \A i \in DOMAIN ls : i \in LinesIn(0, offset) /\ i <= Len(ls)
  BY <1>1, <1>2, <1>3 DEF LinesIn
<1> QED  BY <1>4 DEF Upto

-----------------------------------------------------------------------------
(* The actions.                                                            *)

\* What a poll is about to do, and in which state of the others.
PollTurn(w) ==
  /\ w \in Pollers
  /\ \A v \in Pollers : post[v] = NoPost
  /\ w = "tick" => flush = "none"
  /\ w = "flush" => flush = "waiting"
  /\ tailer.on

\* When a poll begins, no other one is in flight.
LEMMA TurnOfTick ==
  ASSUME TailerInv, Tick
  PROVE  PollTurn("tick") /\ Poll("tick")
<1>1. tailer.timer /\ post["tick"] = NoPost /\ Poll("tick")
  BY DEF Tick
<1>2. flush = "none" /\ post["flush"] = NoPost /\ tailer.on
  BY <1>1 DEF TailerInv, FlushIsLast, OffsetsAgree, Fits
<1> QED  BY <1>1, <1>2 DEF PollTurn, Pollers

LEMMA TurnOfFlush ==
  ASSUME TailerInv, flush = "waiting", post["tick"] = NoPost
  PROVE  PollTurn("flush")
BY DEF TailerInv, FlushIsLast, PollTurn, Pollers

\* A poll that ends at once, with the tailer t: what it delivered suffices.
LEMMA PollEnds ==
  ASSUME TailerInv, NEW w, PollTurn(w), NEW t, Fits(t), t.identity = file,
         t.on = tailer.on, t.timer = tailer.timer,
         ~misread => t.read <= Size /\ Delivered(t.committed),
         tailer' = Stopped(w, t),
         NEW how \in {"delivered", "throttled"}, FlushEnds(w, how),
         how = "delivered" => t.committed >= 2 * Len(lines),
         \/ stored' = stored
         \/ stored' = [offset |-> t.committed, file |-> file],
         UNCHANGED <<output, sent, boots, misread, post>>
  PROVE  TailerInv'
<1>1. TypeOK /\ OutputShape /\ OffsetsAgree /\ FlushIsLast
  BY DEF TailerInv
<1>2. UNCHANGED <<alive, file, lines, half, sent, boots, misread, post>>
  BY DEF output
<1>3. Fits(tailer') /\ SameOffsets(tailer', t)
  BY StoppedFits
<1>4. t.committed \in Nat /\ t.committed \in Offsets /\ t.committed <= t.read
      /\ t.read \in Nat
  BY TailerAssumption DEF Fits, Tailers, Offsets
<1>5. /\ stored' \in [offset : Offsets, file : 0..MaxFiles]
      /\ Even(stored'.offset) /\ stored'.file <= file
      /\ \/ stored'.offset = t.committed /\ stored'.file = file
         \/ stored' = stored
  BY <1>1, <1>4 DEF TypeOK, OffsetsAgree, Fits
<1>6. TypeOK'
  <2>1. flush' \in {flush, "delivered", "throttled"}
    BY DEF FlushEnds
  <2>2. tailer' \in Tailers
    BY <1>3 DEF Fits
  <2> QED  BY <1>1, <1>2, <1>5, <2>1, <2>2 DEF TypeOK, Tailers, Offsets
<1>7. OutputShape'
  BY <1>1, <1>2 DEF OutputShape
<1>8. OffsetsAgree'
  <2>1. Fits(tailer)'
    BY <1>2, <1>3 DEF Fits
  <2> QED  BY <1>2, <1>5, <2>1 DEF OffsetsAgree
<1>9. \A v \in Pollers : PostFits(v)'
  BY <1>2 DEF PollTurn, PostFits
<1>10. FlushIsLast'
  <2>1. /\ \A v \in Pollers : post'[v] = NoPost
        /\ flush' # "posting"
    BY <1>2 DEF PollTurn, FlushEnds, Pollers
  <2>2. flush' # "none" => ~alive' /\ tailer'.on /\ ~tailer'.timer
    BY <1>1, <1>2, <1>3 DEF PollTurn, FlushEnds, FlushIsLast, SameOffsets, Pollers
  <2> QED  BY <2>1, <2>2 DEF FlushIsLast, Pollers
<1>11. OffsetsDeliver'
  <2> SUFFICES ASSUME ~misread  PROVE OffsetsDeliver'
    BY <1>2 DEF OffsetsDeliver
  <2>1. Size' = Size /\ Size \in Nat
    BY <1>1, <1>2, SizeType DEF Size
  <2>2. \A offset : Delivered(offset) => Delivered(offset)'
    BY <1>2 DEF Delivered
  <2>3. t.committed <= Size
    BY <1>4, <2>1
  <2>4. (stored'.file = file => stored'.offset <= Size /\ Delivered(stored'.offset))
    BY <1>5, <2>3 DEF TailerInv, OffsetsDeliver, InFile
  <2>5. tailer'.read <= Size /\ Delivered(tailer'.committed)
    BY <1>3 DEF SameOffsets
  <2> QED  BY <1>2, <2>1, <2>4, <2>5 DEF OffsetsDeliver, InFile, Delivered
<1>12. FlushDelivers'
  <2>1. CASE flush' = flush
    BY <1>2, <2>1 DEF TailerInv, FlushDelivers
  <2>2. CASE flush' # flush
    <3>1. w = "flush" /\ flush' = how
      BY <2>2 DEF FlushEnds
    <3>2. how = "delivered" /\ ~misread =>
            \A i \in DOMAIN lines : lines[i] = "shown" => i \in sent
      <4>1. lines \in Seq(Kinds) /\ (~misread => Upto(lines, sent, t.committed))
        BY <1>1 DEF TypeOK, Delivered, Upto, Even
      <4> QED  BY <1>4, <4>1, DeliveredAll
    <3> QED  BY <1>2, <3>1, <3>2 DEF FlushDelivers
  <2> QED  BY <2>1, <2>2
<1> QED  BY <1>6, <1>7, <1>8, <1>9, <1>10, <1>11, <1>12 DEF TailerInv

\* A poll that goes on to its POST, with the tailer t and the frame it read.
LEMMA PollPosts ==
  ASSUME TailerInv, NEW w, PollTurn(w), NEW t, Fits(t), t.identity = file,
         t.on = tailer.on, t.timer = tailer.timer,
         ~misread => t.read <= Size /\ Delivered(t.committed),
         NEW end \in Offsets, NEW totals \in 0..MaxLines,
         Even(end), t.committed < end, end <= t.read, end >= 2 * Len(lines),
         2 * totals = end - t.counted,
         tailer' = t, FlushEnds(w, "posting"),
         post' = [post EXCEPT ![w] = [end |-> end, totals |-> totals]],
         UNCHANGED <<output, sent, stored, boots, misread>>
  PROVE  TailerInv'
<1>1. TypeOK /\ OutputShape /\ OffsetsAgree /\ FlushIsLast
  BY DEF TailerInv
<1>2. UNCHANGED <<alive, file, lines, half, sent, stored, boots, misread>>
  BY DEF output
<1> DEFINE p == [end |-> end, totals |-> totals]
<1>3. /\ post' \in [Pollers -> [end : Offsets, totals : 0..MaxLines]]
      /\ post'[w] = p
      /\ \A v \in Pollers : v # w => post'[v] = NoPost
  BY <1>1 DEF TypeOK, PollTurn
<1>4. p # NoPost
  <2>1. t.committed \in Nat /\ end \in Nat
    BY TailerAssumption DEF Fits, Tailers, Offsets
  <2>2. end # 0
    BY <2>1
  <2> QED  BY <2>2 DEF NoPost
<1>5. TypeOK'
  <2>1. flush' \in {flush, "posting"}
    BY DEF FlushEnds
  <2>2. tailer' \in Tailers
    BY DEF Fits
  <2> QED  BY <1>1, <1>2, <1>3, <2>1, <2>2 DEF TypeOK, Tailers, Offsets
<1>6. OutputShape'
  BY <1>1, <1>2 DEF OutputShape
<1>7. OffsetsAgree'
  BY <1>1, <1>2 DEF OffsetsAgree, Fits
<1>8. \A v \in Pollers : PostFits(v)'
  <2> TAKE v \in Pollers
  <2>1. CASE v = w
    BY <1>3, <2>1 DEF PostFits, PollTurn
  <2>2. CASE v # w
    BY <1>3, <2>2 DEF PostFits
  <2> QED  BY <2>1, <2>2
<1>9. FlushIsLast'
  <2>1. CASE w = "tick"
    BY <1>2, <1>3, <2>1 DEF PollTurn, FlushEnds, FlushIsLast, Pollers
  <2>2. CASE w = "flush"
    <3>1. flush = "waiting" /\ flush' = "posting"
      BY <2>2 DEF PollTurn, FlushEnds
    <3>2. ~alive' /\ tailer'.on /\ ~tailer'.timer
      BY <1>1, <1>2, <3>1 DEF FlushIsLast
    <3>3. post'["tick"] = NoPost /\ post'["flush"] = p
      BY <1>3, <2>2 DEF Pollers
    <3> QED  BY <1>2, <1>4, <3>1, <3>2, <3>3 DEF FlushIsLast
  <2> QED  BY <2>1, <2>2 DEF PollTurn, Pollers
<1>10. OffsetsDeliver'
  <2> SUFFICES ASSUME ~misread  PROVE OffsetsDeliver'
    BY <1>2 DEF OffsetsDeliver
  <2>1. Size' = Size
    BY <1>2 DEF Size
  <2> QED  BY <1>2, <2>1 DEF TailerInv, OffsetsDeliver, InFile, Delivered
<1>11. FlushDelivers'
  BY <1>2 DEF TailerInv, FlushDelivers, FlushEnds
<1> QED  BY <1>5, <1>6, <1>7, <1>8, <1>9, <1>10, <1>11 DEF TailerInv

\* A poll, from its look at the file to its POST.
LEMMA PollKeeps ==
  ASSUME TailerInv, NEW w, PollTurn(w), Poll(w)
  PROVE  TailerInv'
<1> DEFINE t == ReadOn(Adopted)
           end == FrameEnd(t)
           frame == LinesIn(t.committed, end)
           totals == t.totals + Cardinality(frame)
           show == \E i \in frame : i <= Len(lines) /\ lines[i] = "shown"
           c == Committed(t, end, totals)
<1>1. TypeOK /\ OutputShape /\ UNCHANGED <<output, sent, boots, misread>>
  BY DEF TailerInv, Poll
<1>2. /\ Fits(t) /\ t.identity = file
      /\ t.on = tailer.on /\ t.timer = tailer.timer
      /\ t.read >= Size
      /\ ~misread => t.read <= Size /\ Delivered(t.committed)
  BY ReadFits
<1> HIDE DEF t
<1>3. /\ end \in Offsets /\ Even(end) /\ end <= t.read /\ end >= 2 * Len(lines)
      /\ end > t.committed =>
           totals \in 0..MaxLines /\ 2 * totals = end - t.counted
  BY <1>1, <1>2, FrameFits
<1>4. end \in Nat /\ t.committed \in Nat /\ Len(lines) \in Nat
  BY <1>1, <1>2, <1>3, TailerAssumption DEF Fits, Tailers, Offsets, TypeOK
<1>5. CASE /\ end <= t.committed
           /\ tailer' = Stopped(w, t)
           /\ FlushEnds(w, "delivered")
           /\ UNCHANGED <<stored, post>>
  <2>1. t.committed >= 2 * Len(lines)
    BY <1>3, <1>4, <1>5
  <2> QED  BY <1>1, <1>2, <1>5, <2>1, PollEnds
<1>6. CASE /\ end > t.committed /\ ~show
           /\ tailer' = Stopped(w, c)
           /\ Report(t, end)
           /\ FlushEnds(w, "delivered")
           /\ UNCHANGED post
  <2> HIDE DEF end, totals
  <2>1. /\ Fits(c) /\ c.committed = end /\ c.read = t.read
        /\ c.identity = file /\ c.on = tailer.on /\ c.timer = tailer.timer
    BY <1>2, <1>3, <1>4, <1>6, CommitFits
  <2>2. stored' = [offset |-> c.committed, file |-> file]
    BY <1>2, <1>6, <2>1 DEF Report
  <2>3. ~misread => Delivered(end)
    BY <1>2, <1>3, <1>4, <1>6, LinesSplit DEF Delivered, Even
  <2> HIDE DEF c
  <2> QED  BY <1>1, <1>2, <1>3, <1>6, <2>1, <2>2, <2>3, PollEnds
<1>7. CASE /\ end > t.committed /\ show /\ t.throttled
           /\ tailer' = Stopped(w, t)
           /\ FlushEnds(w, "throttled")
           /\ UNCHANGED <<stored, post>>
  BY <1>1, <1>2, <1>7, PollEnds
<1>8. CASE /\ end > t.committed /\ show /\ ~t.throttled
           /\ tailer' = t
           /\ post' = [post EXCEPT ![w] = [end |-> end, totals |-> totals]]
           /\ FlushEnds(w, "posting")
           /\ UNCHANGED stored
  <2> HIDE DEF end, totals
  <2> QED  BY <1>1, <1>2, <1>3, <1>8, PollPosts
<1> QED  BY <1>5, <1>6, <1>7, <1>8 DEF Poll, t

\* The cloud keeps what it has, and what it accepts are lines of the file.
LEMMA AcceptType ==
  ASSUME TailerInv, NEW w \in Pollers, Accept(w)
  PROVE  sent \subseteq sent' /\ sent' \subseteq 1..MaxLines
<1>1. sent \subseteq 1..MaxLines /\ tailer.committed \in Offsets /\ post[w].end \in Offsets
  BY DEF TailerInv, TypeOK
<1>2. LinesIn(tailer.committed, post[w].end) \subseteq 1..MaxLines
  BY <1>1, LinesAreLines
<1> QED  BY <1>1, <1>2 DEF Accept

\* A POST is answered while no other is in flight, and the flush is the last.
LEMMA PostAlone ==
  ASSUME TailerInv, NEW w \in Pollers, post[w] # NoPost
  PROVE  /\ \A v \in Pollers : v # w => post[v] = NoPost
         /\ w = "tick" => flush # "posting"
         /\ w = "flush" => flush = "posting"
BY DEF TailerInv, FlushIsLast, Pollers

(***************************************************************************)
(* A POST that ended, one way or another, with offset for what the tailer  *)
(* has committed now.                                                      *)
(***************************************************************************)
LEMMA AnswerEnds ==
  ASSUME TailerInv, NEW w \in Pollers, post[w] # NoPost,
         sent \subseteq sent', sent' \subseteq 1..MaxLines,
         Fits(tailer'),
         tailer'.on = tailer.on, tailer'.timer = tailer.timer,
         tailer'.identity = tailer.identity, tailer'.read = tailer.read,
         NEW offset, offset = tailer'.committed,
         ~misread /\ tailer.identity = file => Upto(lines', sent', offset),
         post' = [post EXCEPT ![w] = NoPost],
         NEW how \in {"delivered", "refused"}, FlushEnds(w, how),
         how = "delivered" => offset = post[w].end,
         \/ stored' = stored
         \/ stored' = [offset |-> offset, file |-> tailer.identity],
         UNCHANGED <<output, boots, misread>>
  PROVE  TailerInv'
<1>1. TypeOK /\ OutputShape /\ OffsetsAgree /\ FlushIsLast
  BY DEF TailerInv
<1>2. UNCHANGED <<alive, file, lines, half, boots, misread>>
  BY DEF output
<1>3. /\ offset \in Offsets /\ offset \in Nat /\ offset <= tailer.read
      /\ tailer.read \in Nat
      /\ tailer.identity \in 0..MaxFiles /\ tailer.identity <= file
      /\ Even(offset)
  BY <1>1, TailerAssumption DEF Fits, Tailers, Offsets, OffsetsAgree
<1>4. /\ stored' \in [offset : Offsets, file : 0..MaxFiles]
      /\ Even(stored'.offset) /\ stored'.file <= file
      /\ \/ stored'.offset = offset /\ stored'.file = tailer.identity
         \/ stored' = stored
  BY <1>1, <1>3 DEF TypeOK, OffsetsAgree
<1>5. /\ \A v \in Pollers : post'[v] = NoPost
      /\ post' \in [Pollers -> [end : Offsets, totals : 0..MaxLines]]
  <2>1. \A v \in Pollers : v # w => post[v] = NoPost
    BY PostAlone
  <2>2. NoPost \in [end : Offsets, totals : 0..MaxLines]
    BY TailerAssumption DEF NoPost, Offsets
  <2> QED  BY <1>1, <2>1, <2>2 DEF TypeOK
<1>6. /\ w = "flush" => flush' = how /\ flush = "posting"
      /\ w # "flush" => flush' = flush /\ flush # "posting"
  BY PostAlone DEF FlushEnds, Pollers
<1>7. TypeOK'
  <2>1. flush' \in {flush, "delivered", "refused"}
    BY <1>6
  <2>2. tailer' \in Tailers
    BY DEF Fits
  <2> QED  BY <1>1, <1>2, <1>4, <1>5, <2>1, <2>2 DEF TypeOK, Tailers, Offsets
<1>8. OutputShape'
  BY <1>1, <1>2 DEF OutputShape
<1>9. OffsetsAgree'
  <2>1. Fits(tailer)'
    BY <1>2 DEF Fits
  <2> QED  BY <1>2, <1>4, <2>1 DEF OffsetsAgree
<1>10. \A v \in Pollers : PostFits(v)'
  BY <1>5 DEF PostFits
<1>11. FlushIsLast'
  <2>1. flush' # "posting"
    BY <1>6
  <2>2. flush' # "none" => flush # "none"
    BY <1>6
  <2> QED  BY <1>1, <1>2, <1>5, <2>1, <2>2 DEF FlushIsLast, Pollers
<1>12. OffsetsDeliver'
  <2> SUFFICES ASSUME ~misread  PROVE OffsetsDeliver'
    BY <1>2 DEF OffsetsDeliver
  <2>1. Size' = Size /\ Size \in Nat
    BY <1>1, <1>2, SizeType DEF Size
  <2>2. \A o : Delivered(o) => Upto(lines', sent', o)
    BY <1>2 DEF Delivered, Upto, Even
  <2>3. tailer.identity = file => tailer.read <= Size /\ Upto(lines', sent', offset)
    BY DEF TailerInv, OffsetsDeliver
  <2>4. tailer.identity = file => offset <= Size
    BY <1>3, <2>1, <2>3
  <2>5. stored'.file = file =>
          stored'.offset <= Size /\ Upto(lines', sent', stored'.offset)
    <3>1. CASE stored' = stored
      BY <2>2, <3>1 DEF TailerInv, OffsetsDeliver, InFile
    <3>2. CASE stored'.offset = offset /\ stored'.file = tailer.identity
      BY <2>3, <2>4, <3>2
    <3> QED  BY <1>4, <3>1, <3>2
  <2> QED
    BY <1>2, <2>1, <2>3, <2>5 DEF OffsetsDeliver, InFile, Delivered, Upto, Even
<1>13. FlushDelivers'
  <2>1. CASE w = "flush"
    <3>1. tailer.identity = file /\ post[w].end >= 2 * Len(lines)
      BY <1>1, <1>6, <2>1 DEF FlushIsLast
    <3>2. ASSUME how = "delivered", ~misread
          PROVE  \A i \in DOMAIN lines : lines[i] = "shown" => i \in sent'
      <4>1. Upto(lines', sent', offset) /\ offset >= 2 * Len(lines)
        BY <3>1, <3>2
      <4>2. lines' = lines /\ lines \in Seq(Kinds)
        BY <1>1, <1>2 DEF TypeOK
      <4> QED  BY <1>3, <4>1, <4>2, DeliveredAll
    <3> QED  BY <1>2, <1>6, <2>1, <3>2 DEF FlushDelivers
  <2>2. CASE w # "flush"
    <3>1. FlushDelivers /\ flush' = flush
      BY <1>6, <2>2 DEF TailerInv
    <3>2. ASSUME flush \in {"delivered", "idle"}, ~misread
          PROVE  \A i \in DOMAIN lines : lines[i] = "shown" => i \in sent'
      BY <3>1, <3>2 DEF FlushDelivers
    <3> QED  BY <1>2, <3>1, <3>2 DEF FlushDelivers
  <2> QED  BY <2>1, <2>2
<1> QED  BY <1>7, <1>8, <1>9, <1>10, <1>11, <1>12, <1>13 DEF TailerInv

\* What is posted, with what is delivered, is all before the end of the frame.
LEMMA FrameDelivers ==
  ASSUME TailerInv, NEW w \in Pollers, post[w] # NoPost, Accept(w),
         lines' = lines, ~misread, tailer.identity = file
  PROVE  Upto(lines', sent', post[w].end)
<1>1. /\ Upto(lines, sent, tailer.committed)
      /\ tailer.committed \in Nat /\ post[w].end \in Nat /\ Even(post[w].end)
  BY TailerAssumption
  DEF TailerInv, TypeOK, Offsets, PostFits, OffsetsDeliver, Delivered, Upto, Even
<1>2. sent' = sent \cup LinesIn(tailer.committed, post[w].end)
  BY DEF Accept
<1> QED  BY <1>1, <1>2, LinesSplit DEF Upto

\* The answer commits what was captured, and stores its offset in the job.
LEMMA AnsweredKeeps ==
  ASSUME TailerInv, NEW w \in Pollers, Answered(w)
  PROVE  TailerInv'
<1> DEFINE end == post[w].end
           c == Committed(tailer, end, post[w].totals)
           t == [c EXCEPT !.attempts = 0, !.exhausted = FALSE, !.backoff = FALSE]
<1>1. /\ post[w] # NoPost /\ Accept(w) /\ Report(tailer, end)
      /\ FlushEnds(w, "delivered")
      /\ post' = [post EXCEPT ![w] = NoPost]
      /\ UNCHANGED <<output, boots, misread>>
  BY DEF Answered
<1>2. PICK recent \in BOOLEAN : tailer' = Stopped(w, [t EXCEPT !.throttled = recent])
  BY DEF Answered
<1> DEFINE u == [t EXCEPT !.throttled = recent]
<1>3. /\ Fits(tailer) /\ end \in Offsets /\ post[w].totals \in 0..MaxLines
      /\ Even(end) /\ tailer.committed < end /\ end <= tailer.read
      /\ 2 * post[w].totals = end - tailer.counted
      /\ tailer.committed \in Nat /\ end \in Nat
  BY <1>1, TailerAssumption
  DEF TailerInv, TypeOK, OffsetsAgree, PostFits, Fits, Tailers, Offsets
<1>4. /\ Fits(c)
      /\ c.committed = end /\ c.read = tailer.read /\ c.identity = tailer.identity
      /\ c.on = tailer.on /\ c.timer = tailer.timer
  BY <1>3, CommitFits
<1> HIDE DEF c
<1> DEFINE b == [c EXCEPT !.attempts = 0]
<1>5. t \in Tailers /\ t.totals = c.totals /\ SameOffsets(t, c)
  <2>1. b \in Tailers /\ b.totals = c.totals /\ SameOffsets(b, c)
    BY <1>4, TailerAssumption DEF Fits, Tailers, SameOffsets
  <2>2. t = [b EXCEPT !.exhausted = FALSE, !.backoff = FALSE]
    BY <1>4 DEF Fits, Tailers
  <2> HIDE DEF b, t
  <2>3. t \in Tailers /\ t.totals = b.totals /\ SameOffsets(t, b)
    BY <2>1, <2>2 DEF Tailers, SameOffsets
  <2> QED  BY <2>1, <2>3 DEF SameOffsets
<1> HIDE DEF t
<1>6. u \in Tailers /\ u.totals = c.totals /\ SameOffsets(u, c)
  BY <1>5 DEF Tailers, SameOffsets
<1> HIDE DEF u
<1>7. Fits(u)
  BY <1>4, <1>6 DEF Fits, SameOffsets
<1>8. Fits(tailer') /\ SameOffsets(tailer', u)
  BY <1>2, <1>7, StoppedFits DEF u
<1>9. /\ tailer'.on = tailer.on /\ tailer'.timer = tailer.timer
      /\ tailer'.identity = tailer.identity /\ tailer'.read = tailer.read
      /\ tailer'.committed = end
  BY <1>4, <1>6, <1>8 DEF SameOffsets
<1>10. ~misread /\ tailer.identity = file => Upto(lines', sent', end)
  BY <1>1, FrameDelivers DEF output
<1>11. stored' = [offset |-> end, file |-> tailer.identity]
  BY <1>1, <1>3 DEF Report
<1>12. sent \subseteq sent' /\ sent' \subseteq 1..MaxLines
  BY <1>1, AcceptType
<1> HIDE DEF end
<1> QED  BY <1>1, <1>8, <1>9, <1>10, <1>11, <1>12, AnswerEnds DEF end

\* A POST that failed leaves the offsets where they were.
LEMMA FailedKeeps ==
  ASSUME TailerInv, NEW w \in Pollers, post[w] # NoPost,
         sent \subseteq sent', sent' \subseteq 1..MaxLines,
         NEW t, Fits(t), SameOffsets(t, tailer), tailer' = Stopped(w, t),
         FlushEnds(w, "refused"),
         post' = [post EXCEPT ![w] = NoPost],
         UNCHANGED <<output, stored, boots, misread>>
  PROVE  TailerInv'
<1>1. Fits(tailer') /\ SameOffsets(tailer', t)
  BY StoppedFits
<1>2. /\ tailer'.on = tailer.on /\ tailer'.timer = tailer.timer
      /\ tailer'.identity = tailer.identity /\ tailer'.read = tailer.read
      /\ tailer'.committed = tailer.committed
  BY <1>1 DEF SameOffsets
<1>3. ~misread /\ tailer.identity = file => Upto(lines', sent', tailer.committed)
  BY DEF TailerInv, OffsetsDeliver, Delivered, Upto, Even, output
<1> DEFINE offset == tailer.committed
           how == "refused"
<1>4. how \in {"delivered", "refused"} /\ how # "delivered"
  OBVIOUS
<1> HIDE DEF offset
<1> QED  BY <1>1, <1>2, <1>3, <1>4, AnswerEnds DEF offset

LEMMA RetriesKeeps ==
  ASSUME TailerInv, NEW w \in Pollers, Retries(w)
  PROVE  TailerInv'
<1> DEFINE attempts == tailer.attempts + 1
           a == [tailer EXCEPT !.exhausted = TRUE]
           b == [tailer EXCEPT !.attempts = attempts, !.backoff = TRUE]
           t == IF attempts > MaxRetries THEN a ELSE b
<1>1. Fits(tailer) /\ tailer \in Tailers
  BY DEF TailerInv, OffsetsAgree, Fits
<1>2. a \in Tailers /\ a.totals = tailer.totals /\ SameOffsets(a, tailer)
  BY <1>1 DEF Tailers, SameOffsets
<1>3. ASSUME ~(attempts > MaxRetries)
      PROVE  b \in Tailers /\ b.totals = tailer.totals /\ SameOffsets(b, tailer)
  <2>1. attempts \in 0..MaxRetries
    BY <1>1, <1>3, TailerAssumption DEF Tailers
  <2> HIDE DEF attempts
  <2> QED  BY <1>1, <2>1 DEF Tailers, SameOffsets
<1> HIDE DEF a, b, attempts
<1>4. t \in Tailers /\ t.totals = tailer.totals /\ SameOffsets(t, tailer)
  BY <1>2, <1>3
<1>5. tailer' = Stopped(w, t)
  BY DEF Retries, a, b, attempts
<1> HIDE DEF t
<1>6. Fits(t)
  BY <1>1, <1>4 DEF Fits, SameOffsets
<1>7. sent \subseteq sent' /\ sent' \subseteq 1..MaxLines
  <2>1. sent \subseteq 1..MaxLines
    BY DEF TailerInv, TypeOK
  <2> QED  BY <2>1, AcceptType DEF Retries
<1>8. /\ post[w] # NoPost /\ FlushEnds(w, "refused")
      /\ post' = [post EXCEPT ![w] = NoPost]
      /\ UNCHANGED <<output, stored, boots, misread>>
  BY DEF Retries
<1> QED  BY <1>4, <1>5, <1>6, <1>7, <1>8, FailedKeeps

LEMMA RefusesKeeps ==
  ASSUME TailerInv, NEW w \in Pollers, Refuses(w)
  PROVE  TailerInv'
<1>1. sent' = sent /\ sent \subseteq 1..MaxLines /\ Fits(tailer)
  BY DEF TailerInv, TypeOK, OffsetsAgree, Refuses
<1>2. SameOffsets(tailer, tailer)
  BY DEF SameOffsets
<1> QED  BY <1>1, <1>2, FailedKeeps DEF Refuses

(***************************************************************************)
(* A step that leaves the output, the cloud, the job and the POSTs alone   *)
(* and the offsets of the tailer where they are.                           *)
(***************************************************************************)
LEMMA OnlyControl ==
  ASSUME TailerInv, Fits(tailer'),
         tailer'.on = tailer.on, tailer'.timer => tailer.timer,
         tailer'.identity = tailer.identity, tailer'.read = tailer.read,
         tailer'.committed = tailer.committed, tailer'.counted = tailer.counted,
         flush' \in {flush, "waiting", "stopped", "idle"},
         flush' = "idle" => flush = "idle" \/ file = 0,
         flush' # flush =>
           flush # "posting" /\ ~alive /\ tailer.on /\ ~tailer'.timer,
         UNCHANGED <<output, sent, stored, boots, post, misread>>
  PROVE  TailerInv'
<1>1. TypeOK /\ OutputShape /\ OffsetsAgree /\ FlushIsLast
  BY DEF TailerInv
<1>2. UNCHANGED <<alive, file, lines, half, sent, stored, boots, post, misread>>
  BY DEF output
<1>3. TypeOK'
  <2>1. tailer' \in Tailers
    BY DEF Fits
  <2> QED  BY <1>1, <1>2, <2>1 DEF TypeOK, Tailers, Offsets
<1>4. OutputShape'
  BY <1>1, <1>2 DEF OutputShape
<1>5. OffsetsAgree'
  BY <1>1, <1>2 DEF OffsetsAgree, Fits
<1>6. \A v \in Pollers : PostFits(v)'
  <2>1. \A v \in Pollers : PostFits(v)
    BY DEF TailerInv
  <2> QED  BY <1>2, <2>1 DEF PostFits
<1>7. FlushIsLast'
  <2>1. CASE flush' = flush
    BY <1>1, <1>2, <2>1 DEF FlushIsLast
  <2>2. CASE flush' # flush
    <3>1. flush' # "posting" /\ post["flush"] = NoPost
      BY <1>1, <2>2 DEF FlushIsLast
    <3> QED  BY <1>2, <2>2, <3>1 DEF FlushIsLast
  <2> QED  BY <2>1, <2>2
<1>8. OffsetsDeliver'
  <2> SUFFICES ASSUME ~misread  PROVE OffsetsDeliver'
    BY <1>2 DEF OffsetsDeliver
  <2>1. Size' = Size
    BY <1>2 DEF Size
  <2> QED  BY <1>2, <2>1 DEF TailerInv, OffsetsDeliver, InFile, Delivered
<1>9. FlushDelivers'
  <2>1. FlushDelivers
    BY DEF TailerInv
  <2>2. ASSUME flush' \in {"delivered", "idle"}, ~misread
        PROVE  \A i \in DOMAIN lines : lines[i] = "shown" => i \in sent
    <3>1. CASE flush' = "idle" /\ file = 0
      BY <1>1, <3>1 DEF OutputShape
    <3>2. CASE flush' = flush
      BY <2>1, <2>2, <3>2 DEF FlushDelivers
    <3> QED  BY <2>2, <3>1, <3>2
  <2> QED  BY <1>2, <2>2 DEF FlushDelivers
<1> QED  BY <1>3, <1>4, <1>5, <1>6, <1>7, <1>8, <1>9 DEF TailerInv

LEMMA ThrottleEndsKeeps ==
  ASSUME TailerInv, ThrottleEnds
  PROVE  TailerInv'
<1>1. Fits(tailer) /\ tailer' = [tailer EXCEPT !.throttled = FALSE]
  BY DEF TailerInv, OffsetsAgree, ThrottleEnds
<1>2. /\ tailer' \in Tailers /\ tailer'.totals = tailer.totals
      /\ SameOffsets(tailer', tailer)
  BY <1>1 DEF Fits, Tailers, SameOffsets
<1>3. Fits(tailer')
  BY <1>1, <1>2 DEF Fits, SameOffsets
<1> QED  BY <1>2, <1>3, OnlyControl DEF SameOffsets, ThrottleEnds

LEMMA BackoffEndsKeeps ==
  ASSUME TailerInv, BackoffEnds
  PROVE  TailerInv'
<1>1. Fits(tailer) /\ tailer' = [tailer EXCEPT !.backoff = FALSE]
  BY DEF TailerInv, OffsetsAgree, BackoffEnds
<1>2. /\ tailer' \in Tailers /\ tailer'.totals = tailer.totals
      /\ SameOffsets(tailer', tailer)
  BY <1>1 DEF Fits, Tailers, SameOffsets
<1>3. Fits(tailer')
  BY <1>1, <1>2 DEF Fits, SameOffsets
<1> QED  BY <1>2, <1>3, OnlyControl DEF SameOffsets, BackoffEnds

LEMMA FlushKeeps ==
  ASSUME TailerInv, Flush
  PROVE  TailerInv'
<1>1. Fits(tailer) /\ tailer' = [tailer EXCEPT !.timer = FALSE]
  BY DEF TailerInv, OffsetsAgree, Flush
<1>2. /\ tailer' \in Tailers /\ tailer'.totals = tailer.totals
      /\ tailer'.on = tailer.on /\ ~tailer'.timer
      /\ tailer'.identity = tailer.identity /\ tailer'.read = tailer.read
      /\ tailer'.committed = tailer.committed /\ tailer'.counted = tailer.counted
  BY <1>1 DEF Fits, Tailers
<1>3. Fits(tailer')
  BY <1>1, <1>2 DEF Fits
<1> QED  BY <1>2, <1>3, OnlyControl DEF Flush

\* A tailer that is stopped: by flush() or by the disposal of boot recovery.
LEMMA StopKeeps ==
  ASSUME TailerInv, Stop
  PROVE  TailerInv'
<1> DEFINE a == [tailer EXCEPT !.stopped = TRUE]
<1>1. Fits(tailer) /\ a \in Tailers /\ a.totals = tailer.totals
      /\ SameOffsets(a, tailer)
  BY DEF TailerInv, OffsetsAgree, Fits, Tailers, SameOffsets
<1>2. tailer' = [a EXCEPT !.timer = FALSE]
  BY DEF Stop
<1> HIDE DEF a
<1>3. /\ tailer' \in Tailers /\ tailer'.totals = a.totals
      /\ tailer'.on = a.on /\ ~tailer'.timer
      /\ tailer'.identity = a.identity /\ tailer'.read = a.read
      /\ tailer'.committed = a.committed /\ tailer'.counted = a.counted
  BY <1>1, <1>2 DEF Tailers
<1>4. Fits(tailer')
  BY <1>1, <1>3 DEF Fits, SameOffsets
<1> QED  BY <1>1, <1>3, <1>4, OnlyControl DEF SameOffsets, Stop

LEMMA FlushPollsKeeps ==
  ASSUME TailerInv, FlushPolls
  PROVE  TailerInv'
<1>1. flush = "waiting" /\ PollTurn("flush")
  BY TurnOfFlush DEF FlushPolls
<1>2. CASE Poll("flush")
  BY <1>1, <1>2, PollKeeps
<1>3. CASE /\ Idle("flush")
           /\ flush' = IF tailer.stopped THEN "stopped" ELSE "idle"
           /\ tailer' = Stopped("flush", tailer)
           /\ UNCHANGED <<output, sent, stored, boots, post, misread>>
  <2>1. Fits(tailer) /\ ~alive /\ tailer.on /\ ~tailer.timer
    BY <1>1 DEF TailerInv, OffsetsAgree, FlushIsLast
  <2>2. Fits(tailer') /\ SameOffsets(tailer', tailer)
    BY <1>3, <2>1, StoppedFits
  <2>3. /\ flush' \in {"stopped", "idle"}
        /\ flush' = "idle" => file = 0
    BY <1>3 DEF Idle
  <2> QED  BY <1>1, <1>3, <2>1, <2>2, <2>3, OnlyControl DEF SameOffsets
<1> QED  BY <1>2, <1>3 DEF FlushPolls

\* A tailer that is started at the end of a line fits.
LEMMA NewFits ==
  ASSUME NEW offset \in Offsets, Even(offset), file \in 0..MaxFiles
  PROVE  LET t == NewTailer(offset)
         IN  /\ Fits(t)
             /\ t.on /\ t.identity = file /\ t.read = offset /\ t.committed = offset
<1> DEFINE t == NewTailer(offset)
<1>1. offset \in Nat /\ 0 \in 0..MaxLines /\ 0 \in 0..MaxRetries
  BY TailerAssumption DEF Offsets
<1>2. /\ t \in Tailers /\ t.on /\ t.identity = file /\ t.read = offset
      /\ t.committed = offset /\ t.counted = offset /\ t.totals = 0
  BY <1>1 DEF NewTailer, Tailers
<1> HIDE DEF t
<1>3. Fits(t)
  BY <1>1, <1>2 DEF Fits
<1> QED  BY <1>2, <1>3 DEF t

\* No tailer has nothing to say of any file.
LEMMA NoneFits ==
  ASSUME file \in 0..MaxFiles
  PROVE  /\ Fits(NoTailer)
         /\ ~NoTailer.on /\ ~NoTailer.timer
         /\ NoTailer.read = 0 /\ NoTailer.committed = 0
<1>1. 0 \in Offsets /\ 0 \in Nat /\ 0 \in 0..MaxLines /\ 0 \in 0..MaxRetries
      /\ 0 \in 0..MaxFiles
  BY TailerAssumption DEF Offsets
<1> DEFINE n == NewTailer(0)
           m == [n EXCEPT !.on = FALSE, !.timer = FALSE]
           t == NoTailer
<1>2. /\ n \in Tailers /\ n.read = 0 /\ n.committed = 0 /\ n.counted = 0
      /\ n.totals = 0
  <2>1. Fits(n) /\ n.read = 0 /\ n.committed = 0
    BY <1>1, NewFits, NothingBefore
  <2> QED  BY <2>1 DEF Fits, NewTailer
<1>3. t = [m EXCEPT !.identity = 0]
  BY <1>2 DEF NoTailer, Tailers
<1> HIDE DEF n
<1>4. /\ m \in Tailers /\ ~m.on /\ ~m.timer /\ m.read = 0
      /\ m.committed = 0 /\ m.counted = 0 /\ m.totals = 0
  BY <1>2 DEF Tailers
<1> HIDE DEF m, t
<1>5. /\ t \in Tailers /\ ~t.on /\ ~t.timer /\ t.identity = 0 /\ t.read = 0
      /\ t.committed = 0 /\ t.counted = 0 /\ t.totals = 0
  BY <1>1, <1>3, <1>4 DEF Tailers
<1>6. Fits(t)
  BY <1>1, <1>5, NothingBefore DEF Fits
<1> QED  BY <1>5, <1>6 DEF t

LEMMA CrashKeeps ==
  ASSUME TailerInv, Crash
  PROVE  TailerInv'
<1>1. TypeOK /\ OutputShape /\ OffsetsAgree /\ FlushIsLast
  BY DEF TailerInv
<1>2. /\ UNCHANGED <<alive, file, lines, half, stored, boots, misread>>
      /\ tailer' = NoTailer /\ flush' = "none"
      /\ post' = [v \in Pollers |-> NoPost]
  BY DEF Crash, output
<1>3. sent \subseteq sent' /\ sent' \subseteq 1..MaxLines
  BY <1>1, AcceptType DEF Crash, TypeOK
<1>4. /\ Fits(tailer') /\ ~tailer'.on /\ ~tailer'.timer
      /\ tailer'.read = 0 /\ tailer'.committed = 0
  BY <1>1, <1>2, NoneFits DEF TypeOK
<1>5. post' \in [Pollers -> [end : Offsets, totals : 0..MaxLines]]
  <2>1. NoPost \in [end : Offsets, totals : 0..MaxLines]
    BY TailerAssumption DEF NoPost, Offsets
  <2> QED  BY <1>2, <2>1
<1>6. TypeOK'
  <2>1. tailer' \in Tailers
    BY <1>4 DEF Fits
  <2> QED  BY <1>1, <1>2, <1>3, <1>5, <2>1 DEF TypeOK, Tailers, Offsets
<1>7. OutputShape'
  BY <1>1, <1>2 DEF OutputShape
<1>8. OffsetsAgree'
  <2>1. Fits(tailer)'
    BY <1>2, <1>4 DEF Fits
  <2> QED  BY <1>1, <1>2, <2>1 DEF OffsetsAgree
<1>9. \A v \in Pollers : PostFits(v)'
  BY <1>2 DEF PostFits
<1>10. FlushIsLast'
  BY <1>2 DEF FlushIsLast, Pollers
<1>11. OffsetsDeliver'
  <2> SUFFICES ASSUME ~misread  PROVE OffsetsDeliver'
    BY <1>2 DEF OffsetsDeliver
  <2>1. Size' = Size /\ Size \in Nat
    BY <1>1, <1>2, SizeType DEF Size
  <2>2. stored.file = file => stored.offset <= Size /\ Upto(lines', sent', stored.offset)
    BY <1>2, <1>3
    DEF TailerInv, OffsetsDeliver, InFile, Delivered, Upto, Even
  <2>3. Upto(lines', sent', tailer'.committed)
    BY <1>3, <1>4, <1>2, NothingBefore DEF Delivered, Upto, Even
  <2>4. tailer'.read <= Size
    BY <1>4, <2>1
  <2> QED
    BY <1>2, <2>1, <2>2, <2>3, <2>4 DEF OffsetsDeliver, InFile, Delivered, Upto, Even
<1>12. FlushDelivers'
  BY <1>2 DEF FlushDelivers
<1> QED  BY <1>6, <1>7, <1>8, <1>9, <1>10, <1>11, <1>12 DEF TailerInv

\* A recovery begins at the stored offset, in the file that is there.
LEMMA RecoverKeeps ==
  ASSUME TailerInv, Recover
  PROVE  TailerInv'
<1>1. TypeOK /\ OutputShape /\ OffsetsAgree /\ FlushIsLast
  BY DEF TailerInv
<1>2. /\ UNCHANGED <<alive, file, lines, half, sent, stored, post, flush>>
      /\ tailer' = NewTailer(stored.offset)
      /\ alive /\ ~tailer.on
  BY DEF Recover, output
<1>3. /\ Fits(tailer') /\ tailer'.on /\ tailer'.identity = file
      /\ tailer'.read = stored.offset /\ tailer'.committed = stored.offset
  BY <1>1, <1>2, NewFits DEF TypeOK, OffsetsAgree
<1>4. flush = "none" /\ \A v \in Pollers : post[v] = NoPost
  <2>1. flush = "none"
    BY <1>1, <1>2 DEF FlushIsLast
  <2>2. \A v \in Pollers : PostFits(v)
    BY DEF TailerInv
  <2> QED  BY <1>2, <2>1, <2>2 DEF PostFits
<1>5. boots' \in 1..MaxBoots
  BY <1>1, TailerAssumption DEF Recover, TypeOK
<1>6. misread' = (misread \/ stored.file # file)
  BY DEF Recover
<1>7. TypeOK'
  <2>1. tailer' \in Tailers
    BY <1>3 DEF Fits
  <2> QED  BY <1>1, <1>2, <1>5, <1>6, <2>1 DEF TypeOK, Tailers, Offsets
<1>8. OutputShape'
  BY <1>1, <1>2 DEF OutputShape
<1>9. OffsetsAgree'
  <2>1. Fits(tailer)'
    BY <1>2, <1>3 DEF Fits
  <2> QED  BY <1>1, <1>2, <2>1 DEF OffsetsAgree
<1>10. \A v \in Pollers : PostFits(v)'
  BY <1>2, <1>4 DEF PostFits
<1>11. FlushIsLast'
  BY <1>2, <1>4 DEF FlushIsLast, Pollers
<1>12. OffsetsDeliver'
  <2> SUFFICES ASSUME ~misread'  PROVE OffsetsDeliver'
    BY DEF OffsetsDeliver
  <2>1. Size' = Size /\ ~misread /\ stored.file = file
    BY <1>2, <1>6 DEF Size
  <2>2. stored.offset <= Size /\ Upto(lines, sent, stored.offset)
    BY <2>1 DEF TailerInv, OffsetsDeliver, InFile, Delivered, Upto, Even
  <2> QED
    BY <1>2, <1>3, <2>1, <2>2 DEF OffsetsDeliver, InFile, Delivered, Upto, Even
<1>13. FlushDelivers'
  BY <1>2, <1>4 DEF FlushDelivers
<1> QED  BY <1>7, <1>8, <1>9, <1>10, <1>11, <1>12, <1>13 DEF TailerInv

(***************************************************************************)
(* A step of the process: the file grows and what was delivered still is,  *)
(* or the output goes to a file that nobody knows yet.                     *)
(***************************************************************************)
LEMMA ProcessKeeps ==
  ASSUME TailerInv, alive,
         UNCHANGED <<stored, boots, tailer, post, flush, misread>>,
         alive' \in BOOLEAN, half' \in BOOLEAN, file' \in 0..MaxFiles,
         lines' \in Seq(Kinds), Len(lines') <= MaxLines, sent' \subseteq 1..MaxLines,
         OutputShape',
         \/ file' > file
         \/ /\ file' = file
            /\ Size <= Size'
            /\ \A o \in Offsets :
                 o <= Size /\ Delivered(o) => Upto(lines', sent', o)
  PROVE  TailerInv'
<1>1. TypeOK /\ OutputShape /\ OffsetsAgree /\ FlushIsLast /\ file \in Nat
  BY DEF TailerInv, TypeOK
<1>2. flush = "none"
  BY <1>1 DEF FlushIsLast
<1>3. tailer.identity \in Nat /\ stored.file \in Nat /\ file' \in Nat
  BY <1>1, TailerAssumption DEF TypeOK
<1>4. TypeOK'
  <2>1. tailer' \in Tailers
    BY <1>1 DEF OffsetsAgree, Fits
  <2> QED  BY <1>1, <2>1 DEF TypeOK, Tailers, Offsets
<1>5. OffsetsAgree'
  <2>1. file <= file'
    BY <1>1, <1>3
  <2>2. tailer.identity <= file' /\ stored.file <= file'
    BY <1>1, <1>3, <2>1 DEF OffsetsAgree, Fits
  <2> QED  BY <1>1, <2>2 DEF OffsetsAgree, Fits
<1>6. \A v \in Pollers : PostFits(v)'
  BY DEF TailerInv, PostFits
<1>7. FlushIsLast'
  BY <1>1, <1>2 DEF FlushIsLast
<1>8. OffsetsDeliver'
  <2> SUFFICES ASSUME ~misread  PROVE OffsetsDeliver'
    BY DEF OffsetsDeliver
  <2>1. CASE file' > file
    <3>1. tailer.identity # file' /\ stored.file # file'
      BY <1>1, <1>3, <2>1 DEF OffsetsAgree, Fits
    <3> QED  BY <3>1 DEF OffsetsDeliver
  <2>2. CASE /\ file' = file
             /\ Size <= Size'
             /\ \A o \in Offsets :
                  o <= Size /\ Delivered(o) => Upto(lines', sent', o)
    <3>1. /\ tailer.committed \in Offsets /\ tailer.committed \in Nat
          /\ tailer.read \in Nat /\ tailer.committed <= tailer.read
          /\ stored.offset \in Offsets /\ stored.offset \in Nat
      BY <1>1, TailerAssumption DEF TypeOK, OffsetsAgree, Fits, Offsets
    <3>2. Size \in Nat /\ Size' \in Nat
      <4>1. TypeOK' /\ OutputShape' => Size' \in Nat
        BY <1>4 DEF Size, TypeOK
      <4> QED  BY <1>1, <1>4, <4>1, SizeType
    <3>3. tailer.identity = file =>
            tailer.read <= Size' /\ Upto(lines', sent', tailer.committed)
      <4> SUFFICES ASSUME tailer.identity = file
                   PROVE  tailer.read <= Size' /\ Upto(lines', sent', tailer.committed)
        OBVIOUS
      <4>1. tailer.read <= Size /\ Delivered(tailer.committed)
        BY DEF TailerInv, OffsetsDeliver
      <4>2. tailer.committed <= Size /\ tailer.read <= Size'
        BY <2>2, <3>1, <3>2, <4>1
      <4> QED  BY <2>2, <3>1, <4>1, <4>2
    <3>4. stored.file = file =>
            stored.offset <= Size' /\ Upto(lines', sent', stored.offset)
      <4> SUFFICES ASSUME stored.file = file
                   PROVE  stored.offset <= Size' /\ Upto(lines', sent', stored.offset)
        OBVIOUS
      <4>1. stored.offset <= Size /\ Delivered(stored.offset)
        BY DEF TailerInv, OffsetsDeliver, InFile
      <4>2. stored.offset <= Size'
        BY <2>2, <3>1, <3>2, <4>1
      <4> QED  BY <2>2, <3>1, <4>1, <4>2
    <3> QED
      BY <2>2, <3>3, <3>4 DEF OffsetsDeliver, InFile, Delivered, Upto, Even
  <2> QED  BY <2>1, <2>2
<1>9. FlushDelivers'
  BY <1>2 DEF FlushDelivers
<1> QED  BY <1>4, <1>5, <1>6, <1>7, <1>8, <1>9 DEF TailerInv

\* Delivered speaks of complete lines: a line that is begun changes nothing.
LEMMA BeginLineKeeps ==
  ASSUME TailerInv, BeginLine
  PROVE  TailerInv'
<1>1. TypeOK /\ OutputShape
  BY DEF TailerInv
<1>2. /\ alive /\ file > 0 /\ ~half /\ Len(lines) < MaxLines /\ half' = TRUE
      /\ UNCHANGED <<alive, file, lines, sent, stored, boots, tailer, post, flush,
                     misread>>
  BY DEF BeginLine
<1>3. Size <= Size'
  BY <1>1, <1>2 DEF Size, TypeOK
<1>4. \A o \in Offsets : Delivered(o) => Upto(lines', sent', o)
  BY <1>2 DEF Delivered, Upto, Even
<1>5. OutputShape'
  BY <1>1, <1>2 DEF OutputShape
<1>6. /\ alive' \in BOOLEAN /\ half' \in BOOLEAN /\ file' \in 0..MaxFiles
      /\ lines' \in Seq(Kinds) /\ Len(lines') <= MaxLines
      /\ sent' \subseteq 1..MaxLines
  BY <1>1, <1>2 DEF TypeOK
<1> QED  BY <1>2, <1>3, <1>4, <1>5, <1>6, ProcessKeeps

\* The line that ends lies behind every offset that was read.
LEMMA EndLineKeeps ==
  ASSUME TailerInv, EndLine
  PROVE  TailerInv'
<1>1. TypeOK /\ OutputShape /\ lines \in Seq(Kinds) /\ Len(lines) \in Nat
      /\ Len(lines) < MaxLines /\ MaxLines \in Nat
  BY TailerAssumption DEF TailerInv, TypeOK, OutputShape, EndLine
<1>2. PICK kind \in Kinds : lines' = Append(lines, kind)
  BY DEF EndLine
<1>3. /\ alive /\ half /\ half' = FALSE
      /\ UNCHANGED <<alive, file, sent, stored, boots, tailer, post, flush, misread>>
  BY DEF EndLine
<1>4. /\ lines' \in Seq(Kinds) /\ Len(lines') = Len(lines) + 1
      /\ \A i \in 1..Len(lines) : lines'[i] = lines[i]
  BY <1>1, <1>2
<1>5. Size = 2 * Len(lines) + 1 /\ Size' = 2 * (Len(lines) + 1)
  BY <1>1, <1>3, <1>4 DEF Size
<1>6. Size <= Size'
  BY <1>1, <1>5
<1>7. ASSUME NEW o \in Offsets, o <= Size, Delivered(o)
      PROVE  Upto(lines', sent', o)
  <2>1. o \in Nat /\ 0 \div 2 = 0
    BY <1>1, Halves DEF Offsets
  <2>2. o \div 2 \in Nat /\ 2 * (o \div 2) <= o
    BY <2>1, Halves
  <2>3. o \div 2 <= Len(lines)
    BY <1>1, <1>5, <1>7, <2>1, <2>2
  <2>4. \A i \in LinesIn(0, o) : i \in 1..Len(lines)
    BY <1>1, <2>1, <2>2, <2>3 DEF LinesIn
  <2>5. \A i \in LinesIn(0, o) : lines'[i] = "shown" => i \in sent'
    BY <1>1, <1>3, <1>4, <1>7, <2>4 DEF Delivered
  <2> QED  BY <1>7, <2>5 DEF Upto, Delivered, Even
<1>8. OutputShape'
  BY <1>1, <1>3, <1>4 DEF OutputShape
<1>9. /\ alive' \in BOOLEAN /\ half' \in BOOLEAN /\ file' \in 0..MaxFiles
      /\ Len(lines') <= MaxLines /\ sent' \subseteq 1..MaxLines
  <2>1. Len(lines') <= MaxLines
    BY <1>1, <1>4
  <2> QED  BY <1>1, <1>3, <2>1 DEF TypeOK
<1> QED  BY <1>3, <1>4, <1>6, <1>7, <1>8, <1>9, ProcessKeeps

\* A new file is not yet known to the tailer: nothing is claimed of it.
LEMMA NextFileKeeps ==
  ASSUME TailerInv, NextFile
  PROVE  TailerInv'
<1>1. TypeOK /\ file \in 0..MaxFiles /\ {MaxLines, MaxFiles} \subseteq Nat
  BY TailerAssumption DEF TailerInv, TypeOK
<1>2. /\ alive /\ file < MaxFiles /\ file' = file + 1 /\ lines' = <<>>
      /\ half' = FALSE /\ sent' = {}
      /\ UNCHANGED <<alive, stored, boots, tailer, post, flush, misread>>
  BY DEF NextFile
<1>3. file' \in 0..MaxFiles /\ file' > file
  BY <1>1, <1>2
<1>4. OutputShape'
  BY <1>2 DEF OutputShape
<1>5. /\ alive' \in BOOLEAN /\ half' \in BOOLEAN /\ lines' \in Seq(Kinds)
      /\ Len(lines') <= MaxLines /\ sent' \subseteq 1..MaxLines
  <2>1. lines' \in Seq(Kinds) /\ Len(lines') = 0
    BY <1>2
  <2>2. Len(lines') <= MaxLines
    BY <1>1, <2>1
  <2> QED  BY <1>1, <1>2, <2>1, <2>2 DEF TypeOK
<1> QED  BY <1>2, <1>3, <1>4, <1>5, ProcessKeeps

LEMMA ExitKeeps ==
  ASSUME TailerInv, Exit
  PROVE  TailerInv'
<1>1. TypeOK /\ OutputShape
  BY DEF TailerInv
<1>2. /\ alive /\ alive' = FALSE
      /\ UNCHANGED <<file, lines, half, sent, stored, boots, tailer, post, flush,
                     misread>>
  BY DEF Exit
<1>3. Size' = Size /\ Size \in Nat
  <2>1. Size' = Size
    BY <1>2 DEF Size
  <2> QED  BY <1>1, <2>1, SizeType
<1>4. Size <= Size'
  BY <1>3
<1>5. \A o \in Offsets : Delivered(o) => Upto(lines', sent', o)
  BY <1>2 DEF Delivered, Upto, Even
<1>6. OutputShape'
  BY <1>1, <1>2 DEF OutputShape
<1>7. /\ alive' \in BOOLEAN /\ half' \in BOOLEAN /\ file' \in 0..MaxFiles
      /\ lines' \in Seq(Kinds) /\ Len(lines') <= MaxLines
      /\ sent' \subseteq 1..MaxLines
  BY <1>1, <1>2 DEF TypeOK
<1> QED  BY <1>2, <1>4, <1>5, <1>6, <1>7, ProcessKeeps

-----------------------------------------------------------------------------
(* The invariant.                                                          *)

\* The invariant holds at first, and every step keeps it.
LEMMA InitTailer ==
  ASSUME Init
  PROVE  TailerInv
<1>1. /\ MaxLines \in Nat \ {0} /\ MaxFiles \in Nat \ {0} /\ MaxBoots \in Nat \ {0}
      /\ MaxRetries \in Nat
  BY TailerAssumption
<1>2. /\ alive = TRUE /\ half = FALSE /\ sent = DOMAIN lines
      /\ stored = [offset |-> Size, file |-> file]
      /\ boots = 1 /\ tailer = NewTailer(Size)
      /\ post = [w \in Pollers |-> NoPost] /\ flush = "none" /\ misread = FALSE
  BY DEF Init
<1>3. /\ file \in 0..MaxFiles /\ lines \in Seq(Kinds) /\ Len(lines) <= MaxLines
      /\ file = 0 => lines = <<>>
      /\ sent = 1..Len(lines) /\ Len(lines) \in Nat
  <2>1. CASE file = 0 /\ lines = <<>>
    <3>1. Len(lines) = 0 /\ lines \in Seq(Kinds) /\ DOMAIN lines = 1..Len(lines)
      BY <2>1
    <3> QED  BY <1>1, <1>2, <2>1, <3>1
  <2>2. CASE file = 1 /\ lines = <<"shown">>
    <3>1. Len(lines) = 1 /\ lines \in Seq(Kinds) /\ DOMAIN lines = 1..Len(lines)
      BY <2>2 DEF Kinds
    <3> QED  BY <1>1, <1>2, <2>2, <3>1
  <2> QED  BY <2>1, <2>2 DEF Init
<1>4. sent \subseteq 1..MaxLines
  BY <1>1, <1>3
<1>5. Size = 2 * Len(lines) /\ Size \in Nat /\ Size \in Offsets /\ Even(Size)
  BY <1>1, <1>2, <1>3 DEF Size, Offsets, Even
<1>6. Delivered(Size)
  <2>1. 0 \div 2 = 0 /\ Size \div 2 \in Nat /\ 2 * (Size \div 2) = Size
    BY <1>5, Halves
  <2>2. Size \div 2 = Len(lines)
    BY <1>3, <1>5, <2>1
  <2> QED  BY <1>3, <1>5, <2>1, <2>2 DEF Delivered, LinesIn, Even
<1>7. /\ Fits(tailer) /\ tailer.on /\ tailer.identity = file
      /\ tailer.read = Size /\ tailer.committed = Size
  BY <1>2, <1>3, <1>5, NewFits
<1>8. \A w \in Pollers : post[w] = NoPost
  BY <1>2
<1>9. TypeOK
  <2>1. tailer \in Tailers
    BY <1>7 DEF Fits
  <2>2. post \in [Pollers -> [end : Offsets, totals : 0..MaxLines]]
    <3>1. NoPost \in [end : Offsets, totals : 0..MaxLines]
      BY <1>1 DEF NoPost, Offsets
    <3> QED  BY <1>2, <3>1
  <2>3. stored \in [offset : Offsets, file : 0..MaxFiles]
    BY <1>2, <1>3, <1>5
  <2>4. boots \in 1..MaxBoots
    BY <1>1, <1>2
  <2> QED  BY <1>2, <1>3, <1>4, <2>1, <2>2, <2>3, <2>4 DEF TypeOK, Tailers, Offsets
<1>10. OutputShape
  BY <1>2, <1>3 DEF OutputShape
<1>11. OffsetsAgree
  BY <1>2, <1>3, <1>5, <1>7 DEF OffsetsAgree
<1>12. \A w \in Pollers : PostFits(w)
  BY <1>8 DEF PostFits
<1>13. FlushIsLast
  BY <1>2, <1>8 DEF FlushIsLast, Pollers
<1>14. OffsetsDeliver
  BY <1>2, <1>5, <1>6, <1>7 DEF OffsetsDeliver, InFile
<1>15. FlushDelivers
  BY <1>2 DEF FlushDelivers
<1> QED  BY <1>9, <1>10, <1>11, <1>12, <1>13, <1>14, <1>15 DEF TailerInv

LEMMA NextKeeps ==
  ASSUME TailerInv, [Next]_vars
  PROVE  TailerInv'
<1>1. CASE Tick
  BY <1>1, TurnOfTick, PollKeeps
<1>2. ASSUME NEW w \in Pollers, AnswerStep(w)
      PROVE  TailerInv'
  BY <1>2, AnsweredKeeps, RetriesKeeps, RefusesKeeps DEF AnswerStep
<1>3. CASE ThrottleEnds
  BY <1>3, ThrottleEndsKeeps
<1>4. CASE BackoffEnds
  BY <1>4, BackoffEndsKeeps
<1>5. CASE Flush
  BY <1>5, FlushKeeps
<1>6. CASE FlushPolls
  BY <1>6, FlushPollsKeeps
<1>7. CASE Stop
  BY <1>7, StopKeeps
<1>8. CASE Crash
  BY <1>8, CrashKeeps
<1>9. CASE Recover
  BY <1>9, RecoverKeeps
<1>10. CASE BeginLine
  BY <1>10, BeginLineKeeps
<1>11. CASE EndLine
  BY <1>11, EndLineKeeps
<1>12. CASE NextFile
  BY <1>12, NextFileKeeps
<1>13. CASE Exit
  BY <1>13, ExitKeeps
<1>14. CASE UNCHANGED vars
  <2>1. Fits(tailer)
    BY DEF TailerInv, OffsetsAgree
  <2>2. UNCHANGED <<output, sent, stored, boots, tailer, post, flush, misread>>
    BY <1>14 DEF vars
  <2>3. Fits(tailer')
    BY <2>1, <2>2
  <2> QED  BY <2>2, <2>3, OnlyControl
<1> QED
  BY <1>1, <1>2, <1>3, <1>4, <1>5, <1>6, <1>7, <1>8, <1>9, <1>10, <1>11, <1>12,
     <1>13, <1>14
  DEF Next

(***************************************************************************)
(* The invariant of a tailer: its offsets, the one the job has and those a *)
(* poll captured before its POST agree with what the cloud has, through    *)
(* retries, throttling, a flush during a POST, a crash and a recovery.     *)
(***************************************************************************)
THEOREM TailerInvariant == Spec => []TailerInv
<1>1. Init => TailerInv
  BY InitTailer
<1>2. TailerInv /\ [Next]_vars => TailerInv'
  BY NextKeeps
<1> QED  BY <1>1, <1>2, PTL DEF Spec

\* Every variable has its type: the offsets stay within a file.
THEOREM TypeCorrect == Spec => []TypeOK
<1>1. TailerInv => TypeOK
  BY DEF TailerInv
<1> QED  BY <1>1, TailerInvariant, PTL

(***************************************************************************)
(* The offset the job has is one recovery may start at: the cloud has every*)
(* line before it (onOffset, startOutputTailer).                           *)
(***************************************************************************)
THEOREM RecoveryMissesNothing == Spec => []ReplaySafe
<1>1. TailerInv => ReplaySafe
  BY DEF TailerInv, OffsetsDeliver, InFile, ReplaySafe
<1> QED  BY <1>1, TailerInvariant, PTL

\* The totals that go with the output count every line once.
THEOREM NoLineCountedTwice == Spec => []TotalsCountOnce
<1>1. TailerInv => TotalsCountOnce
  BY DEF TailerInv, OffsetsAgree, Fits, TotalsCountOnce
<1> QED  BY <1>1, TailerInvariant, PTL

\* flush() leaves no line behind when it says it delivered.
THEOREM FlushLeavesNothing == Spec => []FlushDelivers
<1>1. TailerInv => FlushDelivers
  BY DEF TailerInv
<1> QED  BY <1>1, TailerInvariant, PTL

=============================================================================
