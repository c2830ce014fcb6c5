--------------------------- MODULE RecorderProofs ---------------------------
(***************************************************************************)
(* Proofs about module Recorder, for every set of events and every         *)
(* capacity: nothing accepted is lost while the sink works, the file is a  *)
(* prefix of what was accepted even when it fails, Close tells the truth,  *)
(* and the recorder implements the abstract event log.                     *)
(***************************************************************************)
EXTENDS Recorder, SequenceTheorems, TLAPS

\* Sequences: appending after a concatenation, and moving the head of the
\* second part to the end of the first.
LEMMA ConcatAppend ==
  ASSUME NEW S, NEW s \in Seq(S), NEW t \in Seq(S), NEW e \in S
  PROVE  s \o Append(t, e) = Append(s \o t, e)
<1>1. s \o t \in Seq(S) BY ConcatProperties
<1>2. <<e>> \in Seq(S) OBVIOUS
<1>3. Append(t, e) = t \o <<e>> BY AppendIsConcat
<1>4. Append(s \o t, e) = (s \o t) \o <<e>> BY <1>1, AppendIsConcat
<1>5. QED BY <1>2, <1>3, <1>4, ConcatAssociative

LEMMA HeadMoves ==
  ASSUME NEW S, NEW p \in Seq(S), NEW q \in Seq(S), q # <<>>
  PROVE  /\ Append(p, Head(q)) \o Tail(q) = p \o q
         /\ (p \o <<Head(q)>>) \o Tail(q) = p \o q
<1>1. /\ Head(q) \in S /\ Tail(q) \in Seq(S) /\ Len(Tail(q)) = Len(q) - 1
      /\ \A i \in 1..Len(Tail(q)) : Tail(q)[i] = q[i + 1]
  BY HeadTailProperties
<1> DEFINE h == <<Head(q)>>
<1>2. h \in Seq(S) /\ Len(h) = 1 /\ h[1] = q[1] BY <1>1
<1>3. h \o Tail(q) = q
  <2>1. /\ h \o Tail(q) \in Seq(S) /\ Len(h \o Tail(q)) = Len(h) + Len(Tail(q))
        /\ \A i \in 1..(Len(h) + Len(Tail(q))) :
             (h \o Tail(q))[i] = IF i <= Len(h) THEN h[i] ELSE Tail(q)[i - Len(h)]
    BY <1>1, <1>2, ConcatProperties
  <2>2. Len(h \o Tail(q)) = Len(q) /\ Len(q) \in Nat BY <2>1, <1>1, <1>2, LenProperties
  <2>3. \A i \in 1..Len(q) : (h \o Tail(q))[i] = q[i]
    BY <2>1, <2>2, <1>1, <1>2
  <2>4. QED BY <2>1, <2>2, <2>3, SeqEqual
<1>4. (p \o h) \o Tail(q) = p \o (h \o Tail(q)) BY <1>1, <1>2, ConcatAssociative
<1>5. Append(p, Head(q)) = p \o h BY <1>1, AppendIsConcat
<1>6. QED BY <1>3, <1>4, <1>5

-----------------------------------------------------------------------------
\* The inductive invariant: the places an event can be in, what a set error
\* means, and how far the writer is when Close has an answer.
RecInv ==
  /\ RecTypeOK
  /\ NothingLost
  /\ SinkIsPrefix
  /\ broken => firstErr
  /\ writer = "done" => chClosed /\ ch = <<>> /\ (broken \/ buf = <<>>)
  /\ verdict # "open" => writer = "done"
  /\ verdict = "ok" => ~broken

\* While nothing is lost, the file is a prefix of what was accepted.
LEMMA SinkOfWhole ==
  ASSUME NEW S, NEW a \in Seq(S), NEW s \in Seq(S), NEW b \in Seq(S), NEW c \in Seq(S),
         a = (s \o b) \o c
  PROVE  /\ Len(s) <= Len(a)
         /\ \A n \in 1..Len(s) : s[n] = a[n]
<1>0. PICK p : p = s \o b OBVIOUS
<1>1. /\ p \in Seq(S) /\ Len(p) = Len(s) + Len(b)
      /\ \A i \in 1..(Len(s) + Len(b)) : p[i] = IF i <= Len(s) THEN s[i] ELSE b[i - Len(s)]
  BY <1>0, ConcatProperties
<1>q. p \in Seq(S) BY <1>1
<1>2. /\ Len(p \o c) = Len(p) + Len(c)
      /\ \A i \in 1..(Len(p) + Len(c)) : (p \o c)[i] = IF i <= Len(p) THEN p[i] ELSE c[i - Len(p)]
  BY <1>q, ConcatProperties
<1>3. Len(s) \in Nat /\ Len(b) \in Nat /\ Len(c) \in Nat BY LenProperties
<1>4. a = p \o c BY <1>0
<1>5. QED BY <1>1, <1>2, <1>3, <1>4

\* A failed write adds some of the buffered lines, in order: still a prefix.
LEMMA PartOfBuffer ==
  ASSUME NEW S, NEW a \in Seq(S), NEW s \in Seq(S), NEW b \in Seq(S), NEW c \in Seq(S),
         a = (s \o b) \o c, NEW n \in 0..Len(b)
  PROVE  /\ s \o SubSeq(b, 1, n) \in Seq(S)
         /\ Len(s \o SubSeq(b, 1, n)) = Len(s) + n
         /\ Len(s) + n <= Len(a)
         /\ \A m \in 1..(Len(s) + n) : (s \o SubSeq(b, 1, n))[m] = a[m]
<1>p. PICK p : p = s \o b OBVIOUS
<1>u. PICK u : u = SubSeq(b, 1, n) OBVIOUS
<1>0. Len(s) \in Nat /\ Len(b) \in Nat /\ Len(c) \in Nat /\ n \in Int BY LenProperties
<1>1. /\ p \in Seq(S) /\ Len(p) = Len(s) + Len(b)
      /\ \A i \in 1..(Len(s) + Len(b)) : p[i] = IF i <= Len(s) THEN s[i] ELSE b[i - Len(s)]
  BY <1>p, ConcatProperties
<1>2. /\ u \in Seq(S) /\ Len(u) = n
      /\ \A i \in 1..n : u[i] = b[i]
  <2>1. \A i \in 1..n : b[i] \in S BY <1>0, ElementOfSeq
  <2>2. /\ u \in Seq(S) /\ Len(u) = (IF 1 <= n THEN n - 1 + 1 ELSE 0)
        /\ \A i \in 1..(n - 1 + 1) : u[i] = b[1 + i - 1]
    BY <2>1, <1>0, <1>u, SubSeqProperties
  <2>3. QED BY <2>2, <1>0
<1>3. /\ s \o u \in Seq(S) /\ Len(s \o u) = Len(s) + n
      /\ \A i \in 1..(Len(s) + n) : (s \o u)[i] = IF i <= Len(s) THEN s[i] ELSE u[i - Len(s)]
  BY <1>2, ConcatProperties
<1>q. p \in Seq(S) BY <1>1
<1>4. /\ Len(p \o c) = Len(p) + Len(c)
      /\ \A i \in 1..(Len(p) + Len(c)) : (p \o c)[i] = IF i <= Len(p) THEN p[i] ELSE c[i - Len(p)]
  BY <1>q, ConcatProperties
<1>5. a = p \o c BY <1>p
<1>6. ASSUME NEW m \in 1..(Len(s) + n) PROVE (s \o u)[m] = a[m]
  <2>1. CASE m <= Len(s) BY <2>1, <1>0, <1>1, <1>3, <1>4, <1>5
  <2>2. CASE m > Len(s)
    <3>1. m - Len(s) \in 1..n BY <2>2, <1>0
    <3>2. (s \o u)[m] = b[m - Len(s)] BY <2>2, <3>1, <1>0, <1>2, <1>3
    <3>3. m \in 1..(Len(s) + Len(b)) /\ p[m] = b[m - Len(s)] BY <2>2, <1>0, <1>1
    <3>4. m \in 1..(Len(p) + Len(c)) /\ m <= Len(p) BY <3>3, <1>0, <1>1
    <3>5. (p \o c)[m] = p[m] BY <3>4, <1>4
    <3>6. a[m] = (p \o c)[m] BY <1>5
    <3>7. p[m] = b[m - Len(s)] BY <3>3
    <3>8. QED BY <3>2, <3>5, <3>6, <3>7
  <2>3. m <= Len(s) \/ m > Len(s) BY <1>0
  <2>4. QED BY <2>1, <2>2, <2>3
<1>7. QED BY <1>0, <1>1, <1>3, <1>4, <1>5, <1>6, <1>u

-----------------------------------------------------------------------------
LEMMA RecInitInv == RecInit => RecInv
<1> SUFFICES ASSUME RecInit PROVE RecInv OBVIOUS
<1>1. <<>> \in Seq(Events) /\ Len(<<>>) = 0 BY EmptySeq
<1>2. (sink \o buf) \o ch = <<>> BY <1>1, ConcatEmptySeq DEF RecInit
<1>3. Len(ch) = 0 /\ Len(buf) = 0 /\ Len(sink) = 0 /\ Len(accepted) = 0
  BY <1>1 DEF RecInit
<1>4. RecTypeOK
  <2>1. 0 <= Capacity /\ 0 <= BufLines BY RecorderAssumption
  <2>2. /\ accepted \in Seq(Events) /\ ch \in Seq(Events)
        /\ buf \in Seq(Events) /\ sink \in Seq(Events)
    BY <1>1 DEF RecInit
  <2>3. QED BY <1>3, <2>1, <2>2 DEF RecInit, RecTypeOK
<1>5. NothingLost BY <1>2 DEF RecInit, NothingLost
<1>6. SinkIsPrefix BY <1>3 DEF SinkIsPrefix
<1>7. QED BY <1>4, <1>5, <1>6 DEF RecInit, RecInv

\* Record keeps the invariant: the event joins both ends.
LEMMA RecordInv ==
  ASSUME RecInv, NEW e \in Events, Record(e) PROVE RecInv'
<1> USE DEF RecInv, RecTypeOK, Record, RoomInChannel
<1>1. /\ Append(ch, e) \in Seq(Events) /\ Len(Append(ch, e)) = Len(ch) + 1
      /\ Append(accepted, e) \in Seq(Events) /\ Len(Append(accepted, e)) = Len(accepted) + 1
      /\ \A i \in 1..Len(accepted) : Append(accepted, e)[i] = accepted[i]
  BY AppendProperties
<1>2. Len(ch) \in Nat /\ Len(accepted) \in Nat /\ Len(sink) \in Nat BY LenProperties
<1>3. RecTypeOK' BY <1>1, <1>2, RecorderAssumption
<1>4. NothingLost'
  <2>1. sink \o buf \in Seq(Events) BY ConcatProperties
  <2>2. (sink \o buf) \o Append(ch, e) = Append((sink \o buf) \o ch, e)
    BY <2>1, ConcatAppend
  <2>3. QED BY <2>2 DEF NothingLost
<1>5. SinkIsPrefix' BY <1>1, <1>2 DEF SinkIsPrefix
<1>6. writer # "done" OBVIOUS
<1>7. QED BY <1>3, <1>4, <1>5, <1>6

\* One turn of the writer keeps the invariant, whether it writes or fails.
LEMMA EncodeInv ==
  ASSUME RecInv, Encode PROVE RecInv'
<1> DEFINE h == Head(ch)
<1>1. /\ accepted \in Seq(Events) /\ sink \in Seq(Events) /\ buf \in Seq(Events)
      /\ ch \in Seq(Events) /\ ch # <<>> /\ writer = "loop" /\ ~broken /\ verdict = "open"
      /\ Len(ch) <= Capacity /\ Len(buf) <= BufLines
      /\ chClosed \in BOOLEAN /\ firstErr \in BOOLEAN
      /\ accepted = (sink \o buf) \o ch
  BY DEF RecInv, RecTypeOK, Encode, Receive, NothingLost
<1>2. /\ ch' = Tail(ch) /\ accepted' = accepted /\ chClosed' = chClosed
      /\ writer' = "loop" /\ verdict' = "open"
  BY <1>1 DEF Encode, Receive
<1>3. /\ h \in Events /\ Tail(ch) \in Seq(Events) /\ Len(Tail(ch)) = Len(ch) - 1
  BY <1>1, HeadTailProperties
<1>4. /\ Len(ch) \in Nat /\ Len(buf) \in Nat /\ Len(sink) \in Nat BY <1>1, LenProperties
<1>5. sink \o buf \in Seq(Events) BY <1>1, ConcatProperties
<1>t. /\ accepted' \in Seq(Events) /\ ch' \in Seq(Events) /\ Len(ch') <= Capacity
      /\ chClosed' \in BOOLEAN /\ writer' \in {"loop", "done"}
      /\ verdict' \in {"open", "ok", "failed"}
  BY <1>1, <1>2, <1>3, <1>4, RecorderAssumption
<1>6. CASE WriteBuffered(h)
  <2>1. buf' = Append(buf, h) /\ sink' = sink /\ broken' = broken /\ firstErr' = firstErr
    BY <1>1, <1>6 DEF WriteBuffered
  <2>2. Append(buf, h) \in Seq(Events) /\ Len(Append(buf, h)) = Len(buf) + 1
    BY <1>1, <1>3, AppendProperties
  <2>3. (sink \o Append(buf, h)) \o Tail(ch) = accepted
    <3>1. sink \o Append(buf, h) = Append(sink \o buf, h) BY <1>1, <1>3, ConcatAppend
    <3>2. QED BY <3>1, <1>1, <1>5, HeadMoves
  <2>4. NothingLost' BY <2>1, <2>3, <1>2 DEF NothingLost
  <2>5. SinkIsPrefix' BY <2>1, <1>2 DEF RecInv, SinkIsPrefix
  <2>6. RecTypeOK'
    <3>1. Len(buf) < BufLines BY <1>6 DEF WriteBuffered
    <3>2. buf' \in Seq(Events) /\ Len(buf') <= BufLines
      BY <3>1, <2>1, <2>2, <1>4, RecorderAssumption
    <3>3. broken' \in BOOLEAN /\ firstErr' \in BOOLEAN BY <2>1 DEF RecInv, RecTypeOK
    <3>4. sink' \in Seq(Events) BY <2>1, <1>1
    <3>5. QED BY <3>2, <3>3, <3>4, <1>t DEF RecTypeOK
  <2>7. QED BY <2>1, <2>4, <2>5, <2>6, <1>1, <1>2 DEF RecInv
<1>7. CASE WriteSpill(h)
  <2>1. broken' = broken /\ firstErr' = firstErr BY <1>7 DEF WriteSpill
  <2>b. broken' \in BOOLEAN /\ firstErr' \in BOOLEAN BY <2>1 DEF RecInv, RecTypeOK
  <2>2. <<h>> \in Seq(Events) /\ Len(<<h>>) = 1 BY <1>3
  <2>3. CASE sink' = sink \o buf /\ buf' = <<h>>
    <3>1. (sink' \o buf') \o ch' = accepted BY <2>3, <1>1, <1>2, <1>5, HeadMoves
    <3>2. sink' \in Seq(Events) /\ buf' \in Seq(Events) /\ Len(buf') <= BufLines
      BY <2>2, <2>3, <1>5, RecorderAssumption
    <3>3. SinkIsPrefix'
      <4>1. accepted' = (sink' \o buf') \o ch' BY <3>1, <1>2
      <4>2. QED BY <4>1, <3>2, <1>1, <1>2, <1>3, SinkOfWhole DEF SinkIsPrefix
    <3>4. RecTypeOK' BY <3>2, <2>b, <1>t DEF RecTypeOK
    <3>5. QED BY <3>1, <3>3, <3>4, <2>1, <1>1, <1>2 DEF RecInv, NothingLost
  <2>4. CASE sink' = (sink \o buf) \o <<h>> /\ buf' = <<>>
    <3>1. sink' \in Seq(Events) BY <2>2, <2>4, <1>5, ConcatProperties
    <3>2. sink' \o buf' = sink' BY <3>1, <2>4, ConcatEmptySeq
    <3>3. (sink' \o buf') \o ch' = accepted
      <4>1. ((sink \o buf) \o <<h>>) \o Tail(ch) = (sink \o buf) \o ch
        BY <1>1, <1>5, HeadMoves
      <4>2. QED BY <4>1, <3>2, <2>4, <1>1, <1>2
    <3>4. buf' \in Seq(Events) /\ Len(buf') <= BufLines
      BY <2>4, EmptySeq, RecorderAssumption
    <3>5. SinkIsPrefix'
      <4>1. accepted' = (sink' \o buf') \o ch' BY <3>3, <1>2
      <4>2. QED BY <4>1, <3>1, <3>4, <1>1, <1>2, <1>3, SinkOfWhole DEF SinkIsPrefix
    <3>6. RecTypeOK' BY <3>1, <3>4, <2>b, <1>t DEF RecTypeOK
    <3>7. QED BY <3>3, <3>5, <3>6, <2>1, <1>1, <1>2 DEF RecInv, NothingLost
  <2>5. QED BY <1>7, <2>3, <2>4 DEF WriteSpill
<1>8. CASE WriteFails
  <2>1. PICK n \in 0..Len(buf) : sink' = sink \o SubSeq(buf, 1, n)
    BY <1>8 DEF WriteFails
  <2>2. buf' = <<>> /\ broken' = TRUE /\ firstErr' = TRUE BY <1>8 DEF WriteFails, SetErr
  <2>3. /\ sink' \in Seq(Events) /\ Len(sink') = Len(sink) + n
        /\ Len(sink) + n <= Len(accepted)
        /\ \A m \in 1..(Len(sink) + n) : sink'[m] = accepted[m]
    BY <2>1, <1>1, PartOfBuffer
  <2>4. SinkIsPrefix' BY <2>3, <1>2 DEF SinkIsPrefix
  <2>5. buf' \in Seq(Events) /\ Len(buf') <= BufLines BY <2>2, EmptySeq, RecorderAssumption
  <2>6. RecTypeOK' BY <2>2, <2>3, <2>5, <1>t DEF RecTypeOK
  <2>7. QED BY <2>2, <2>4, <2>6, <1>2 DEF RecInv, NothingLost
<1>9. QED BY <1>6, <1>7, <1>8 DEF Encode

\* A turn of a broken writer drops the event and leaves the file alone.
LEMMA EncodeDroppedInv ==
  ASSUME RecInv, EncodeDropped PROVE RecInv'
<1>1. /\ ch \in Seq(Events) /\ ch # <<>> /\ Len(ch) <= Capacity /\ writer = "loop"
      /\ broken = TRUE /\ verdict = "open"
  BY DEF RecInv, RecTypeOK, EncodeDropped, Receive
<1>2. /\ ch' = Tail(ch) /\ accepted' = accepted /\ chClosed' = chClosed /\ writer' = writer
      /\ verdict' = verdict /\ buf' = buf /\ broken' = broken /\ sink' = sink /\ firstErr' = TRUE
  BY DEF EncodeDropped, Receive, WriteRefused, SetErr
<1>3. Tail(ch) \in Seq(Events) /\ Len(Tail(ch)) = Len(ch) - 1 /\ Len(ch) \in Nat
  BY <1>1, HeadTailProperties, LenProperties
<1>4. Len(ch') <= Capacity BY <1>1, <1>2, <1>3, RecorderAssumption
<1>5. RecTypeOK' BY <1>2, <1>3, <1>4 DEF RecInv, RecTypeOK
<1>6. SinkIsPrefix' BY <1>2 DEF RecInv, SinkIsPrefix
<1>7. QED BY <1>1, <1>2, <1>5, <1>6 DEF RecInv, NothingLost

\* The final flush keeps the invariant; it empties the buffer or breaks it.
LEMMA FlushInv ==
  ASSUME RecInv, Flush PROVE RecInv'
<1>1. /\ accepted \in Seq(Events) /\ sink \in Seq(Events) /\ buf \in Seq(Events)
      /\ ch = <<>> /\ ch \in Seq(Events) /\ writer = "loop" /\ chClosed /\ verdict = "open"
      /\ Len(buf) <= BufLines
  BY DEF RecInv, RecTypeOK, Flush, LoopEnds
<1>2. /\ ch' = ch /\ accepted' = accepted /\ chClosed' = chClosed
      /\ writer' = "done" /\ verdict' = verdict
  BY DEF Flush
<1>t. /\ accepted' \in Seq(Events) /\ ch' \in Seq(Events) /\ Len(ch') <= Capacity
      /\ chClosed' \in BOOLEAN /\ writer' \in {"loop", "done"}
      /\ verdict' \in {"open", "ok", "failed"}
  BY <1>2 DEF RecInv, RecTypeOK
<1>3. sink \o buf \in Seq(Events) BY <1>1, ConcatProperties
<1>4. <<>> \in Seq(Events) /\ Len(<<>>) = 0 /\ 0 <= BufLines BY RecorderAssumption
<1>5. CASE ~broken /\ sink' = Flushed /\ buf' = <<>> /\ UNCHANGED <<broken, firstErr>>
  <2>1. sink' = sink \o buf /\ buf' = <<>> /\ broken' = broken /\ firstErr' = firstErr /\ ~broken
    BY <1>5 DEF Flushed
  <2>2. accepted = (sink \o buf) \o ch BY <2>1 DEF RecInv, NothingLost
  <2>3. accepted = sink \o buf BY <2>2, <1>1, <1>3, ConcatEmptySeq
  <2>4. (sink' \o buf') \o ch' = accepted'
    BY <2>1, <2>3, <1>1, <1>2, <1>3, ConcatEmptySeq
  <2>5. RecTypeOK'
    <3>1. broken' \in BOOLEAN /\ firstErr' \in BOOLEAN BY <2>1 DEF RecInv, RecTypeOK
    <3>2. QED BY <3>1, <2>1, <1>3, <1>4, <1>t DEF RecTypeOK
  <2>6. SinkIsPrefix'
    <3>1. sink' = accepted' BY <2>1, <2>3, <1>2
    <3>2. Len(sink') \in Nat BY <2>1, <1>3, LenProperties
    <3>3. QED BY <3>1, <3>2 DEF SinkIsPrefix
  <2>7. QED BY <2>1, <2>4, <2>5, <2>6, <1>1, <1>2 DEF RecInv, NothingLost
<1>6. CASE ~broken /\ buf # <<>> /\ WriteFails
  <2>1. PICK n \in 0..Len(buf) : sink' = sink \o SubSeq(buf, 1, n)
    BY <1>6 DEF WriteFails
  <2>2. buf' = <<>> /\ broken' = TRUE /\ firstErr' = TRUE BY <1>6 DEF WriteFails, SetErr
  <2>3. accepted = (sink \o buf) \o ch BY <1>6 DEF RecInv, NothingLost
  <2>4. /\ sink' \in Seq(Events) /\ Len(sink') = Len(sink) + n
        /\ Len(sink) + n <= Len(accepted)
        /\ \A m \in 1..(Len(sink) + n) : sink'[m] = accepted[m]
    BY <2>1, <2>3, <1>1, PartOfBuffer
  <2>5. SinkIsPrefix' BY <2>4, <1>2 DEF SinkIsPrefix
  <2>6. RecTypeOK' BY <2>2, <2>4, <1>4, <1>t DEF RecTypeOK
  <2>7. QED BY <2>2, <2>5, <2>6, <1>1, <1>2 DEF RecInv, NothingLost
<1>7. CASE broken /\ SetErr /\ UNCHANGED <<buf, broken, sink>>
  <2>1. broken = TRUE /\ broken' = broken /\ buf' = buf /\ sink' = sink /\ firstErr' = TRUE
    BY <1>7 DEF RecInv, RecTypeOK, SetErr
  <2>2. RecTypeOK' BY <2>1, <1>t DEF RecInv, RecTypeOK
  <2>3. SinkIsPrefix' BY <2>1, <1>2 DEF RecInv, SinkIsPrefix
  <2>4. QED BY <2>1, <2>2, <2>3, <1>1, <1>2 DEF RecInv, NothingLost
<1>8. QED BY <1>5, <1>6, <1>7 DEF Flush

\* Closing the channel and waiting for the writer.
LEMMA CloseInv ==
  ASSUME RecInv, CloseChannel \/ CloseReturn PROVE RecInv'
<1>1. /\ accepted' = accepted /\ ch' = ch /\ writer' = writer /\ buf' = buf
      /\ broken' = broken /\ sink' = sink /\ firstErr' = firstErr
  BY DEF CloseChannel, CloseReturn
<1>2. NothingLost' BY <1>1 DEF RecInv, NothingLost
<1>3. SinkIsPrefix' BY <1>1 DEF RecInv, SinkIsPrefix
<1>4. CASE CloseChannel
  <2>1. chClosed' = TRUE /\ verdict' = verdict BY <1>4 DEF CloseChannel
  <2>2. RecTypeOK' BY <1>1, <2>1 DEF RecInv, RecTypeOK
  <2>3. QED BY <1>1, <1>2, <1>3, <2>1, <2>2 DEF RecInv
<1>5. CASE CloseReturn
  <2>1. /\ chClosed' = chClosed /\ writer = "done"
        /\ verdict' = IF firstErr THEN "failed" ELSE "ok"
    BY <1>5 DEF CloseReturn
  <2>2. RecTypeOK' BY <1>1, <2>1 DEF RecInv, RecTypeOK
  <2>3. verdict' = "ok" => ~firstErr BY <2>1
  <2>4. QED BY <1>1, <1>2, <1>3, <2>1, <2>2, <2>3 DEF RecInv
<1>6. QED BY <1>4, <1>5

LEMMA StutterInv ==
  ASSUME RecInv, UNCHANGED recVars PROVE RecInv'
BY DEF RecInv, RecTypeOK, NothingLost, SinkIsPrefix, recVars

\* Every step of the recorder keeps the invariant.
LEMMA RecStepInv ==
  ASSUME RecInv, [Next]_recVars PROVE RecInv'
<1>1. CASE \E e \in Events \ ElementsOf(accepted) : Record(e) BY <1>1, RecordInv
<1>2. CASE WriterStep BY <1>2, EncodeInv, EncodeDroppedInv, FlushInv DEF WriterStep
<1>3. CASE CloseChannel \/ CloseReturn BY <1>3, CloseInv
<1>4. CASE UNCHANGED recVars BY <1>4, StutterInv
<1>5. QED BY <1>1, <1>2, <1>3, <1>4 DEF Next

\* A recorder that reports success has written everything: the writer ended
\* with both queues empty and the sink unbroken.
LEMMA InvIsComplete == RecInv => CleanCloseIsComplete
<1> SUFFICES ASSUME RecInv, verdict = "ok" PROVE sink = accepted
  BY DEF CleanCloseIsComplete
<1>1. /\ sink \in Seq(Events) /\ ch = <<>> /\ buf = <<>>
      /\ accepted = (sink \o buf) \o ch
  BY DEF RecInv, RecTypeOK, NothingLost
<1>2. QED BY <1>1, ConcatEmptySeq

-----------------------------------------------------------------------------
\* The inductive invariant holds in every behaviour: its state has
\* the right types, and ...
THEOREM RecorderInvariant == RecSpec => []RecInv
<1>1. RecInit => RecInv BY RecInitInv
<1>2. RecInv /\ [Next]_recVars => RecInv' BY RecStepInv
<1>3. QED BY <1>1, <1>2, PTL DEF RecSpec

\* ... the types, for every capacity of the channel and of the buffer.
THEOREM RecorderTypes == RecSpec => []RecTypeOK
<1>1. RecInv => RecTypeOK BY DEF RecInv
<1>2. QED BY <1>1, RecorderInvariant, PTL

\* No event handed to Record is lost while the sink works (loop, Record).
THEOREM RecorderLosesNothing == RecSpec => []NothingLost
<1>1. RecInv => NothingLost BY DEF RecInv
<1>2. QED BY <1>1, RecorderInvariant, PTL

\* The file is always a prefix of what was handed over, failures included.
THEOREM RecorderPrefix == RecSpec => []SinkIsPrefix
<1>1. RecInv => SinkIsPrefix BY DEF RecInv
<1>2. QED BY <1>1, RecorderInvariant, PTL

\* Close returns nil only over a complete file.
THEOREM RecorderCloseHonest == RecSpec => []CleanCloseIsComplete
<1>1. QED BY InvIsComplete, RecorderInvariant, PTL

-----------------------------------------------------------------------------
(* The recorder implements the event log: Record submits, a turn of the    *)
(* writer persists or stutters, the second half of Close seals.            *)

LEMMA PrefixIsSubSeq ==
  ASSUME NEW S, NEW a \in Seq(S), NEW s \in Seq(S), Len(s) <= Len(a),
         \A n \in 1..Len(s) : s[n] = a[n]
  PROVE  s = SubSeq(a, 1, Len(s))
<1>1. Len(s) \in Nat /\ Len(a) \in Nat BY LenProperties
<1>2. \A i \in 1..Len(s) : a[i] \in S
  <2>1. \A i \in 1..Len(a) : a[i] \in S BY ElementOfSeq
  <2>2. QED BY <1>1, <2>1
<1>3. /\ SubSeq(a, 1, Len(s)) \in Seq(S)
      /\ Len(SubSeq(a, 1, Len(s))) = (IF 1 <= Len(s) THEN Len(s) - 1 + 1 ELSE 0)
      /\ \A i \in 1..(Len(s) - 1 + 1) : SubSeq(a, 1, Len(s))[i] = a[1 + i - 1]
  BY <1>1, <1>2, SubSeqProperties
<1>4. Len(SubSeq(a, 1, Len(s))) = Len(s) BY <1>1, <1>3
<1>5. \A i \in 1..Len(s) : SubSeq(a, 1, Len(s))[i] = s[i] BY <1>1, <1>3
<1>6. QED BY <1>3, <1>4, <1>5, SeqEqual

\* What the writer does to the file only makes it longer.
LEMMA SinkGrows ==
  ASSUME RecInv, WriterStep PROVE Len(sink) <= Len(sink')
<1>1. /\ sink \in Seq(Events) /\ buf \in Seq(Events) /\ ch \in Seq(Events)
  BY DEF RecInv, RecTypeOK
<1>2. Len(sink) \in Nat /\ Len(buf) \in Nat BY <1>1, LenProperties
<1>3. /\ sink \o buf \in Seq(Events) /\ Len(sink \o buf) = Len(sink) + Len(buf)
  BY <1>1, ConcatProperties
<1>4. ASSUME WriteFails PROVE Len(sink) <= Len(sink')
  <2>1. PICK n \in 0..Len(buf) : sink' = sink \o SubSeq(buf, 1, n) BY <1>4 DEF WriteFails
  <2>2. \A i \in 1..n : buf[i] \in Events
    <3>1. \A i \in 1..Len(buf) : buf[i] \in Events BY <1>1, ElementOfSeq
    <3>2. QED BY <3>1, <1>2
  <2>3. n \in Nat BY <1>2
  <2>4. SubSeq(buf, 1, n) \in Seq(Events) BY <2>2, <2>3, SubSeqProperties
  <2>5. Len(sink') = Len(sink) + Len(SubSeq(buf, 1, n)) BY <1>1, <2>1, <2>4, ConcatProperties
  <2>6. Len(SubSeq(buf, 1, n)) \in Nat BY <2>4, LenProperties
  <2>7. QED BY <1>2, <2>5, <2>6
<1>5. ASSUME Encode PROVE Len(sink) <= Len(sink')
  <2>1. ch # <<>> BY <1>5 DEF Encode, Receive
  <2>2. Head(ch) \in Events BY <1>1, <2>1, HeadTailProperties
  <2>3. <<Head(ch)>> \in Seq(Events) /\ Len(<<Head(ch)>>) = 1 BY <2>2
  <2>4. Len((sink \o buf) \o <<Head(ch)>>) = Len(sink \o buf) + 1
    BY <1>3, <2>3, ConcatProperties
  <2>5. CASE WriteBuffered(Head(ch)) BY <2>5, <1>2 DEF WriteBuffered
  <2>6. CASE WriteSpill(Head(ch)) BY <2>6, <2>4, <1>2, <1>3 DEF WriteSpill
  <2>7. QED BY <1>4, <1>5, <2>5, <2>6 DEF Encode
<1>6. ASSUME EncodeDropped PROVE Len(sink) <= Len(sink')
  BY <1>6, <1>2 DEF EncodeDropped, WriteRefused
<1>7. ASSUME Flush PROVE Len(sink) <= Len(sink')
  <2>1. sink' = Flushed \/ WriteFails \/ sink' = sink BY <1>7 DEF Flush
  <2>2. QED BY <2>1, <1>2, <1>3, <1>4 DEF Flushed
<1>8. QED BY <1>5, <1>6, <1>7 DEF WriterStep

LEMMA LogStep ==
  ASSUME RecInv, RecInv', [Next]_recVars PROVE [Log!Next]_(Log!vars)
<1>1. CASE \E e \in Events \ ElementsOf(accepted) : Record(e)
  <2>1. PICK e \in Events \ ElementsOf(accepted) : Record(e) BY <1>1
  <2>2. \A n \in 1..Len(accepted) : accepted[n] # e BY DEF ElementsOf
  <2>3. verdict = "open" BY <2>1 DEF RecInv, RecTypeOK, Record
  <2>4. Log!Submit(e) BY <2>1, <2>2, <2>3 DEF Record, Log!Submit
  <2>5. QED BY <2>4 DEF Log!Next
<1>2. CASE WriterStep
  <2>1. accepted' = accepted /\ verdict' = verdict /\ verdict = "open"
    BY <1>2 DEF RecInv, RecTypeOK, WriterStep, Encode, EncodeDropped, Receive, Flush
  <2>2. /\ accepted \in Seq(Events) /\ sink' \in Seq(Events) /\ sink \in Seq(Events)
        /\ Len(sink') <= Len(accepted) /\ \A n \in 1..Len(sink') : sink'[n] = accepted[n]
    BY <2>1 DEF RecInv, RecTypeOK, SinkIsPrefix
  <2>3. sink' = SubSeq(accepted, 1, Len(sink')) BY <2>2, PrefixIsSubSeq
  <2>4. Len(sink') \in Len(sink)..Len(accepted)
    <3>1. Len(sink) <= Len(sink') BY <1>2, SinkGrows
    <3>2. Len(sink) \in Nat /\ Len(sink') \in Nat /\ Len(accepted) \in Nat
      BY <2>2, LenProperties
    <3>3. QED BY <3>1, <3>2, <2>2
  <2>5. Log!Persist BY <2>1, <2>3, <2>4 DEF Log!Persist
  <2>6. QED BY <2>5 DEF Log!Next
<1>3. CASE CloseChannel
  BY <1>3 DEF CloseChannel, Log!vars
<1>4. CASE CloseReturn
  <2>1. accepted' = accepted /\ sink' = sink /\ verdict = "open"
    BY <1>4 DEF CloseReturn
  <2>2. CASE firstErr
    <3>1. Log!SealFailed BY <2>1, <2>2, <1>4 DEF CloseReturn, Log!SealFailed
    <3>2. QED BY <3>1 DEF Log!Next
  <2>3. CASE ~firstErr
    <3>1. verdict' = "ok" BY <2>3, <1>4 DEF CloseReturn
    <3>2. sink' = accepted' 
      <4>1. /\ sink' \in Seq(Events) /\ ch' = <<>> /\ buf' = <<>>
            /\ accepted' = (sink' \o buf') \o ch'
        BY <3>1 DEF RecInv, RecTypeOK, NothingLost
      <4>2. QED BY <4>1, ConcatEmptySeq
    <3>3. Log!SealOk BY <2>1, <3>1, <3>2 DEF Log!SealOk
    <3>4. QED BY <3>3 DEF Log!Next
  <2>4. QED BY <2>2, <2>3
<1>5. CASE UNCHANGED recVars BY <1>5 DEF recVars, Log!vars
<1>6. QED BY <1>1, <1>2, <1>3, <1>4, <1>5 DEF Next

\* The recorder implements the abstract event log, for every set of events
\* and every capacity (RecSpec is the property ImplementsEventLog of the run).
THEOREM RecorderRefinesLog == RecSpec => ImplementsEventLog
<1>1. RecInit => Log!Init BY DEF RecInit, Log!Init
<1>2. RecInv /\ RecInv' /\ [Next]_recVars => [Log!Next]_(Log!vars) BY LogStep
<1>3. RecSpec => []RecInv BY RecorderInvariant
<1>4. QED BY <1>1, <1>2, <1>3, PTL DEF RecSpec, Log!Spec, ImplementsEventLog

=============================================================================
