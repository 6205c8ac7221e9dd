-------------------------- MODULE SerialFrameProofs --------------------------
(***************************************************************************)
(* Theorems about SerialFrame, for all sizes of buffers and frames,        *)
(* whatever arrives, in whatever pieces: types, and with them the bounds   *)
(* of the two buffers; the answer that a call in step returns, and what it *)
(* leaves unread.  The second half looks at Rest, the bytes that have      *)
(* arrived and that ReadSerial has not taken: get_bytes and ReadChunk only *)
(* move them from the line to the buffer.                                  *)
(***************************************************************************)
EXTENDS SerialFrame, SequenceTheorems, TLAPS

\* Bytes of frames and the like, each at its position, and garbled ones.
Bytes ==
    {b \in [kind : {"frame", "nak", "event", "time", "noise"}, cmd : Nat, pos : Nat, size : Nat] :
       /\ b.kind = "frame" => b.size \in DataSizes /\ b.pos \in 1..3 + HeaderSize + b.size
       /\ b.kind = "nak" => b.pos \in 1..3 /\ b.size = 0
       /\ b.kind = "event" => b.pos \in 1..2 /\ b.size = 0 /\ b.cmd = 0
       /\ b.kind = "time" => b.pos = 1 /\ b.size = 0 /\ b.cmd = 0}

Counters ==
    /\ pbSeq \in Nat /\ answered \in Nat /\ answered <= pbSeq
    /\ plugged \in BOOLEAN /\ inStep \in BOOLEAN
    /\ line \in Seq(Bytes)

\* Where ReadSerial is; it asks for the rest of a frame only when that fits.
Place ==
    /\ pc \in {"idle", "start", "slot_change", "sync", "nak", "header", "rest", "lrc"}
    /\ status \in {"none", "SUCCESS", "COMM_ERROR", "COMM_NAK"}
    /\ answer \in Seq(Bytes) /\ Len(answer) <= MaxLength
    /\ pc = "rest" => to_read \in HeaderSize..MaxLength /\ Len(answer) = HeaderRead

Buffers ==
    /\ chunk \in Seq(Bytes) /\ buffer \in Seq(Bytes)
    /\ buffer_offset \in 0..Len(buffer)
    /\ Len(buffer) <= MaxBuf /\ Len(chunk) <= MaxBuf

\* get_bytes calls ReadChunk only for bytes that the buffer lacks.
Reading == reading \in BOOLEAN /\ (reading => pc # "idle" /\ Needed > Available)

IInv == Counters /\ Place /\ Buffers /\ Reading

-----------------------------------------------------------------------------
(* Sequences of bytes                                                      *)

\* Concatenation is associative.
LEMMA Regroup == \A s, t, v \in Seq(Bytes) : (s \o t) \o v = s \o (t \o v)
<1>1. ASSUME NEW s \in Seq(Bytes), NEW t \in Seq(Bytes), NEW v \in Seq(Bytes)
      PROVE  (s \o t) \o v = s \o (t \o v)
  BY ONLY <1>1, ConcatAssociative
<1> QED
  BY <1>1

\* The constants as numbers.
LEMMA Sizes ==
  /\ HeaderRead \in Nat /\ HeaderSize \in Nat /\ MaxBuf \in Nat /\ MaxLength \in Nat
  /\ 0 < HeaderRead /\ HeaderRead < HeaderSize /\ HeaderSize <= MaxLength /\ 0 < MaxBuf
BY FrameAssumption

\* A part of a sequence of bytes.
LEMMA Part ==
  ASSUME NEW s \in Seq(Bytes), NEW m \in Nat, NEW n \in Nat, n <= Len(s), m <= n
  PROVE  SubSeq(s, m + 1, n) \in Seq(Bytes) /\ Len(SubSeq(s, m + 1, n)) = n - m
<1>1. \A k \in m + 1 .. n : s[k] \in Bytes
  BY LenProperties, ElementOfSeq
<1>2. m + 1 \in Int /\ n \in Int
  OBVIOUS
<1>3. /\ SubSeq(s, m + 1, n) \in Seq(Bytes)
      /\ Len(SubSeq(s, m + 1, n)) = IF m + 1 <= n THEN n - (m + 1) + 1 ELSE 0
  BY <1>1, <1>2, SubSeqProperties
<1> QED
  BY <1>3

\* A function on 1..n is a sequence of length n.
LEMMA AsSequence ==
  ASSUME NEW n \in Nat, NEW q \in [1..n -> Bytes]
  PROVE  q \in Seq(Bytes) /\ Len(q) = n
OBVIOUS

\* What the reader sends is bytes.
LEMMA ReaderSendsBytes ==
  ASSUME NEW n \in Nat
  PROVE  /\ \A d \in DataSizes : Frame(n, d) \in Seq(Bytes)
         /\ Nak(n) \in Seq(Bytes) /\ SlotChange \in Seq(Bytes) /\ TimeRequest \in Seq(Bytes)
<1>1. ASSUME NEW d \in DataSizes PROVE Frame(n, d) \in Seq(Bytes)
  <2>1. d \in Nat /\ 3 + HeaderSize + d \in Nat
    BY Sizes, FrameAssumption
  <2>2. \A p \in 1..3 + HeaderSize + d : Byte("frame", n, p, d) \in Bytes
    BY <2>1 DEF Byte, Bytes
  <2>3. Frame(n, d) \in [1..3 + HeaderSize + d -> Bytes]
    BY <2>2 DEF Frame
  <2> QED
    BY <2>1, <2>3, AsSequence
<1>2. Nak(n) \in [1..3 -> Bytes] /\ SlotChange \in [1..2 -> Bytes]
  BY DEF Nak, SlotChange, Byte, Bytes
<1>3. Byte("time", 0, 1, 0) \in Bytes
  BY DEF Byte, Bytes
<1>4. TimeRequest \in Seq(Bytes)
  BY <1>3 DEF TimeRequest
<1> QED
  BY <1>1, <1>2, <1>4, AsSequence

-----------------------------------------------------------------------------
(* ReadSerial and ReadChunk                                                *)

\* get_bytes is never asked for less than nothing.
LEMMA NeededType ==
  ASSUME Place
  PROVE  Needed \in Nat /\ (pc = "header" => Needed = HeaderRead)
         /\ (pc = "rest" => Needed = to_read - HeaderRead)
BY Sizes DEF Place, Needed

\* With the bytes it asked for ReadSerial never leaves the buffer of the caller.
LEMMA ParseKeeps ==
  ASSUME Place, NEW bs \in Seq(Bytes), Len(bs) = Needed, Parse(bs)
  PROVE  Place'
<1>1. CASE UNCHANGED answer /\ pc' # "rest"
  <2>1. /\ pc' \in {"idle", "start", "slot_change", "sync", "nak", "header", "rest", "lrc"}
        /\ status' \in {"none", "SUCCESS", "COMM_ERROR", "COMM_NAK"}
    BY <1>1 DEF Place, Parse, Return, Goto
  <2> QED
    BY <1>1, <2>1 DEF Place
<1>2. CASE pc = "header"
  <2>1. /\ answer' = bs /\ Len(bs) = HeaderRead
        /\ \/ to_read' \in HeaderSize..MaxLength /\ pc' = "rest" /\ status' = status
           \/ pc' = "idle" /\ status' = "COMM_ERROR"
    BY <1>2, NeededType DEF Parse, Return, Goto
  <2> QED
    BY <2>1, Sizes DEF Place
<1>3. CASE pc = "rest"
  <2>1. answer' = answer \o bs /\ pc' = "lrc" /\ status' = status
    BY <1>3 DEF Parse, Goto
  <2>2. Len(answer) = HeaderRead /\ Len(bs) = to_read - HeaderRead /\ to_read \in HeaderSize..MaxLength
    BY <1>3, NeededType DEF Place
  <2>3. answer' \in Seq(Bytes) /\ Len(answer') = Len(answer) + Len(bs)
    BY <2>1, ConcatProperties DEF Place
  <2>4. Len(answer') <= MaxLength
    BY <2>2, <2>3, Sizes
  <2> QED
    BY <2>1, <2>3, <2>4 DEF Place
<1>4. CASE pc \notin {"header", "rest"}
  BY <1>1, <1>4 DEF Parse, Return, Goto
<1> QED
  BY <1>2, <1>3, <1>4

LEMMA TakeKeeps ==
  ASSUME IInv, Take
  PROVE  IInv'
<1>1. /\ Place /\ Buffers /\ ~reading /\ UNCHANGED <<reading, chunk, buffer>>
      /\ Needed <= Len(buffer) - buffer_offset /\ buffer_offset' = buffer_offset + Needed
      /\ Parse(SubSeq(buffer, buffer_offset + 1, buffer_offset + Needed))
  BY DEF IInv, Take, Available
<1>2. Needed \in Nat /\ buffer_offset \in Nat /\ Len(buffer) \in Nat
  BY <1>1, NeededType, LenProperties DEF Buffers
<1> DEFINE n == Needed
           bs == SubSeq(buffer, buffer_offset + 1, buffer_offset + n)
<1>3. buffer_offset + n \in Nat /\ buffer_offset + n <= Len(buffer)
  BY <1>1, <1>2
<1>4. bs \in Seq(Bytes) /\ Len(bs) = n
  <2>1. buffer \in Seq(Bytes) /\ buffer_offset <= buffer_offset + n
    BY <1>1, <1>2 DEF Buffers
  <2>2. bs \in Seq(Bytes) /\ Len(bs) = (buffer_offset + n) - buffer_offset
    BY ONLY <1>2, <1>3, <2>1, Part
  <2> QED
    BY <1>2, <2>2
<1>5. Place'
  BY <1>1, <1>4, ParseKeeps
<1>6. Buffers'
  BY <1>1, <1>2, <1>3 DEF Buffers
<1>7. Reading'
  <2>1. reading' = FALSE
    BY <1>1 DEF IInv, Reading
  <2> QED
    BY <2>1 DEF Reading
<1>8. Counters'
  BY DEF IInv, Take, Counters, readerVars
<1> QED
  BY <1>5, <1>6, <1>7, <1>8 DEF IInv

LEMMA StartChunkKeeps ==
  ASSUME IInv, StartChunk
  PROVE  IInv'
<1>1. Counters' /\ Place'
  BY DEF IInv, StartChunk, Counters, Place, readerVars
<1>2. <<>> \in Seq(Bytes) /\ Len(<<>>) = 0
  BY EmptySeq
<1>3. Buffers'
  BY <1>2, Sizes DEF IInv, StartChunk, Buffers
<1>4. Reading'
  BY DEF IInv, StartChunk, Reading, Needed, Available
<1> QED
  BY <1>1, <1>3, <1>4 DEF IInv

\* A read gets no more bytes than the buffer has room for.
LEMMA ReadSomeKeeps ==
  ASSUME IInv, ReadSome
  PROVE  IInv'
<1>1. PICK k \in 1..Room :
        /\ k <= Len(line) /\ chunk' = chunk \o SubSeq(line, 1, k)
        /\ line' = SubSeq(line, k + 1, Len(line))
  BY DEF ReadSome
<1>2. /\ chunk \in Seq(Bytes) /\ line \in Seq(Bytes) /\ Len(chunk) \in Nat /\ Len(line) \in Nat
      /\ Room = MaxBuf - Len(chunk) /\ MaxBuf \in Nat
  BY Sizes, LenProperties DEF IInv, Buffers, Counters, Room
<1>3. k \in Nat /\ k <= MaxBuf - Len(chunk)
  BY <1>1, <1>2
<1>4. SubSeq(line, 0 + 1, k) \in Seq(Bytes) /\ Len(SubSeq(line, 0 + 1, k)) = k - 0
  BY <1>1, <1>2, <1>3, Part
<1>5. SubSeq(line, 1, k) \in Seq(Bytes) /\ Len(SubSeq(line, 1, k)) = k
  BY <1>3, <1>4
<1>6. chunk' \in Seq(Bytes) /\ Len(chunk') = Len(chunk) + k
  BY <1>1, <1>2, <1>5, ConcatProperties
<1>7. line' \in Seq(Bytes)
  BY <1>1, <1>2, <1>3, Part
<1>8. Counters'
  BY <1>7 DEF IInv, ReadSome, Counters
<1>9. Place'
  BY DEF IInv, ReadSome, Place, readVars
<1>10. Buffers'
  BY <1>2, <1>3, <1>6 DEF IInv, ReadSome, Buffers
<1>11. Reading'
  BY DEF IInv, ReadSome, Reading, readVars, Needed, Available
<1> QED
  BY <1>8, <1>9, <1>10, <1>11 DEF IInv

\* What is taken of the fresh bytes is no more than there are.
LEMMA EndChunkKeeps ==
  ASSUME IInv, EndChunk
  PROVE  IInv'
<1>1. /\ Place /\ Buffers /\ Len(chunk) >= Needed - Available /\ Needed > Available
      /\ Parse(SubSeq(buffer, buffer_offset + 1, Len(buffer)) \o SubSeq(chunk, 1, Needed - Available))
      /\ reading' = FALSE /\ chunk' = <<>> /\ buffer' = chunk
      /\ buffer_offset' = Needed - Available
  BY DEF IInv, EndChunk, Reading, FreshOffset
<1>2. /\ Needed \in Nat /\ buffer_offset \in 0..Len(buffer) /\ Len(buffer) \in Nat
      /\ Len(chunk) \in Nat /\ chunk \in Seq(Bytes) /\ buffer \in Seq(Bytes)
  BY <1>1, NeededType, LenProperties DEF Buffers
<1> DEFINE n == Needed
           k == n - Available
<1>3. k \in Nat /\ k <= Len(chunk) /\ k = n - (Len(buffer) - buffer_offset)
  BY <1>1, <1>2 DEF Available
<1> HIDE DEF k, n
<1>4. /\ SubSeq(buffer, buffer_offset + 1, Len(buffer)) \in Seq(Bytes)
      /\ Len(SubSeq(buffer, buffer_offset + 1, Len(buffer))) = Len(buffer) - buffer_offset
  <2>1. buffer_offset \in Nat /\ buffer_offset <= Len(buffer)
    BY <1>2
  <2> QED
    BY <1>2, <2>1, Part
<1>5. SubSeq(chunk, 1, k) \in Seq(Bytes) /\ Len(SubSeq(chunk, 1, k)) = k
  <2>1. SubSeq(chunk, 0 + 1, k) \in Seq(Bytes) /\ Len(SubSeq(chunk, 0 + 1, k)) = k - 0
    BY <1>2, <1>3, Part
  <2> QED
    BY <1>3, <2>1
<1> DEFINE bs == SubSeq(buffer, buffer_offset + 1, Len(buffer)) \o SubSeq(chunk, 1, k)
<1>6. bs \in Seq(Bytes) /\ Len(bs) = (Len(buffer) - buffer_offset) + k
  BY <1>4, <1>5, ConcatProperties
<1>7. Len(bs) = Needed
  <2>1. n \in Nat /\ n = Needed
    BY <1>2 DEF n
  <2> HIDE DEF bs
  <2> QED
    BY <1>2, <1>3, <1>6, <2>1
<1>8. Place'
  <2>1. Parse(bs)
    BY <1>1 DEF k, n
  <2> QED
    BY <1>1, <1>6, <1>7, <2>1, ParseKeeps
<1>9. Buffers'
  <2>1. <<>> \in Seq(Bytes) /\ Len(<<>>) = 0
    BY EmptySeq
  <2>2. buffer_offset' \in 0..Len(chunk)
    BY <1>1, <1>2, <1>3 DEF k, n
  <2> QED
    BY <1>1, <2>1, <2>2, Sizes DEF Buffers
<1>10. Reading'
  BY <1>1 DEF Reading
<1>11. Counters'
  BY DEF IInv, EndChunk, Counters, readerVars
<1> QED
  BY <1>8, <1>9, <1>10, <1>11 DEF IInv

\* ReadChunk fails: the offsets of the buffer are as before, and so is its length.
LEMMA FailChunkKeeps ==
  ASSUME IInv, FailChunk
  PROVE  Place' /\ Buffers' /\ Reading'
<1>1. /\ chunk \in Seq(Bytes) /\ buffer \in Seq(Bytes)
      /\ DOMAIN buffer = 1..Len(buffer) /\ Len(buffer) \in Nat
      /\ \A i \in DOMAIN buffer : buffer[i] \in Bytes
      /\ \A i \in DOMAIN chunk : chunk[i] \in Bytes
  BY LenProperties, ElementOfSeq DEF IInv, Buffers
<1>2. buffer' \in [1..Len(buffer) -> Bytes]
  BY <1>1 DEF FailChunk
<1>3. buffer' \in Seq(Bytes) /\ Len(buffer') = Len(buffer)
  BY <1>1, <1>2, AsSequence
<1>4. <<>> \in Seq(Bytes) /\ Len(<<>>) = 0
  BY EmptySeq
<1>5. Buffers'
  BY <1>3, <1>4, Sizes DEF IInv, Buffers, FailChunk
<1>6. Place'
  BY DEF IInv, Place, FailChunk, Return
<1> QED
  BY <1>5, <1>6 DEF Reading, FailChunk

-----------------------------------------------------------------------------
(* The caller, the reader and the line                                     *)

LEMMA CommandKeeps ==
  ASSUME IInv, Command
  PROVE  IInv'
<1>1. inStep' \in BOOLEAN
  <2>1. InStep \in BOOLEAN
    BY DEF InStep
  <2> QED
    BY <2>1 DEF IInv, Counters, Command
<1>2. Counters'
  BY <1>1 DEF IInv, Counters, Command
<1>3. Place'
  <2>1. <<>> \in Seq(Bytes) /\ Len(<<>>) = 0
    BY EmptySeq
  <2> QED
    BY <2>1, Sizes DEF IInv, Place, Command, Return
<1>4. Buffers'
  BY DEF IInv, Buffers, Command, portVars
<1>5. Reading'
  <2>1. reading = FALSE /\ reading' = reading
    BY DEF IInv, Reading, Command
  <2> QED
    BY <2>1 DEF Reading
<1> QED
  BY <1>2, <1>3, <1>4, <1>5 DEF IInv

\* The driver does not see what happens at the other end until it reads.
LEMMA OtherEnd ==
  ASSUME IInv, UNCHANGED <<readVars, portVars>>, Counters'
  PROVE  IInv'
<1>1. Place' /\ Buffers'
  BY DEF IInv, Place, Buffers, readVars, portVars
<1>2. Reading'
  BY DEF IInv, Reading, readVars, portVars, Needed, Available
<1> QED
  BY <1>1, <1>2 DEF IInv

LEMMA ReaderKeeps ==
  ASSUME IInv, Answer \/ Event \/ Lose \/ Garble \/ Unplug
  PROVE  IInv'
<1>0. Counters
  BY DEF IInv
<1>1. ASSUME NEW bytes \in Seq(Bytes), Sends(bytes), answered' \in Nat, answered' <= pbSeq
      PROVE  IInv'
  <2>1. line' \in Seq(Bytes)
    BY <1>0, <1>1, ConcatProperties DEF Sends, Counters
  <2>2. Counters'
    BY <1>0, <1>1, <2>1 DEF Sends, Counters
  <2> QED
    BY <1>1, <2>2, OtherEnd DEF Sends
<1>2. CASE Answer
  <2>1. answered' \in Nat /\ answered' <= pbSeq
    BY <1>0, <1>2 DEF Answer, Counters
  <2> QED
    BY <1>1, <1>2, <2>1, ReaderSendsBytes DEF Answer
<1>3. CASE Event
  <2>1. answered' \in Nat /\ answered' <= pbSeq
    BY <1>0, <1>3 DEF Event, Counters
  <2>2. 0 \in Nat
    OBVIOUS
  <2> QED
    BY <1>1, <1>3, <2>1, <2>2, ReaderSendsBytes DEF Event
<1>4. CASE Lose
  BY <1>0, <1>4, OtherEnd DEF Lose, Counters
<1>5. CASE Garble
  <2>1. PICK k \in DOMAIN line : line' = [line EXCEPT ![k].kind = "noise"]
    BY <1>5 DEF Garble
  <2>2. k \in 1..Len(line) /\ line[k] \in Bytes
    BY <1>0, LenProperties, ElementOfSeq DEF Counters
  <2>3. [line[k] EXCEPT !.kind = "noise"] \in Bytes
    BY <2>2 DEF Bytes
  <2>4. line' \in Seq(Bytes)
    BY <1>0, <2>1, <2>2, <2>3, ExceptSeq DEF Counters
  <2> QED
    BY <1>0, <1>5, <2>4, OtherEnd DEF Garble, Counters
<1>6. CASE Unplug
  <2>1. <<>> \in Seq(Bytes)
    BY EmptySeq
  <2> QED
    <3>1. Counters'
      <4>1. plugged' \in BOOLEAN /\ inStep' \in BOOLEAN
        BY <1>0, <1>6, Zenon DEF Unplug, Counters
      <4>2. answered' = pbSeq /\ pbSeq' = pbSeq /\ line' = <<>>
        BY <1>6, Zenon DEF Unplug
      <4> QED
        BY <1>0, <2>1, <4>1, <4>2 DEF Counters
    <3> QED
      BY <1>6, <3>1, OtherEnd DEF Unplug
<1> QED
  BY <1>2, <1>3, <1>4, <1>5, <1>6

-----------------------------------------------------------------------------

LEMMA FrameInit == Init => IInv
<1> SUFFICES ASSUME Init PROVE IInv
  OBVIOUS
<1>1. <<>> \in Seq(Bytes) /\ Len(<<>>) = 0 /\ 0 \in 0..0
  BY EmptySeq
<1>2. Counters
  BY <1>1 DEF Init, Counters
<1>3. Place
  BY <1>1, Sizes DEF Init, Place
<1>4. Buffers
  BY <1>1, Sizes DEF Init, Buffers
<1>5. Reading
  BY DEF Init, Reading
<1> QED
  BY <1>2, <1>3, <1>4, <1>5 DEF IInv

LEMMA FrameNext == IInv /\ [Next]_vars => IInv'
<1> SUFFICES ASSUME IInv, [Next]_vars PROVE IInv'
  OBVIOUS
<1>1. CASE Take \/ StartChunk \/ ReadSome \/ EndChunk
  BY <1>1, TakeKeeps, StartChunkKeeps, ReadSomeKeeps, EndChunkKeeps
<1>2. CASE Timeout
  <2>1. Counters'
    BY <1>2 DEF IInv, Counters, Timeout, readerVars
  <2> QED
    BY <1>2, <2>1, FailChunkKeeps DEF IInv, Timeout
<1>3. CASE Late
  <2>1. Counters'
    BY <1>3 DEF IInv, Counters, Late
  <2> QED
    BY <1>3, <2>1, FailChunkKeeps DEF IInv, Late
<1>4. CASE Command
  BY <1>4, CommandKeeps
<1>5. CASE Answer \/ Event \/ Lose \/ Garble \/ Unplug
  BY <1>5, ReaderKeeps
<1>6. CASE UNCHANGED vars
  <2>1. UNCHANGED <<readVars, portVars>> /\ Counters'
    BY <1>6 DEF vars, readerVars, IInv, Counters
  <2> QED
    BY <2>1, OtherEnd
<1> QED
  BY <1>1, <1>2, <1>3, <1>4, <1>5, <1>6 DEF Next, Driver

\* get_bytes, ReadChunk and ReadSerial: whatever bytes arrive, in whatever pieces, and
\* whichever reads fail, the offsets of the port's buffer stay inside it, ReadChunk
\* reads no more than it holds, and ReadSerial stores no more than its caller has room
\* for, for all sizes of both.
THEOREM BuffersHold == Spec => []TypeOK
<1>1. IInv => TypeOK
  BY DEF IInv, Counters, Place, Buffers, Reading, TypeOK
<1>2. Init /\ [][Next]_vars => []IInv
  BY FrameInit, FrameNext, PTL
<1> QED
  BY <1>1, <1>2, PTL DEF Spec

-----------------------------------------------------------------------------
(* Streams of whole units: frames, rejections, events                      *)

UnitSize(b) ==
    IF b.kind = "frame" THEN 3 + HeaderSize + b.size
    ELSE IF b.kind = "nak" THEN 3 ELSE IF b.kind = "event" THEN 2 ELSE 1

IsAnswer(b) == b.kind \in {"frame", "nak"}

\* The byte at position p of the same unit.
At(b, p) == [b EXCEPT !.pos = p]

\* Around each byte lies its unit, as far as the stream goes;
Whole(R) == \A k, l \in 1..Len(R) :
    l - k + R[k].pos \in 1..UnitSize(R[k]) => R[l] = At(R[k], l - k + R[k].pos)

\* the last unit is complete;
Complete(R) == \A k \in 1..Len(R) : k - R[k].pos + UnitSize(R[k]) <= Len(R)

\* and so is the first.
Begins(R) == \A k \in 1..Len(R) : R[k].pos <= k

Sound(R) == \A k \in 1..Len(R) : R[k].kind # "noise"

First(b) == IsAnswer(b) /\ b.pos = 1

LEMMA ByteFacts ==
  ASSUME NEW b \in Bytes, b.kind # "noise"
  PROVE  /\ b.pos \in Nat /\ b.size \in Nat /\ b.cmd \in Nat
         /\ UnitSize(b) \in Nat /\ b.pos \in 1..UnitSize(b)
         /\ \A p : /\ At(b, p).kind = b.kind /\ At(b, p).cmd = b.cmd /\ At(b, p).size = b.size
                   /\ At(b, p).pos = p /\ UnitSize(At(b, p)) = UnitSize(b)
         /\ At(b, b.pos) = b
<1>1. /\ b \in [kind : {"frame", "nak", "event", "time", "noise"}, cmd : Nat, pos : Nat, size : Nat]
      /\ b.kind = "frame" => b.size \in DataSizes /\ b.pos \in 1..3 + HeaderSize + b.size
      /\ b.kind = "nak" => b.pos \in 1..3 /\ b.size = 0
      /\ b.kind = "event" => b.pos \in 1..2 /\ b.size = 0 /\ b.cmd = 0
      /\ b.kind = "time" => b.pos = 1 /\ b.size = 0 /\ b.cmd = 0
  BY DEF Bytes
<1>2. b.pos \in Nat /\ b.size \in Nat /\ b.cmd \in Nat
  BY <1>1
<1>3. UnitSize(b) \in Nat
  BY <1>2, Sizes DEF UnitSize
<1>4. b.pos \in 1..UnitSize(b)
  BY <1>1, <1>2, Sizes DEF UnitSize
<1>5. ASSUME NEW p
      PROVE  /\ At(b, p).kind = b.kind /\ At(b, p).cmd = b.cmd /\ At(b, p).size = b.size
             /\ At(b, p).pos = p
  BY <1>1 DEF At
<1>6. \A p : UnitSize(At(b, p)) = UnitSize(b)
  BY <1>5 DEF UnitSize
<1>7. At(b, b.pos) = b
  BY <1>1 DEF At
<1> QED
  BY <1>2, <1>3, <1>4, <1>5, <1>6, <1>7

\* What follows the end of a unit begins another.
LEMMA NextBegins ==
  ASSUME NEW R \in Seq(Bytes), Sound(R), Whole(R), NEW k \in 1..Len(R),
         R[k].pos = UnitSize(R[k]), k + 1 \in 1..Len(R)
  PROVE  R[k + 1].pos = 1
<1> DEFINE b == R[k]
           c == R[k + 1]
<1>1. b \in Bytes /\ c \in Bytes /\ b.kind # "noise" /\ c.kind # "noise"
  BY ElementOfSeq DEF Sound
<1>2. /\ c.pos \in 1..UnitSize(c) /\ UnitSize(c) \in Nat /\ b.pos \in Nat /\ k \in Nat
      /\ \A p : At(c, p).pos = p /\ UnitSize(At(c, p)) = UnitSize(c)
  BY <1>1, ByteFacts
<1>3. k - (k + 1) + c.pos = c.pos - 1
  BY <1>2
<1> SUFFICES ASSUME c.pos # 1 PROVE FALSE
  OBVIOUS
<1>4. c.pos - 1 \in 1..UnitSize(c)
  BY <1>2
<1>5. R[k] = At(c, c.pos - 1)
  BY <1>3, <1>4 DEF Whole
<1> HIDE DEF c
<1>6. b.pos = c.pos - 1 /\ UnitSize(b) = UnitSize(c) /\ b.pos = UnitSize(b)
  BY <1>2, <1>5
<1> HIDE DEF b
<1> DEFINE q == c.pos
           u == UnitSize(c)
<1>7. q \in 1..u /\ u \in Nat /\ u = q - 1
  BY <1>2, <1>6
<1> HIDE DEF q, u
<1> QED
  BY ONLY <1>7

\* Without the first byte of an answer all bytes of answers are of the unit the
\* stream begins with.
LEMMA SameUnit ==
  ASSUME NEW R \in Seq(Bytes), Sound(R), Whole(R), \A k \in 1..Len(R) : ~First(R[k]),
         NEW k \in 1..Len(R), IsAnswer(R[k])
  PROVE  /\ R[1].pos = 1 - k + R[k].pos /\ R[1].kind = R[k].kind
         /\ UnitSize(R[1]) = UnitSize(R[k]) /\ R[1].pos \in 2..UnitSize(R[1])
         /\ 1 \in 1..Len(R)
<1> DEFINE b == R[k]
           p == 1 - k + b.pos
<1>1. /\ b \in Bytes /\ b.kind # "noise" /\ Len(R) \in Nat /\ k \in Nat /\ 1 <= k /\ k <= Len(R)
  BY ElementOfSeq, LenProperties DEF Sound
<1>2. /\ b.pos \in 1..UnitSize(b) /\ UnitSize(b) \in Nat /\ b.pos \in Nat
      /\ \A q : At(b, q).pos = q /\ UnitSize(At(b, q)) = UnitSize(b) /\ At(b, q).kind = b.kind
  BY <1>1, ByteFacts
<1>3. CASE p < 2
  <2> DEFINE l == k - b.pos + 1
  <2>1. l \in 1..Len(R) /\ l - k + b.pos = 1 /\ 1 \in 1..UnitSize(b)
    <3> DEFINE q == b.pos
               u == UnitSize(b)
               m == Len(R)
    <3>1. /\ q \in 1..u /\ u \in Nat /\ q \in Nat /\ m \in Nat /\ k \in Nat /\ 1 <= k /\ k <= m
          /\ 1 - k + q < 2
      BY <1>1, <1>2, <1>3
    <3> HIDE DEF q, u, m
    <3>2. k - q + 1 \in 1..m /\ (k - q + 1) - k + q = 1 /\ 1 \in 1..u
      BY ONLY <3>1
    <3> QED
      BY <3>2 DEF q, u, m
  <2> HIDE DEF l
  <2>2. R[l] = At(b, 1)
    BY <2>1 DEF Whole
  <2> HIDE DEF b
  <2>3. First(R[l])
    BY <1>2, <2>2 DEF First, IsAnswer, b
  <2> QED
    BY <2>1, <2>3
<1>4. CASE p >= 2
  <2>1. p \in 1..UnitSize(b) /\ 1 \in 1..Len(R)
    BY <1>1, <1>2, <1>4
  <2>2. R[1] = At(b, p)
    BY <2>1 DEF Whole
  <2> HIDE DEF b, p
  <2>3. R[1].pos = p /\ UnitSize(R[1]) = UnitSize(b) /\ R[1].kind = b.kind
    BY <1>2, <2>2
  <2> QED
    BY <1>1, <1>2, <1>4, <2>1, <2>3 DEF b, p
<1> QED
  BY <1>1, <1>2, <1>3, <1>4

\* A stream of which the first n bytes are taken,
LEMMA WithoutBeginning ==
  ASSUME NEW R \in Seq(Bytes), NEW S \in Seq(Bytes), NEW n \in Nat, n <= Len(R),
         Len(S) = Len(R) - n, \A k \in 1..Len(S) : S[k] = R[n + k],
         Sound(R), Whole(R)
  PROVE  Sound(S) /\ Whole(S) /\ (Complete(R) => Complete(S))
<1>1. /\ Len(R) \in Nat /\ Len(S) \in Nat
      /\ \A k \in 1..Len(S) : n + k \in 1..Len(R) /\ S[k] = R[n + k]
  BY LenProperties
<1>2. Sound(S)
  BY <1>1 DEF Sound
<1>3. \A k \in 1..Len(S) : S[k].pos \in Nat /\ UnitSize(S[k]) \in Nat
  <2>1. \A k \in 1..Len(S) : S[k] \in Bytes /\ S[k].kind # "noise"
    BY <1>2, ElementOfSeq DEF Sound
  <2> QED
    BY <2>1, ByteFacts
<1>4. Whole(S)
  <2> SUFFICES ASSUME NEW k \in 1..Len(S), NEW l \in 1..Len(S),
                      l - k + S[k].pos \in 1..UnitSize(S[k])
               PROVE  S[l] = At(S[k], l - k + S[k].pos)
    BY DEF Whole
  <2>1. (n + l) - (n + k) + S[k].pos = l - k + S[k].pos
    BY <1>3
  <2>2. n + k \in 1..Len(R) /\ n + l \in 1..Len(R) /\ S[k] = R[n + k] /\ S[l] = R[n + l]
    BY <1>1
  <2>3. (n + l) - (n + k) + R[n + k].pos \in 1..UnitSize(R[n + k])
    BY <2>1, <2>2
  <2>4. R[n + l] = At(R[n + k], (n + l) - (n + k) + R[n + k].pos)
    BY <2>2, <2>3 DEF Whole
  <2> QED
    BY <2>1, <2>2, <2>4
<1>5. ASSUME Complete(R) PROVE Complete(S)
  <2> SUFFICES ASSUME NEW k \in 1..Len(S) PROVE k - S[k].pos + UnitSize(S[k]) <= Len(S)
    BY DEF Complete
  <2>1. (n + k) - S[k].pos + UnitSize(S[k]) <= Len(R)
    <3>1. n + k \in 1..Len(R) /\ S[k] = R[n + k]
      BY <1>1
    <3>2. (n + k) - R[n + k].pos + UnitSize(R[n + k]) <= Len(R)
      BY <1>5, <3>1 DEF Complete
    <3> QED
      BY <3>1, <3>2, Zenon
  <2>2. S[k].pos \in Nat /\ UnitSize(S[k]) \in Nat
    BY <1>3
  <2> QED
    BY <1>1, <2>1, <2>2, SMTT(30)
<1> QED
  BY <1>2, <1>4, <1>5

\* a stream that is cut off,
LEMMA CutOff ==
  ASSUME NEW R \in Seq(Bytes), NEW S \in Seq(Bytes), Len(S) <= Len(R),
         \A k \in 1..Len(S) : S[k] = R[k], Sound(R), Whole(R)
  PROVE  Sound(S) /\ Whole(S)
<1>1. Len(R) \in Nat /\ Len(S) \in Nat /\ \A k \in 1..Len(S) : k \in 1..Len(R)
  BY LenProperties
<1> QED
  BY <1>1 DEF Sound, Whole

\* and one to which a whole unit comes.
LEMMA WithUnit ==
  ASSUME NEW R \in Seq(Bytes), NEW U \in Seq(Bytes), NEW S \in Seq(Bytes), S = R \o U,
         Sound(R), Whole(R), Complete(R), Sound(U), Whole(U), Complete(U), Begins(U)
  PROVE  Sound(S) /\ Whole(S) /\ Complete(S)
<1> DEFINE n == Len(R)
           m == Len(U)
<1>1. /\ n \in Nat /\ m \in Nat /\ Len(S) = n + m
      /\ \A k \in 1..n : S[k] = R[k]
      /\ \A k \in 1..m : S[n + k] = U[k]
  BY LenProperties, ConcatProperties
<1>2. \A k \in 1..Len(S) : k \in 1..n \/ (k - n \in 1..m /\ k = n + (k - n) /\ S[k] = U[k - n])
  BY <1>1
<1>3. Sound(S)
  BY <1>1, <1>2 DEF Sound
<1>4. \A k \in 1..Len(S) : S[k].pos \in Nat /\ UnitSize(S[k]) \in Nat /\ S[k].pos >= 1
  <2>1. \A k \in 1..Len(S) : S[k] \in Bytes /\ S[k].kind # "noise"
    BY <1>3, ElementOfSeq DEF Sound
  <2> QED
    BY <2>1, ByteFacts
<1> HIDE DEF n, m
<1>5. ASSUME NEW k \in 1..n PROVE k - S[k].pos + UnitSize(S[k]) <= n
  BY <1>1, <1>5 DEF Complete, n
<1>6. ASSUME NEW k \in 1..Len(S), k \notin 1..n
      PROVE  /\ k - n \in 1..m /\ S[k] = U[k - n] /\ S[k].pos <= k - n
             /\ (k - n) - S[k].pos + UnitSize(S[k]) <= m
  <2>1. k - n \in 1..m /\ S[k] = U[k - n]
    BY <1>2, <1>6
  <2>2. U[k - n].pos <= k - n /\ (k - n) - U[k - n].pos + UnitSize(U[k - n]) <= m
    BY <2>1 DEF Begins, Complete, m
  <2> QED
    BY <2>1, <2>2
<1>7. Complete(S)
  <2> SUFFICES ASSUME NEW k \in 1..Len(S) PROVE k - S[k].pos + UnitSize(S[k]) <= Len(S)
    BY DEF Complete
  <2> DEFINE p == S[k].pos
             u == UnitSize(S[k])
  <2>1. p \in Nat /\ u \in Nat /\ k \in Nat /\ Len(S) = n + m /\ n \in Nat /\ m \in Nat
    BY <1>1, <1>4, SMTT(30)
  <2>2. k - p + u <= n \/ (k - n) - p + u <= m
    BY <1>5, <1>6
  <2> HIDE DEF p, u
  <2>3. k - p + u <= Len(S)
    BY ONLY <2>1, <2>2
  <2> QED
    BY <2>3 DEF p, u
<1>8. Whole(S)
  <2> SUFFICES ASSUME NEW k \in 1..Len(S), NEW l \in 1..Len(S),
                      l - k + S[k].pos \in 1..UnitSize(S[k])
               PROVE  S[l] = At(S[k], l - k + S[k].pos)
    BY DEF Whole
  <2>1. CASE k \in 1..n
    <3>1. l \in 1..n
      <4> DEFINE p == S[k].pos
                 u == UnitSize(S[k])
      <4>1. p \in Nat /\ u \in Nat /\ k \in Nat /\ l \in Nat /\ 1 <= l /\ n \in Nat
        <5>1. p \in Nat /\ u \in Nat
          BY <1>4
        <5>2. k \in Nat /\ l \in Nat /\ 1 <= l /\ n \in Nat
          BY <1>1
        <5> QED
          BY <5>1, <5>2
      <4>2. k - p + u <= n /\ l - k + p \in 1..u
        BY <1>5, <2>1
      <4> HIDE DEF p, u
      <4> QED
        BY ONLY <4>1, <4>2
    <3>2. S[k] = R[k] /\ S[l] = R[l]
      BY <1>1, <2>1, <3>1
    <3> QED
      BY <2>1, <3>1, <3>2 DEF Whole, n
  <2>2. CASE k \notin 1..n
    <3>1. k - n \in 1..m /\ S[k] = U[k - n] /\ S[k].pos <= k - n
      BY <1>6, <2>2
    <3>2. l \notin 1..n
      <4> DEFINE p == S[k].pos
                 u == UnitSize(S[k])
      <4>1. p \in Nat /\ u \in Nat /\ k \in Nat /\ l \in Nat /\ n \in Nat
        <5>1. p \in Nat /\ u \in Nat
          BY <1>4
        <5>2. k \in Nat /\ l \in Nat /\ n \in Nat
          BY <1>1
        <5> QED
          BY <5>1, <5>2
      <4>2. p <= k - n /\ l - k + p \in 1..u
        BY <3>1
      <4> HIDE DEF p, u
      <4> QED
        BY ONLY <4>1, <4>2
    <3>3. l - n \in 1..m /\ S[l] = U[l - n]
      BY <1>6, <3>2
    <3>4. (l - n) - (k - n) + S[k].pos = l - k + S[k].pos
      BY <1>1, <1>4
    <3> QED
      BY <3>1, <3>3, <3>4 DEF Whole, m
  <2> QED
    BY <2>1, <2>2
<1> QED
  BY <1>3, <1>7, <1>8

-----------------------------------------------------------------------------
(* What has arrived and ReadSerial has not taken                           *)

RestOf(b, o, c, l) == SubSeq(b, o + 1, Len(b)) \o c \o l

Rest == RestOf(buffer, buffer_offset, chunk, line)

\* Its bytes: of the m bytes of b after offset o, of c, and of l.
Joined(r, b, o, m, c, l) ==
    /\ r \in Seq(Bytes) /\ Len(r) = m + Len(c) + Len(l) /\ Len(r) \in Nat
    /\ \A k \in 1..Len(r) :
         r[k] = IF k <= m THEN b[o + k] ELSE IF k - m <= Len(c) THEN c[k - m] ELSE l[k - m - Len(c)]

LEMMA RestParts ==
  ASSUME NEW b \in Seq(Bytes), NEW o \in 0..Len(b), NEW c \in Seq(Bytes), NEW l \in Seq(Bytes),
         NEW m, m = Len(b) - o
  PROVE  Joined(RestOf(b, o, c, l), b, o, m, c, l)
<1> DEFINE p == SubSeq(b, o + 1, Len(b))
           r == RestOf(b, o, c, l)
<1>1. /\ Len(b) \in Nat /\ Len(c) \in Nat /\ Len(l) \in Nat /\ o \in Nat /\ o <= Len(b)
      /\ m \in Nat
  BY LenProperties
<1>2. p \in Seq(Bytes) /\ Len(p) = m
  BY <1>1, Part
<1>3. \A k \in 1..m : p[k] = b[o + k]
  <2>1. \A k \in o + 1 .. Len(b) : b[k] \in Bytes
    BY <1>1, ElementOfSeq
  <2>2. \A k \in 1 .. Len(b) - (o + 1) + 1 : p[k] = b[(o + 1) + k - 1]
    BY <1>1, <2>1, SubSeqProperties
  <2> QED
    BY <1>1, <2>2
<1> HIDE DEF p
<1>4. /\ p \o c \in Seq(Bytes) /\ Len(p \o c) = m + Len(c)
      /\ \A k \in 1..m + Len(c) : (p \o c)[k] = IF k <= m THEN p[k] ELSE c[k - m]
  <2>1. /\ p \o c \in Seq(Bytes) /\ Len(p \o c) = Len(p) + Len(c)
        /\ \A k \in 1..Len(p) + Len(c) :
             (p \o c)[k] = IF k <= Len(p) THEN p[k] ELSE c[k - Len(p)]
    BY <1>2, ConcatProperties
  <2> QED
    BY <1>2, <2>1
<1> DEFINE q == p \o c
           r1 == q \o l
<1>5. /\ q \in Seq(Bytes) /\ Len(q) = m + Len(c)
      /\ \A k \in 1..m + Len(c) : q[k] = IF k <= m THEN p[k] ELSE c[k - m]
  BY <1>4
<1> HIDE DEF q
<1>6. /\ r1 \in Seq(Bytes) /\ Len(r1) = Len(q) + Len(l)
      /\ \A k \in 1..Len(q) + Len(l) : r1[k] = IF k <= Len(q) THEN q[k] ELSE l[k - Len(q)]
  BY <1>5, ConcatProperties
<1>7. r = r1
  BY DEF RestOf, p, q
<1> HIDE DEF r1, r
<1>8. r \in Seq(Bytes) /\ Len(r) = m + Len(c) + Len(l) /\ Len(r) \in Nat
  BY <1>1, <1>5, <1>6, <1>7
<1>9. ASSUME NEW k \in 1..Len(r)
      PROVE  r[k] = IF k <= m THEN b[o + k] ELSE IF k - m <= Len(c) THEN c[k - m] ELSE l[k - m - Len(c)]
  <2>1. k \in Nat /\ 1 <= k /\ k <= m + Len(c) + Len(l)
    BY <1>8
  <2>2. CASE k <= m
    <3>1. k \in 1..m /\ k \in 1..m + Len(c) /\ k \in 1..Len(q) + Len(l) /\ k <= Len(q)
      BY <1>1, <1>5, <2>1, <2>2
    <3> QED
      BY <1>3, <1>5, <1>6, <1>7, <2>2, <3>1
  <2>3. CASE ~(k <= m) /\ k - m <= Len(c)
    BY <1>1, <1>5, <1>6, <1>7, <2>1, <2>3
  <2>4. CASE ~(k <= m) /\ ~(k - m <= Len(c))
    <3>1. ~(k <= Len(q)) /\ k - Len(q) = k - m - Len(c) /\ k \in 1..Len(q) + Len(l)
      BY <1>1, <1>5, <2>1, <2>4
    <3> QED
      BY <1>6, <1>7, <2>4, <3>1
  <2> QED
    BY <2>2, <2>3, <2>4
<1>10. Joined(r, b, o, m, c, l)
  BY <1>8, <1>9 DEF Joined
<1> QED
  BY <1>10 DEF r

\* bs are the first n bytes of R, and S is what follows them.
Consumes(bs, n, R, S) ==
    /\ R \in Seq(Bytes) /\ S \in Seq(Bytes) /\ bs \in Seq(Bytes)
    /\ n \in Nat /\ n <= Len(R) /\ Len(bs) = n /\ Len(S) = Len(R) - n
    /\ \A k \in 1..n : bs[k] = R[k]
    /\ \A k \in 1..Len(S) : S[k] = R[n + k]

LEMMA SubSeqParts ==
  ASSUME NEW s \in Seq(Bytes), NEW m \in Nat, NEW n \in Nat, n <= Len(s), m <= n
  PROVE  /\ SubSeq(s, m + 1, n) \in Seq(Bytes) /\ Len(SubSeq(s, m + 1, n)) = n - m
         /\ \A k \in 1..n - m : SubSeq(s, m + 1, n)[k] = s[m + k]
<1>1. \A k \in m + 1 .. n : s[k] \in Bytes
  BY LenProperties, ElementOfSeq
<1>2. \A k \in 1 .. n - (m + 1) + 1 : SubSeq(s, m + 1, n)[k] = s[(m + 1) + k - 1]
  BY <1>1, SubSeqProperties
<1>3. ASSUME NEW k \in 1..n - m PROVE SubSeq(s, m + 1, n)[k] = s[m + k]
  BY <1>2
<1> QED
  BY <1>3, Part

\* get_bytes takes n bytes from the buffer of the port,
LEMMA TakeParts ==
  ASSUME NEW b \in Seq(Bytes), NEW o \in 0..Len(b), NEW c \in Seq(Bytes), NEW l \in Seq(Bytes),
         NEW n \in Nat, n <= Len(b) - o
  PROVE  Consumes(SubSeq(b, o + 1, o + n), n, RestOf(b, o, c, l), RestOf(b, o + n, c, l))
<1> DEFINE R == RestOf(b, o, c, l)
           S == RestOf(b, o + n, c, l)
           bs == SubSeq(b, o + 1, o + n)
           m == Len(b) - o
<1>1. /\ Len(b) \in Nat /\ Len(c) \in Nat /\ Len(l) \in Nat /\ o \in Nat /\ o <= Len(b)
      /\ o + n \in 0..Len(b) /\ Len(b) - (o + n) = m - n /\ m \in Nat /\ n <= m
  BY LenProperties
<1>2. /\ R \in Seq(Bytes) /\ Len(R) = m + Len(c) + Len(l) /\ Len(R) \in Nat
      /\ \A k \in 1..Len(R) :
           R[k] = IF k <= m THEN b[o + k] ELSE IF k - m <= Len(c) THEN c[k - m] ELSE l[k - m - Len(c)]
  <2>1. Joined(R, b, o, m, c, l)
    BY <1>1, RestParts
  <2> QED
    BY <2>1 DEF Joined
<1>3. /\ S \in Seq(Bytes) /\ Len(S) = (m - n) + Len(c) + Len(l) /\ Len(S) \in Nat
      /\ \A k \in 1..Len(S) :
           S[k] = IF k <= m - n THEN b[(o + n) + k]
                  ELSE IF k - (m - n) <= Len(c) THEN c[k - (m - n)] ELSE l[k - (m - n) - Len(c)]
  <2>1. Joined(S, b, o + n, m - n, c, l)
    BY <1>1, RestParts
  <2> QED
    BY <2>1 DEF Joined
<1>4. bs \in Seq(Bytes) /\ Len(bs) = n /\ \A k \in 1..n : bs[k] = b[o + k]
  <2> DEFINE x == o + n
  <2>1. x \in Nat /\ o <= x /\ x <= Len(b) /\ x - o = n
    BY <1>1
  <2> HIDE DEF x
  <2>2. /\ SubSeq(b, o + 1, x) \in Seq(Bytes) /\ Len(SubSeq(b, o + 1, x)) = x - o
        /\ \A k \in 1..x - o : SubSeq(b, o + 1, x)[k] = b[o + k]
    BY <1>1, <2>1, SubSeqParts, ZenonT(60)
  <2> QED
    BY <2>1, <2>2 DEF x
<1> HIDE DEF R, S, bs, m
<1>5. \A k \in 1..n : bs[k] = R[k]
  BY <1>1, <1>2, <1>4
<1>6. ASSUME NEW k \in 1..Len(S) PROVE S[k] = R[n + k]
  <2>0. /\ Len(S) = (m - n) + Len(c) + Len(l) /\ Len(R) = m + Len(c) + Len(l)
        /\ Len(c) \in Nat /\ Len(l) \in Nat /\ m \in Nat /\ n <= m
    BY <1>1, <1>2, <1>3
  <2>1. k \in Nat /\ 1 <= k /\ k <= (m - n) + Len(c) + Len(l) /\ n + k \in 1..Len(R)
    BY <2>0
  <2>2. /\ (k <= m - n <=> n + k <= m) /\ (o + n) + k = o + (n + k)
        /\ k - (m - n) = (n + k) - m
    BY <1>1, <2>1
  <2> QED
    BY <1>2, <1>3, <2>1, <2>2
<1>7. Consumes(bs, n, R, S)
  BY <1>1, <1>2, <1>3, <1>4, <1>5, <1>6 DEF Consumes
<1> QED
  BY <1>7 DEF R, S, bs

\* or all that is left there and some of the fresh bytes, which come to lie in that buffer.
LEMMA EndParts ==
  ASSUME NEW b \in Seq(Bytes), NEW o \in 0..Len(b), NEW c \in Seq(Bytes), NEW l \in Seq(Bytes),
         NEW j \in Nat, j <= Len(c)
  PROVE  Consumes(SubSeq(b, o + 1, Len(b)) \o SubSeq(c, 1, j), (Len(b) - o) + j,
                  RestOf(b, o, c, l), RestOf(c, j, <<>>, l))
<1> DEFINE R == RestOf(b, o, c, l)
           S == RestOf(c, j, <<>>, l)
           p == SubSeq(b, o + 1, Len(b))
           q == SubSeq(c, 1, j)
           bs == p \o q
           m == Len(b) - o
<1>1. /\ Len(b) \in Nat /\ Len(c) \in Nat /\ Len(l) \in Nat /\ o \in Nat /\ o <= Len(b)
      /\ m \in Nat /\ j \in 0..Len(c)
  BY LenProperties
<1>2. /\ R \in Seq(Bytes) /\ Len(R) = m + Len(c) + Len(l) /\ Len(R) \in Nat
      /\ \A k \in 1..Len(R) :
           R[k] = IF k <= m THEN b[o + k] ELSE IF k - m <= Len(c) THEN c[k - m] ELSE l[k - m - Len(c)]
  <2>1. Joined(R, b, o, m, c, l)
    BY <1>1, RestParts
  <2> QED
    BY <2>1 DEF Joined
<1>3. /\ S \in Seq(Bytes) /\ Len(S) = (Len(c) - j) + Len(l) /\ Len(S) \in Nat
      /\ \A k \in 1..Len(S) :
           S[k] = IF k <= Len(c) - j THEN c[j + k] ELSE l[k - (Len(c) - j)]
  <2> DEFINE e == <<>>
             x == Len(c) - j
  <2>1. e \in Seq(Bytes) /\ Len(e) = 0 /\ x \in Nat
    BY <1>1, EmptySeq
  <2>2. Joined(S, c, j, x, e, l)
    BY <1>1, <2>1, RestParts
  <2> HIDE DEF e, x, S
  <2>3. /\ S \in Seq(Bytes) /\ Len(S) = x + Len(e) + Len(l) /\ Len(S) \in Nat
        /\ \A k \in 1..Len(S) :
           S[k] = IF k <= x THEN c[j + k]
                  ELSE IF k - x <= Len(e) THEN e[k - x] ELSE l[k - x - Len(e)]
    BY <2>2 DEF Joined
  <2>4. \A k \in 1..Len(S) : ~(k <= x) => ~(k - x <= Len(e)) /\ k - x - Len(e) = k - x
    BY <2>1, <2>3
  <2>5. /\ S \in Seq(Bytes) /\ Len(S) = x + Len(l) /\ Len(S) \in Nat
        /\ \A k \in 1..Len(S) : S[k] = IF k <= x THEN c[j + k] ELSE l[k - x]
    BY <1>1, <2>1, <2>3, <2>4
  <2> QED
    BY <2>5 DEF x
<1>4. p \in Seq(Bytes) /\ Len(p) = m /\ \A k \in 1..m : p[k] = b[o + k]
  BY <1>1, SubSeqParts
<1>5. q \in Seq(Bytes) /\ Len(q) = j /\ \A k \in 1..j : q[k] = c[k]
  <2>1. /\ SubSeq(c, 0 + 1, j) \in Seq(Bytes) /\ Len(SubSeq(c, 0 + 1, j)) = j - 0
        /\ \A k \in 1..j - 0 : SubSeq(c, 0 + 1, j)[k] = c[0 + k]
    BY <1>1, SubSeqParts
  <2>2. 0 + 1 = 1 /\ j - 0 = j /\ \A k \in 1..j : 0 + k = k
    OBVIOUS
  <2> QED
    BY <2>1, <2>2
<1> HIDE DEF R, S, p, q, m
<1>6. /\ bs \in Seq(Bytes) /\ Len(bs) = m + j
      /\ \A k \in 1..m + j : bs[k] = IF k <= m THEN p[k] ELSE q[k - m]
  BY <1>4, <1>5, ConcatProperties, ZenonT(60)
<1> HIDE DEF bs
<1>7. ASSUME NEW k \in 1..m + j PROVE bs[k] = R[k]
  <2>1. k \in Nat /\ 1 <= k /\ k \in 1..Len(R)
    BY <1>1, <1>2
  <2>2. CASE k <= m
    <3>1. k \in 1..m /\ k \in 1..m + j
      BY <1>1, <2>1, <2>2
    <3> QED
      BY <1>2, <1>4, <1>6, <2>1, <2>2, <3>1
  <2>3. CASE ~(k <= m)
    <3>1. k - m \in 1..j /\ k - m <= Len(c)
      BY <1>1, <2>1, <2>3
    <3> QED
      BY <1>2, <1>5, <1>6, <2>1, <2>3, <3>1
  <2> QED
    BY <2>2, <2>3
<1>8. ASSUME NEW k \in 1..Len(S) PROVE S[k] = R[(m + j) + k]
  <2>1. /\ k \in Nat /\ 1 <= k /\ (m + j) + k \in 1..Len(R) /\ ~((m + j) + k <= m)
        /\ ((m + j) + k) - m = j + k
    BY <1>1, <1>2, <1>3
  <2>2. CASE k <= Len(c) - j
    <3>1. j + k <= Len(c)
      BY <1>1, <2>1, <2>2
    <3> DEFINE i == (m + j) + k
    <3>2. R[i] = c[i - m]
      BY <1>2, <2>1, <3>1
    <3> QED
      BY <1>3, <2>1, <2>2, <3>2
  <2>3. CASE ~(k <= Len(c) - j)
    <3>1. ~(j + k <= Len(c)) /\ (j + k) - Len(c) = k - (Len(c) - j)
      BY <1>1, <2>1, <2>3
    <3> QED
      BY <1>2, <1>3, <2>1, <2>3, <3>1
  <2> QED
    BY <2>2, <2>3
<1>9. m + j \in Nat /\ m + j <= Len(R) /\ Len(S) = Len(R) - (m + j)
  BY <1>1, <1>2, <1>3
<1>10. Consumes(bs, m + j, R, S)
  BY <1>2, <1>3, <1>6, <1>7, <1>8, <1>9 DEF Consumes
<1> QED
  BY <1>10 DEF R, S, bs, p, q, m

-----------------------------------------------------------------------------
(* Taking bytes from the stream                                            *)

\* Of bytes taken that are all of one unit it is known which they are, what follows
\* them, and that something does unless the unit ends or is cut off.
LEMMA After ==
  ASSUME NEW R, NEW S, NEW bs, NEW n, Consumes(bs, n, R, S), Sound(R), Whole(R), n > 0,
         n - 1 + R[1].pos <= UnitSize(R[1])
  PROVE  /\ Len(R) > 0 /\ R[1] \in Bytes /\ R[1].kind # "noise"
         /\ \A k \in 1..n : bs[k] = At(R[1], k - 1 + R[1].pos)
         /\ n + R[1].pos <= UnitSize(R[1]) /\ Len(S) > 0 => S[1] = At(R[1], n + R[1].pos)
         /\ n + R[1].pos <= UnitSize(R[1]) /\ Complete(R) => Len(S) > 0
         /\ n + R[1].pos > UnitSize(R[1]) /\ Len(S) > 0 => S[1].pos = 1
<1> DEFINE p == R[1].pos
           u == UnitSize(R[1])
           m == Len(R)
<1>1. /\ R \in Seq(Bytes) /\ S \in Seq(Bytes) /\ n \in Nat /\ n <= m /\ Len(S) = m - n /\ m \in Nat
      /\ \A k \in 1..n : bs[k] = R[k]
      /\ \A k \in 1..Len(S) : S[k] = R[n + k]
  BY LenProperties DEF Consumes
<1>2. 1 \in 1..m /\ m > 0
  BY <1>1
<1>3. R[1] \in Bytes /\ R[1].kind # "noise"
  BY <1>1, <1>2, ElementOfSeq DEF Sound
<1>4. p \in Nat /\ u \in Nat /\ p \in 1..u /\ (\A q : At(R[1], q).pos = q /\ UnitSize(At(R[1], q)) = u)
  BY <1>3, ByteFacts
<1>5. n - 1 + p <= u
  OBVIOUS
<1>6. ASSUME NEW l \in 1..m, l - 1 + p <= u PROVE R[l] = At(R[1], l - 1 + p)
  <2>1. l - 1 + p \in 1..u
    BY <1>4, <1>6
  <2> QED
    BY <1>2, <2>1 DEF Whole
<1> HIDE DEF p, u, m
<1>7. ASSUME NEW k \in 1..n PROVE bs[k] = At(R[1], k - 1 + p)
  <2>1. k \in 1..m /\ k - 1 + p <= u
    BY <1>1, <1>4, <1>5
  <2> QED
    BY <1>1, <1>6, <2>1
<1>8. ASSUME n + p <= u, Len(S) > 0 PROVE S[1] = At(R[1], n + p)
  <2>0. n \in Nat /\ m \in Nat /\ p \in Nat /\ Len(S) = m - n
    BY <1>1, <1>4
  <2>1. n + 1 \in 1..m /\ (n + 1) - 1 + p = n + p /\ 1 \in 1..Len(S)
    BY <1>8, <2>0
  <2> QED
    BY <1>1, <1>6, <1>8, <2>1
<1>9. ASSUME n + p <= u, Complete(R) PROVE Len(S) > 0
  <2>1. 1 - p + u <= m
    BY <1>2, <1>9 DEF Complete, p, u, m
  <2> QED
    BY <1>1, <1>4, <1>9, <2>1
<1>10. ASSUME n + p > u, Len(S) > 0 PROVE S[1].pos = 1
  <2>1. /\ n \in 1..m /\ n + 1 \in 1..m /\ 1 \in 1..Len(S) /\ n - 1 + p = u /\ n - 1 + p <= u
    BY <1>1, <1>4, <1>5, <1>10
  <2>2. R[n] = At(R[1], u)
    BY <1>6, <2>1
  <2>3. R[n].pos = UnitSize(R[n])
    BY <1>4, <2>2
  <2>4. R[n + 1].pos = 1
    BY <1>1, <2>1, <2>3, NextBegins DEF m
  <2> QED
    BY <1>1, <2>1, <2>4
<1> QED
  BY <1>2, <1>3, <1>7, <1>8, <1>9, <1>10 DEF p, u, m

\* What ReadSerial reads of the frames and the like.
LEMMA ValueOf ==
  ASSUME NEW b
  PROVE  /\ IsAnswer(b) /\ b.pos = 1 => Value(b) = {"SYNC"}
         /\ b.kind = "frame" /\ b.pos = 2 => Value(b) = {"ACK"}
         /\ b.kind = "nak" /\ b.pos = 2 => Value(b) = {"NAK"}
         /\ b.kind = "nak" /\ b.pos = 3 => Value(b) = {"NAK_LRC"}
         /\ b.kind = "event" /\ b.pos = 1 => Value(b) = {"NOTIFY"}
         /\ b.kind = "time" => Value(b) = {"TIME"}
BY DEF Value, IsAnswer

LEMMA AtByte ==
  ASSUME NEW b \in Bytes, NEW p
  PROVE  At(b, p) = Byte(b.kind, b.cmd, p, b.size)
BY DEF Bytes, At, Byte

\* The bytes of a frame, and of what ReadSerial stores of it.
LEMMA FrameParts ==
  ASSUME NEW n \in Nat, NEW d \in DataSizes
  PROVE  /\ d \in Nat /\ HeaderSize + d <= MaxLength
         /\ Frame(n, d) \in Seq(Bytes) /\ Len(Frame(n, d)) = 3 + HeaderSize + d
         /\ \A k \in 1..3 + HeaderSize + d : Frame(n, d)[k] = Byte("frame", n, k, d)
         /\ Ccid(n, d) \in Seq(Bytes) /\ Len(Ccid(n, d)) = HeaderSize + d
         /\ \A k \in 1..HeaderSize + d : Ccid(n, d)[k] = Byte("frame", n, 2 + k, d)
<1> DEFINE s == HeaderSize + d
           f == Frame(n, d)
<1>1. d \in Nat /\ s <= MaxLength /\ s \in Nat /\ 3 + HeaderSize + d = 3 + s /\ 2 + HeaderSize + d = 2 + s
  BY Sizes, FrameAssumption
<1>2. f \in Seq(Bytes)
  BY ReaderSendsBytes
<1>3. f = [k \in 1..3 + s |-> Byte("frame", n, k, d)]
  BY <1>1 DEF Frame
<1> HIDE DEF s
<1>4. Len(f) = 3 + s /\ \A k \in 1..3 + s : f[k] = Byte("frame", n, k, d)
  BY <1>1, <1>3
<1>5. Ccid(n, d) = SubSeq(f, 2 + 1, 2 + s)
  BY <1>1 DEF Ccid
<1> HIDE DEF f
<1> DEFINE x == 2 + s
<1>6. x \in Nat /\ 2 <= x /\ x <= Len(f) /\ x - 2 = s /\ Ccid(n, d) = SubSeq(f, 2 + 1, x)
  BY <1>1, <1>4, <1>5
<1> HIDE DEF x
<1>7. /\ Ccid(n, d) \in Seq(Bytes) /\ Len(Ccid(n, d)) = s
      /\ \A k \in 1..s : Ccid(n, d)[k] = f[2 + k]
  BY <1>2, <1>6, SubSeqParts
<1>8. \A k \in 1..s : 2 + k \in 1..3 + s
  BY <1>1
<1>9. \A k \in 1..s : Ccid(n, d)[k] = Byte("frame", n, 2 + k, d)
  BY <1>4, <1>7, <1>8
<1> QED
  BY <1>1, <1>2, <1>4, <1>7, <1>9 DEF s, f

-----------------------------------------------------------------------------
(* An exchange in step                                                     *)

AnswersOf(R, n) == \A k \in 1..Len(R) : IsAnswer(R[k]) => R[k].cmd = n
FirstOnce(R)    == \A k, l \in 1..Len(R) : First(R[k]) /\ First(R[l]) => k = l
NoFirst(R)      == \A k \in 1..Len(R) : ~First(R[k])
NoAnswer(R)     == \A k \in 1..Len(R) : ~IsAnswer(R[k])

\* The stream R holds whole units, the last of which only the end of the line cuts off.
Units(R) == Sound(R) /\ Whole(R) /\ (plugged => Complete(R))

\* It holds the answer to the last command at most, and none before the reader has
\* sent it, nor the beginning of one that ReadSerial has begun.
Answers(R) ==
    /\ AnswersOf(R, pbSeq) /\ FirstOnce(R)
    /\ answered # pbSeq \/ pc = "idle" => NoAnswer(R)
    /\ pc \notin {"start", "slot_change"} => NoFirst(R)

Counts ==
    /\ pc # "idle" => pbSeq > 0
    /\ answered # pbSeq => answered = pbSeq - 1 /\ plugged /\ pc \in {"start", "slot_change"}

\* It goes on where ReadSerial stands, which has stored what went before.
Stands(R) ==
    \/ pc \in {"idle", "start"} /\ (Len(R) > 0 => R[1].pos = 1)
    \/ /\ plugged => Len(R) > 0
       /\ \/ pc = "slot_change" /\ (Len(R) > 0 => R[1].kind = "event" /\ R[1].pos = 2)
          \/ pc = "sync" /\ (Len(R) > 0 => IsAnswer(R[1]) /\ R[1].pos = 2)
          \/ pc = "nak" /\ (Len(R) > 0 => R[1].kind = "nak" /\ R[1].pos = 3)
          \/ pc = "header" /\ (Len(R) > 0 => R[1].kind = "frame" /\ R[1].pos = 3)
          \/ /\ pc = "rest"
             /\ \E d \in DataSizes :
                  /\ answer = SubSeq(Ccid(pbSeq, d), 1, HeaderRead) /\ to_read = HeaderSize + d
                  /\ Len(R) > 0 => R[1] = Byte("frame", pbSeq, 3 + HeaderRead, d)
          \/ /\ pc = "lrc"
             /\ \E d \in DataSizes :
                  /\ answer = Ccid(pbSeq, d)
                  /\ Len(R) > 0 => R[1] = Byte("frame", pbSeq, 3 + HeaderSize + d, d)

Outcome ==
    status = "SUCCESS" => pc = "idle" /\ \E d \in DataSizes : answer = Ccid(pbSeq, d)

StepParts(R) == Units(R) /\ Answers(R) /\ Counts /\ Stands(R) /\ Outcome

StepInv == inStep => StepParts(Rest)

Quiet == ~reading => chunk = <<>>

LEMMA AnswersAfter ==
  ASSUME NEW R, NEW S, NEW bs, NEW n, NEW m, Consumes(bs, n, R, S), n > 0,
         AnswersOf(R, m), FirstOnce(R), Sound(R), Whole(R)
  PROVE  /\ AnswersOf(S, m) /\ FirstOnce(S) /\ Sound(S) /\ Whole(S) /\ (Complete(R) => Complete(S))
         /\ NoFirst(R) => NoFirst(S)
         /\ NoAnswer(R) => NoAnswer(S)
         /\ First(R[1]) => NoFirst(S)
         /\ NoFirst(S) /\ (Len(S) > 0 => S[1].pos = 1) => NoAnswer(S)
<1>1. /\ R \in Seq(Bytes) /\ S \in Seq(Bytes) /\ n \in Nat /\ n <= Len(R) /\ Len(S) = Len(R) - n
      /\ Len(R) \in Nat /\ \A k \in 1..Len(S) : S[k] = R[n + k]
  BY LenProperties DEF Consumes
<1>2. \A k \in 1..Len(S) : n + k \in 1..Len(R) /\ S[k] = R[n + k]
  BY <1>1
<1>3. Sound(S) /\ Whole(S) /\ (Complete(R) => Complete(S))
  BY <1>1, WithoutBeginning
<1>4. AnswersOf(S, m)
  BY <1>2 DEF AnswersOf
<1>5. FirstOnce(S)
  <2> SUFFICES ASSUME NEW k \in 1..Len(S), NEW l \in 1..Len(S), First(S[k]), First(S[l])
               PROVE  k = l
    BY DEF FirstOnce
  <2>1. n + k = n + l
    BY <1>2 DEF FirstOnce
  <2> QED
    BY <1>1, <2>1
<1>6. NoFirst(R) => NoFirst(S)
  BY <1>2 DEF NoFirst
<1>7. NoAnswer(R) => NoAnswer(S)
  BY <1>2 DEF NoAnswer
<1>8. ASSUME First(R[1]) PROVE NoFirst(S)
  <2> SUFFICES ASSUME NEW k \in 1..Len(S), First(S[k]) PROVE FALSE
    BY DEF NoFirst
  <2>1. n + k \in 1..Len(R) /\ First(R[n + k]) /\ 1 \in 1..Len(R)
    BY <1>1, <1>2
  <2>2. n + k = 1
    BY <1>8, <2>1 DEF FirstOnce
  <2> QED
    BY <1>1, <2>2
<1>9. ASSUME NoFirst(S), Len(S) > 0 => S[1].pos = 1 PROVE NoAnswer(S)
  <2> SUFFICES ASSUME NEW k \in 1..Len(S), IsAnswer(S[k]) PROVE FALSE
    BY DEF NoAnswer
  <2>1. S[1].pos \in 2..UnitSize(S[1]) /\ 1 \in 1..Len(S)
    BY <1>1, <1>3, <1>9, SameUnit DEF NoFirst
  <2>2. S[1].pos = 1
    BY <1>1, <1>9, <2>1
  <2> QED
    BY <2>1, <2>2
<1> QED
  BY <1>3, <1>4, <1>5, <1>6, <1>7, <1>8, <1>9

\* What a step of ReadSerial has to show: that what it leaves is where it goes on, and
\* no answer, or the beginning of one, is left over.
LEMMA Stepped ==
  ASSUME NEW R, NEW S, NEW bs, NEW n, Consumes(bs, n, R, S), n > 0, StepParts(R), pc # "idle",
         UNCHANGED <<pbSeq, answered, plugged>>, Stands(S)', Outcome',
         pc' \notin {"start", "slot_change"} => answered = pbSeq /\ NoFirst(S),
         pc' = "idle" /\ Len(S) > 0 => S[1].pos = 1
  PROVE  StepParts(S)'
<1>1. /\ Sound(R) /\ Whole(R) /\ (plugged => Complete(R)) /\ AnswersOf(R, pbSeq) /\ FirstOnce(R)
      /\ answered # pbSeq => NoAnswer(R)
  BY DEF StepParts, Units, Answers
<1>2. /\ Sound(S) /\ Whole(S) /\ (plugged => Complete(S)) /\ AnswersOf(S, pbSeq) /\ FirstOnce(S)
      /\ NoAnswer(R) => NoAnswer(S)
      /\ NoFirst(S) /\ (Len(S) > 0 => S[1].pos = 1) => NoAnswer(S)
  BY <1>1, AnswersAfter
<1>3. Units(S)'
  BY <1>2 DEF Units
<1>4. Answers(S)'
  BY <1>1, <1>2 DEF Answers
<1>5. Counts'
  BY DEF StepParts, Counts
<1> QED
  BY <1>3, <1>4, <1>5 DEF StepParts

\* The first byte of an answer, of a card movement, or a request for time.
LEMMA ParseStart ==
  ASSUME NEW R, NEW S, NEW bs, pc = "start", Consumes(bs, 1, R, S), Parse(bs),
         UNCHANGED <<pbSeq, answered, plugged>>, StepParts(R)
  PROVE  StepParts(S)'
<1> DEFINE b == R[1]
           u == UnitSize(b)
<1>1. /\ R \in Seq(Bytes) /\ 1 <= Len(R) /\ Len(R) \in Nat /\ bs[1] = R[1]
      /\ Len(S) = Len(R) - 1
  BY LenProperties DEF Consumes
<1>2. /\ Sound(R) /\ Whole(R) /\ (plugged => Complete(R)) /\ AnswersOf(R, pbSeq) /\ FirstOnce(R)
      /\ answered # pbSeq => NoAnswer(R)
  BY DEF StepParts, Units, Answers
<1>3. b \in Bytes /\ b.kind # "noise" /\ 1 \in 1..Len(R)
  BY <1>1, <1>2, ElementOfSeq DEF Sound
<1>4. b.pos = 1
  BY <1>1 DEF StepParts, Stands
<1>5. /\ u \in Nat /\ 1 <= u /\ At(b, b.pos) = b
      /\ \A p : /\ At(b, p).kind = b.kind /\ At(b, p).cmd = b.cmd /\ At(b, p).size = b.size
                /\ At(b, p).pos = p
  BY <1>3, <1>4, ByteFacts
<1>6. b.kind \in {"frame", "nak", "event", "time"}
  BY <1>3 DEF Bytes
<1>7. /\ 1 + 1 <= u /\ Len(S) > 0 => S[1] = At(b, 2)
      /\ 1 + 1 <= u /\ plugged => Len(S) > 0
      /\ 1 + 1 > u /\ Len(S) > 0 => S[1].pos = 1
  <2>1. 1 - 1 + R[1].pos <= UnitSize(R[1]) /\ 1 > 0 /\ 1 + R[1].pos = 2 /\ 1 + 1 = 2
    BY <1>4, <1>5
  <2> QED
    BY <1>2, <2>1, After
<1>8. /\ \E c \in Value(b) :
           \/ c = "NOTIFY" /\ Goto("slot_change")
           \/ c = "SYNC" /\ Goto("sync")
           \/ c = "TIME" /\ Goto("start")
           \/ c \notin {"NOTIFY", "SYNC", "TIME"} /\ Return("COMM_ERROR")
      /\ UNCHANGED <<answer, to_read>>
  BY <1>1 DEF Parse
<1>9. status # "SUCCESS"
  BY DEF StepParts, Outcome
<1>10. First(b) => NoFirst(S)
  BY <1>2, AnswersAfter
<1>11. ASSUME pc' \in {"start", "slot_change", "sync"}, status' = status, Stands(S)',
              pc' = "sync" => answered = pbSeq /\ NoFirst(S)
       PROVE  StepParts(S)'
  <2>1. Outcome'
    BY <1>9, <1>11 DEF Outcome
  <2>2. pc' # "idle" /\ (pc' \notin {"start", "slot_change"} => answered = pbSeq /\ NoFirst(S))
    BY <1>11
  <2> QED
    BY <1>11, <2>1, <2>2, Stepped
<1> HIDE DEF b, u
<1>12. CASE b.kind \in {"frame", "nak"}
  <2>1. Value(b) = {"SYNC"} /\ First(b)
    BY <1>4, <1>12, ValueOf DEF IsAnswer, First
  <2>2. pc' = "sync" /\ status' = status
    BY <1>8, <2>1 DEF Goto
  <2>3. 1 + 1 <= u
    BY <1>3, <1>12, Sizes DEF u, UnitSize, Bytes
  <2>4. answered = pbSeq
    BY <1>2, <1>3, <1>12 DEF NoAnswer, IsAnswer, b
  <2>5. Stands(S)'
    BY <1>5, <1>7, <1>12, <2>2, <2>3 DEF Stands, IsAnswer
  <2> QED
    BY <1>10, <1>11, <2>1, <2>2, <2>4, <2>5
<1>13. CASE b.kind = "event"
  <2>1. Value(b) = {"NOTIFY"}
    BY <1>4, <1>13, ValueOf
  <2>2. pc' = "slot_change" /\ status' = status
    BY <1>8, <2>1 DEF Goto
  <2>3. 1 + 1 <= u
    BY <1>13 DEF u, UnitSize
  <2>5. Stands(S)'
    BY <1>5, <1>7, <1>13, <2>2, <2>3 DEF Stands
  <2> QED
    BY <1>11, <2>2, <2>5
<1>14. CASE b.kind = "time"
  <2>1. Value(b) = {"TIME"}
    BY <1>14, ValueOf
  <2>2. pc' = "start" /\ status' = status
    BY <1>8, <2>1 DEF Goto
  <2>3. 1 + 1 > u
    BY <1>14 DEF u, UnitSize
  <2>5. Stands(S)'
    BY <1>7, <2>2, <2>3 DEF Stands
  <2> QED
    BY <1>11, <2>2, <2>5
<1> QED
  BY <1>6, <1>12, <1>13, <1>14

\* The second byte of a card movement, or the second or third of a rejection.
LEMMA ParseShort ==
  ASSUME NEW R, NEW S, NEW bs, pc \in {"slot_change", "sync", "nak"}, Consumes(bs, 1, R, S), Parse(bs),
         UNCHANGED <<pbSeq, answered, plugged>>, StepParts(R)
  PROVE  StepParts(S)'
<1> DEFINE b == R[1]
           u == UnitSize(b)
<1>1. /\ R \in Seq(Bytes) /\ 1 <= Len(R) /\ Len(R) \in Nat /\ bs[1] = R[1]
      /\ Len(S) = Len(R) - 1 /\ Len(R) > 0
  BY LenProperties DEF Consumes
<1>2. /\ Sound(R) /\ Whole(R) /\ (plugged => Complete(R)) /\ AnswersOf(R, pbSeq) /\ FirstOnce(R)
      /\ pc # "slot_change" => answered = pbSeq /\ NoFirst(R)
  BY DEF StepParts, Units, Answers, Counts
<1>3. b \in Bytes /\ b.kind # "noise"
  BY <1>1, <1>2, ElementOfSeq DEF Sound
<1>4. /\ pc = "slot_change" => b.kind = "event" /\ b.pos = 2
      /\ pc = "sync" => b.kind \in {"frame", "nak"} /\ b.pos = 2
      /\ pc = "nak" => b.kind = "nak" /\ b.pos = 3
  BY <1>1 DEF StepParts, Stands, IsAnswer
<1>5. /\ u \in Nat /\ b.pos \in Nat /\ b.pos <= u
      /\ \A p : At(b, p).kind = b.kind /\ At(b, p).pos = p
  BY <1>3, ByteFacts
<1>7. /\ 1 + b.pos <= u /\ Len(S) > 0 => S[1] = At(b, 1 + b.pos)
      /\ 1 + b.pos <= u /\ plugged => Len(S) > 0
      /\ 1 + b.pos > u /\ Len(S) > 0 => S[1].pos = 1
  <2>1. 1 - 1 + R[1].pos <= UnitSize(R[1]) /\ 1 > 0
    BY <1>5
  <2> QED
    BY <1>2, <2>1, After
<1>8. status # "SUCCESS"
  BY DEF StepParts, Outcome
<1>9. NoFirst(R) => NoFirst(S)
  BY <1>2, AnswersAfter
<1> HIDE DEF b, u
<1>10. CASE pc = "slot_change"
  <2>1. pc' = "start" /\ status' = status
    BY <1>10 DEF Parse, Goto
  <2>2. 1 + b.pos > u
    BY <1>4, <1>10 DEF u, UnitSize
  <2>3. Stands(S)'
    BY <1>7, <2>1, <2>2 DEF Stands
  <2>4. Outcome'
    BY <1>8, <2>1 DEF Outcome
  <2> QED
    BY <2>1, <2>3, <2>4, Stepped
<1>11. CASE pc = "sync"
  <2>1. /\ b.kind = "frame" => Value(b) = {"ACK"}
        /\ b.kind = "nak" => Value(b) = {"NAK"}
    BY <1>4, <1>11, ValueOf
  <2>2. /\ status' = status
        /\ b.kind = "frame" => pc' = "header"
        /\ b.kind = "nak" => pc' = "nak"
        /\ b.kind \in {"frame", "nak"}
    <3>1. \E c \in Value(b) :
            \/ c = "ACK" /\ Goto("header")
            \/ c = "NAK" /\ Goto("nak")
            \/ c \notin {"ACK", "NAK"} /\ Return("COMM_ERROR")
      BY <1>1, <1>11 DEF Parse, b
    <3> QED
      BY <1>4, <1>11, <2>1, <3>1 DEF Goto
  <2>3. 1 + b.pos <= u /\ 1 + b.pos = 3
    BY <1>3, <1>4, <1>11, Sizes DEF u, UnitSize, Bytes
  <2>4. Stands(S)'
    BY <1>5, <1>7, <2>2, <2>3 DEF Stands
  <2>5. Outcome'
    BY <1>8, <2>2 DEF Outcome
  <2> QED
    BY <1>2, <1>9, <1>11, <2>2, <2>4, <2>5, Stepped
<1>12. CASE pc = "nak"
  <2>1. Value(b) = {"NAK_LRC"}
    BY <1>4, <1>12, ValueOf
  <2>2. pc' = "idle" /\ status' = "COMM_NAK"
    <3>1. \E c \in Value(b) : Return(IF c = "NAK_LRC" THEN "COMM_NAK" ELSE "COMM_ERROR")
      BY <1>1, <1>12 DEF Parse, b
    <3> QED
      BY <2>1, <3>1 DEF Return
  <2>3. 1 + b.pos > u
    BY <1>4, <1>12 DEF u, UnitSize
  <2>4. Stands(S)'
    BY <1>7, <2>2, <2>3 DEF Stands
  <2>5. Outcome'
    BY <2>2 DEF Outcome
  <2> QED
    BY <1>2, <1>7, <1>9, <1>12, <2>2, <2>3, <2>4, <2>5, Stepped
<1> QED
  BY <1>10, <1>11, <1>12

\* The first m bytes of a CCID frame,
LEMMA FrameBegins ==
  ASSUME NEW n \in Nat, NEW d \in DataSizes, NEW bs \in Seq(Bytes), NEW m \in Nat,
         Len(bs) = m, m <= HeaderSize + d, \A k \in 1..m : bs[k] = Byte("frame", n, 2 + k, d)
  PROVE  bs = SubSeq(Ccid(n, d), 1, m)
<1> DEFINE f == Ccid(n, d)
           s == HeaderSize + d
<1>1. f \in Seq(Bytes) /\ Len(f) = s /\ \A k \in 1..s : f[k] = Byte("frame", n, 2 + k, d)
  BY FrameParts
<1>2. s \in Nat /\ m <= s
  BY Sizes, FrameAssumption
<1> HIDE DEF f, s
<1> DEFINE t == SubSeq(f, 1, m)
<1>3. t \in Seq(Bytes) /\ Len(t) = m /\ \A k \in 1..m : t[k] = f[k]
  <2>1. /\ SubSeq(f, 0 + 1, m) \in Seq(Bytes) /\ Len(SubSeq(f, 0 + 1, m)) = m - 0
        /\ \A k \in 1..m - 0 : SubSeq(f, 0 + 1, m)[k] = f[0 + k]
    BY <1>1, <1>2, SubSeqParts
  <2>2. 0 + 1 = 1 /\ m - 0 = m /\ \A k \in 1..m : 0 + k = k
    OBVIOUS
  <2> QED
    BY <2>1, <2>2
<1> HIDE DEF t
<1>4. \A k \in 1..m : k \in 1..s
  BY <1>2
<1>5. \A k \in 1..m : bs[k] = t[k]
  BY <1>1, <1>3, <1>4
<1>6. bs = t
  BY <1>3, <1>5, SeqEqual
<1> QED
  BY <1>6 DEF t, f

\* and the whole frame with the rest of it.
LEMMA FrameEnds ==
  ASSUME NEW n \in Nat, NEW d \in DataSizes, NEW bs \in Seq(Bytes), NEW m \in Nat,
         m + Len(bs) = HeaderSize + d, \A k \in 1..Len(bs) : bs[k] = Byte("frame", n, 2 + m + k, d)
  PROVE  SubSeq(Ccid(n, d), 1, m) \o bs = Ccid(n, d)
<1> DEFINE f == Ccid(n, d)
           s == HeaderSize + d
           l == Len(bs)
<1>1. f \in Seq(Bytes) /\ Len(f) = s /\ \A k \in 1..s : f[k] = Byte("frame", n, 2 + k, d)
  BY FrameParts
<1>2. s \in Nat /\ l \in Nat /\ m + l = s /\ m <= s
  BY Sizes, FrameAssumption, LenProperties
<1>2a. \A k \in 1..l : bs[k] = Byte("frame", n, 2 + m + k, d)
  OBVIOUS
<1> HIDE DEF f, s, l
<1> DEFINE t == SubSeq(f, 1, m)
<1>3. t \in Seq(Bytes) /\ Len(t) = m /\ \A k \in 1..m : t[k] = f[k]
  <2>1. /\ SubSeq(f, 0 + 1, m) \in Seq(Bytes) /\ Len(SubSeq(f, 0 + 1, m)) = m - 0
        /\ \A k \in 1..m - 0 : SubSeq(f, 0 + 1, m)[k] = f[0 + k]
    BY <1>1, <1>2, SubSeqParts
  <2>2. 0 + 1 = 1 /\ m - 0 = m /\ \A k \in 1..m : 0 + k = k
    OBVIOUS
  <2> QED
    BY <2>1, <2>2
<1> HIDE DEF t
<1> DEFINE r == t \o bs
<1>4. r \in Seq(Bytes) /\ Len(r) = s /\ \A k \in 1..s : r[k] = IF k <= m THEN t[k] ELSE bs[k - m]
  <2>1. /\ r \in Seq(Bytes) /\ Len(r) = Len(t) + Len(bs)
        /\ \A k \in 1..Len(t) + Len(bs) : r[k] = IF k <= Len(t) THEN t[k] ELSE bs[k - Len(t)]
    BY <1>3, ConcatProperties
  <2>2. Len(t) = m /\ Len(bs) = l /\ Len(t) + Len(bs) = s
    BY <1>2, <1>3 DEF l
  <2> QED
    BY <2>1, <2>2
<1> HIDE DEF r
<1>5. ASSUME NEW k \in 1..s PROVE r[k] = f[k]
  <2>1. CASE k <= m
    <3>1. k \in 1..m
      BY <1>2, <2>1
    <3> QED
      BY <1>3, <1>4, <2>1, <3>1
  <2>2. CASE ~(k <= m)
    <3>1. k - m \in 1..l /\ 2 + m + (k - m) = 2 + k
      BY <1>2, <2>2
    <3> DEFINE i == k - m
    <3>2. bs[i] = Byte("frame", n, 2 + m + i, d)
      BY <1>2a, <3>1
    <3> QED
      BY <1>1, <1>4, <2>2, <3>1, <3>2
  <2> QED
    BY <2>1, <2>2
<1>6. r = f
  BY <1>1, <1>4, <1>5, SeqEqual
<1> QED
  BY <1>6 DEF r, t, f

\* The beginning of the CCID header: the size it announces is that of the frame.
LEMMA ParseHeader ==
  ASSUME Counters, NEW R, NEW S, NEW bs, pc = "header", Consumes(bs, HeaderRead, R, S), Parse(bs),
         UNCHANGED <<pbSeq, answered, plugged>>, StepParts(R)
  PROVE  StepParts(S)'
<1> DEFINE b == R[1]
           u == UnitSize(b)
           d == b.size
<1>1. /\ R \in Seq(Bytes) /\ Len(R) \in Nat /\ Len(R) > 0 /\ bs \in Seq(Bytes) /\ Len(bs) = HeaderRead
      /\ HeaderRead \in Nat /\ HeaderRead > 0 /\ HeaderRead < HeaderSize /\ HeaderSize \in Nat
      /\ pbSeq \in Nat
  BY LenProperties, Sizes DEF Consumes, Counters
<1>2. /\ Sound(R) /\ Whole(R) /\ (plugged => Complete(R)) /\ AnswersOf(R, pbSeq) /\ FirstOnce(R)
      /\ answered = pbSeq /\ NoFirst(R) /\ pbSeq > 0
  BY DEF StepParts, Units, Answers, Counts
<1>3. b \in Bytes /\ b.kind # "noise" /\ 1 \in 1..Len(R)
  BY <1>1, <1>2, ElementOfSeq DEF Sound
<1>4. b.kind = "frame" /\ b.pos = 3
  BY <1>1 DEF StepParts, Stands
<1>5. /\ b.cmd = pbSeq /\ d \in DataSizes /\ u = 3 + HeaderSize + d /\ d \in Nat
      /\ HeaderSize + d <= MaxLength
  <2>1. b.cmd = pbSeq
    BY <1>2, <1>3, <1>4 DEF AnswersOf, IsAnswer
  <2>2. d \in DataSizes /\ u = 3 + HeaderSize + d
    BY <1>3, <1>4 DEF UnitSize, Bytes
  <2> QED
    BY <2>1, <2>2, FrameAssumption
<1>6. \A p : At(b, p) = Byte("frame", pbSeq, p, d)
  BY <1>3, <1>4, <1>5, AtByte
<1>7. /\ \A k \in 1..HeaderRead : bs[k] = At(b, k - 1 + 3)
      /\ Len(S) > 0 => S[1] = At(b, HeaderRead + 3)
      /\ plugged => Len(S) > 0
  <2>1. /\ HeaderRead - 1 + R[1].pos <= UnitSize(R[1]) /\ HeaderRead > 0
        /\ HeaderRead + R[1].pos <= UnitSize(R[1])
    BY <1>1, <1>4, <1>5
  <2>2. /\ \A k \in 1..HeaderRead : bs[k] = At(R[1], k - 1 + R[1].pos)
        /\ Len(S) > 0 => S[1] = At(R[1], HeaderRead + R[1].pos)
        /\ plugged => Len(S) > 0
    BY <1>2, <2>1, After
  <2> QED
    BY <1>4, <2>2
<1> HIDE DEF b, u, d
<1>8. \A k \in 1..HeaderRead : bs[k] = Byte("frame", pbSeq, 2 + k, d)
  <2> SUFFICES ASSUME NEW k \in 1..HeaderRead PROVE bs[k] = Byte("frame", pbSeq, 2 + k, d)
    OBVIOUS
  <2>1. k - 1 + 3 = 2 + k
    OBVIOUS
  <2> QED
    BY <1>6, <1>7, <2>1
<1>9. bs = SubSeq(Ccid(pbSeq, d), 1, HeaderRead)
  <2>1. HeaderRead <= HeaderSize + d
    BY <1>1, <1>5
  <2> QED
    BY <1>1, <1>5, <1>8, <2>1, FrameBegins
<1>10. Announced(bs) = {HeaderSize + d}
  <2>1. pbSeq \in 1..pbSeq /\ 1 \in 1..HeaderRead
    BY <1>1, <1>2
  <2>2. \E n \in 1..pbSeq, e \in DataSizes : bs = SubSeq(Ccid(n, e), 1, HeaderRead)
    BY <1>5, <1>9, <2>1
  <2>3. bs[1].size = d
    <3>1. bs[1] = Byte("frame", pbSeq, 2 + 1, d)
      BY <1>8, <2>1
    <3> QED
      BY <3>1 DEF Byte
  <2>4. Announced(bs) = {HeaderSize + bs[1].size}
    BY <2>2 DEF Announced
  <2> QED
    BY <2>3, <2>4
<1>11. answer' = bs /\ to_read' = HeaderSize + d /\ pc' = "rest" /\ status' = status
  <2>1. /\ answer' = bs
        /\ \E t \in Announced(bs) :
            /\ to_read' = t
            /\ \/ t \in HeaderSize..MaxLength /\ Goto("rest")
               \/ t \notin HeaderSize..MaxLength /\ Return("COMM_ERROR")
    BY DEF Parse
  <2>2. HeaderSize + d \in HeaderSize..MaxLength
    BY <1>1, <1>5, Sizes
  <2> QED
    BY <1>10, <2>1, <2>2 DEF Goto
<1>12. Stands(S)'
  <2>1. HeaderRead + 3 = 3 + HeaderRead
    BY <1>1
  <2>2. Len(S) > 0 => S[1] = Byte("frame", pbSeq, 3 + HeaderRead, d)
    BY <1>6, <1>7, <2>1
  <2>3. answer' = SubSeq(Ccid(pbSeq, d), 1, HeaderRead) /\ to_read' = HeaderSize + d
    BY <1>9, <1>11
  <2>4. Ccid(pbSeq, d)' = Ccid(pbSeq, d)
    BY DEF Ccid, Frame, Byte
  <2> QED
    BY <1>5, <1>7, <1>11, <2>2, <2>3, <2>4 DEF Stands
<1>13. Outcome'
  BY <1>11 DEF StepParts, Outcome
<1> QED
  <2>1. NoFirst(S)
    BY <1>1, <1>2, AnswersAfter
  <2> QED
    BY <1>1, <1>2, <1>11, <1>12, <1>13, <2>1, Stepped

\* The rest of the frame.
LEMMA ParseRest ==
  ASSUME Counters, NEW R, NEW S, NEW bs, NEW n, n = to_read - HeaderRead,
         pc = "rest", Consumes(bs, n, R, S), Parse(bs),
         UNCHANGED <<pbSeq, answered, plugged>>, StepParts(R)
  PROVE  StepParts(S)'
<1> DEFINE b == R[1]
           u == UnitSize(b)
<1>1. PICK d \in DataSizes :
        /\ answer = SubSeq(Ccid(pbSeq, d), 1, HeaderRead) /\ to_read = HeaderSize + d
        /\ Len(R) > 0 => b = Byte("frame", pbSeq, 3 + HeaderRead, d)
  BY DEF StepParts, Stands
<1>2. /\ HeaderRead \in Nat /\ HeaderRead < HeaderSize /\ HeaderSize \in Nat /\ d \in Nat /\ pbSeq \in Nat
      /\ n = (HeaderSize + d) - HeaderRead /\ n \in Nat /\ n > 0
  BY <1>1, Sizes, FrameAssumption DEF Counters
<1>3. /\ R \in Seq(Bytes) /\ Len(R) \in Nat /\ bs \in Seq(Bytes) /\ Len(bs) = n /\ Len(R) > 0
  BY <1>2, LenProperties DEF Consumes
<1>4. /\ Sound(R) /\ Whole(R) /\ (plugged => Complete(R)) /\ AnswersOf(R, pbSeq) /\ FirstOnce(R)
      /\ answered = pbSeq /\ NoFirst(R)
  BY DEF StepParts, Units, Answers, Counts
<1>5. b \in Bytes /\ b.kind # "noise"
  BY <1>3, <1>4, ElementOfSeq DEF Sound
<1>6. /\ b.kind = "frame" /\ b.cmd = pbSeq /\ b.pos = 3 + HeaderRead /\ b.size = d
      /\ u = 3 + HeaderSize + d
  BY <1>1, <1>3 DEF Byte, UnitSize
<1>7. \A p : At(b, p) = Byte("frame", pbSeq, p, d)
  BY <1>5, <1>6, AtByte
<1>8. /\ \A k \in 1..n : bs[k] = At(b, k - 1 + (3 + HeaderRead))
      /\ Len(S) > 0 => S[1] = At(b, n + (3 + HeaderRead))
      /\ plugged => Len(S) > 0
  <2>1. /\ n - 1 + R[1].pos <= UnitSize(R[1]) /\ n + R[1].pos <= UnitSize(R[1])
    BY <1>2, <1>6
  <2>2. /\ \A k \in 1..n : bs[k] = At(R[1], k - 1 + R[1].pos)
        /\ Len(S) > 0 => S[1] = At(R[1], n + R[1].pos)
        /\ plugged => Len(S) > 0
    BY <1>2, <1>4, <2>1, After
  <2> QED
    BY <1>6, <2>2
<1> HIDE DEF b, u
<1>9. \A k \in 1..n : bs[k] = Byte("frame", pbSeq, 2 + HeaderRead + k, d)
  <2> SUFFICES ASSUME NEW k \in 1..n PROVE bs[k] = Byte("frame", pbSeq, 2 + HeaderRead + k, d)
    OBVIOUS
  <2>1. k - 1 + (3 + HeaderRead) = 2 + HeaderRead + k
    BY <1>2
  <2> QED
    BY <1>7, <1>8, <2>1
<1>10. answer \o bs = Ccid(pbSeq, d)
  <2>1. HeaderRead + Len(bs) = HeaderSize + d
    BY <1>2, <1>3
  <2>2. \A k \in 1..Len(bs) : bs[k] = Byte("frame", pbSeq, 2 + HeaderRead + k, d)
    BY <1>3, <1>9
  <2> QED
    BY <1>1, <1>2, <1>3, <2>1, <2>2, FrameEnds
<1>11. answer' = Ccid(pbSeq, d) /\ pc' = "lrc" /\ status' = status
  BY <1>10 DEF Parse, Goto
<1>12. Stands(S)'
  <2>1. n + (3 + HeaderRead) = 3 + HeaderSize + d
    BY <1>2
  <2>2. Len(S) > 0 => S[1] = Byte("frame", pbSeq, 3 + HeaderSize + d, d)
    BY <1>7, <1>8, <2>1
  <2>3. Ccid(pbSeq, d)' = Ccid(pbSeq, d)
    BY DEF Ccid, Frame, Byte
  <2> QED
    BY <1>8, <1>11, <2>2, <2>3 DEF Stands
<1>13. Outcome'
  BY <1>11 DEF StepParts, Outcome
<1> QED
  <2>1. NoFirst(S)
    BY <1>2, <1>4, AnswersAfter
  <2> QED
    BY <1>2, <1>4, <1>11, <1>12, <1>13, <2>1, Stepped

\* The LRC.
LEMMA ParseLrc ==
  ASSUME NEW R, NEW S, NEW bs, pc = "lrc", Consumes(bs, 1, R, S), Parse(bs),
         UNCHANGED <<pbSeq, answered, plugged>>, StepParts(R)
  PROVE  StepParts(S)'
<1>1. PICK d \in DataSizes :
        /\ answer = Ccid(pbSeq, d)
        /\ Len(R) > 0 => R[1] = Byte("frame", pbSeq, 3 + HeaderSize + d, d)
  BY DEF StepParts, Stands
<1>2. Len(R) \in Nat /\ Len(R) > 0
  BY LenProperties DEF Consumes
<1>3. /\ Sound(R) /\ Whole(R) /\ AnswersOf(R, pbSeq) /\ FirstOnce(R) /\ answered = pbSeq /\ NoFirst(R)
  BY DEF StepParts, Units, Answers, Counts
<1>4. R[1].pos = 3 + HeaderSize + d /\ UnitSize(R[1]) = 3 + HeaderSize + d
  BY <1>1, <1>2 DEF Byte, UnitSize
<1>5. Len(S) > 0 => S[1].pos = 1
  <2>1. /\ 1 - 1 + R[1].pos <= UnitSize(R[1]) /\ 1 > 0 /\ 1 + R[1].pos > UnitSize(R[1])
    BY <1>4, Sizes, FrameAssumption
  <2> QED
    BY <1>3, <2>1, After
<1>6. pc' = "idle" /\ status' = "SUCCESS" /\ answer' = answer
  BY DEF Parse, Return
<1>7. Outcome'
  <2>1. Ccid(pbSeq, d)' = Ccid(pbSeq, d)
    BY DEF Ccid, Frame, Byte
  <2> QED
    BY <1>1, <1>6, <2>1 DEF Outcome
<1>8. Stands(S)'
  BY <1>5, <1>6 DEF Stands
<1>9. NoFirst(S)
  BY <1>3, AnswersAfter
<1> QED
  BY <1>3, <1>5, <1>6, <1>7, <1>8, <1>9, Stepped

LEMMA ParseSteps ==
  ASSUME Counters, Place, NEW R, NEW S, NEW bs, pc # "idle", Consumes(bs, Needed, R, S), Parse(bs),
         UNCHANGED <<pbSeq, answered, plugged>>, StepParts(R)
  PROVE  StepParts(S)'
<1>1. /\ pc \in {"start", "slot_change", "sync", "nak", "lrc"} => Needed = 1
      /\ pc = "header" => Needed = HeaderRead
      /\ pc = "rest" => Needed = to_read - HeaderRead
  BY DEF Needed
<1>2. pc \in {"start", "slot_change", "sync", "nak", "header", "rest", "lrc"}
  BY DEF Place
<1> DEFINE n == Needed
<1>3. Consumes(bs, n, R, S) /\ n = Needed
  OBVIOUS
<1> HIDE DEF n
<1>4. CASE pc = "start"
  BY <1>1, <1>4, ParseStart
<1>5. CASE pc \in {"slot_change", "sync", "nak"}
  BY <1>1, <1>5, ParseShort
<1>6. CASE pc = "header"
  BY <1>1, <1>6, ParseHeader
<1>7. CASE pc = "rest"
  BY <1>1, <1>3, <1>7, ParseRest
<1>8. CASE pc = "lrc"
  BY <1>1, <1>8, ParseLrc
<1> QED
  BY <1>2, <1>4, <1>5, <1>6, <1>7, <1>8

\* StepInv of the next state, from the stream it leaves.
LEMMA Restated ==
  ASSUME NEW S, S = Rest', StepParts(S)'
  PROVE  StepInv'
BY DEF StepInv

-----------------------------------------------------------------------------
(* get_bytes and ReadChunk keep in step                                    *)

LEMMA TakeSteps ==
  ASSUME IInv, StepInv, Take
  PROVE  StepInv'
<1> SUFFICES ASSUME inStep PROVE StepInv'
  <2>1. inStep' = inStep
    BY DEF Take
  <2> QED
    BY <2>1 DEF StepInv
<1>1. /\ Place /\ Buffers /\ Counters
      /\ pc # "idle" /\ UNCHANGED <<chunk, buffer, line, pbSeq, answered, plugged>>
      /\ Needed <= Len(buffer) - buffer_offset /\ buffer_offset' = buffer_offset + Needed
      /\ Parse(SubSeq(buffer, buffer_offset + 1, buffer_offset + Needed))
  BY DEF IInv, Take, Available, readerVars
<1> DEFINE n == Needed
           bs == SubSeq(buffer, buffer_offset + 1, buffer_offset + n)
           S == RestOf(buffer, buffer_offset + n, chunk, line)
<1>2. n \in Nat
  BY <1>1, NeededType
<1>3. S = Rest'
  BY <1>1 DEF Rest, RestOf
<1>4. Consumes(bs, n, Rest, S)
  <2>1. /\ buffer \in Seq(Bytes) /\ chunk \in Seq(Bytes) /\ line \in Seq(Bytes)
        /\ buffer_offset \in 0..Len(buffer) /\ n <= Len(buffer) - buffer_offset
    BY <1>1 DEF Buffers, Counters
  <2> HIDE DEF n
  <2>2. Consumes(bs, n, RestOf(buffer, buffer_offset, chunk, line), S)
    BY <1>2, <2>1, TakeParts
  <2> QED
    BY <2>2 DEF Rest
<1>5. StepParts(Rest)
  BY DEF StepInv
<1> DEFINE R == Rest
<1>6. Consumes(bs, Needed, R, S) /\ Parse(bs) /\ StepParts(R)
  BY <1>1, <1>4, <1>5
<1> HIDE DEF bs, R
<1>7. \A T : T = S => StepParts(T)'
  <2> SUFFICES ASSUME NEW T, T = S PROVE StepParts(T)'
    OBVIOUS
  <2>1. Consumes(bs, Needed, R, T)
    BY <1>6
  <2> HIDE DEF S
  <2> QED
    BY <1>1, <1>6, <2>1, ParseSteps
<1> QED
  <2>1. PICK T : T = S
    OBVIOUS
  <2>2. T = Rest' /\ StepParts(T)'
    BY <1>3, <1>7, <2>1
  <2> QED
    BY <2>2, Restated

LEMMA EndChunkSteps ==
  ASSUME IInv, StepInv, EndChunk
  PROVE  StepInv'
<1> SUFFICES ASSUME inStep PROVE StepInv'
  <2>1. inStep' = inStep
    BY DEF EndChunk
  <2> QED
    BY <2>1 DEF StepInv
<1> DEFINE j == Needed - Available
           bs == SubSeq(buffer, buffer_offset + 1, Len(buffer)) \o SubSeq(chunk, 1, j)
           S == RestOf(chunk, j, <<>>, line)
           R == Rest
<1>1. /\ Place /\ Buffers /\ Counters /\ Reading /\ reading
      /\ UNCHANGED <<line, pbSeq, answered, plugged>>
      /\ Len(chunk) >= Needed - Available /\ Parse(bs)
      /\ chunk' = <<>> /\ buffer' = chunk /\ buffer_offset' = Needed - Available
  BY DEF IInv, EndChunk, FreshOffset, readerVars
<1>2. /\ buffer \in Seq(Bytes) /\ chunk \in Seq(Bytes) /\ line \in Seq(Bytes)
      /\ buffer_offset \in 0..Len(buffer) /\ Len(buffer) \in Nat /\ Len(chunk) \in Nat
  BY <1>1, LenProperties DEF Buffers, Counters
<1>3. Needed \in Nat /\ pc # "idle" /\ Needed > Available /\ Available = Len(buffer) - buffer_offset
  BY <1>1, NeededType DEF Reading, Available
<1>4. j \in Nat /\ j <= Len(chunk) /\ (Len(buffer) - buffer_offset) + j = Needed
  <2> DEFINE n == Needed
             a == Len(buffer) - buffer_offset
  <2>1. /\ n \in Nat /\ a \in Nat /\ n > a /\ Len(chunk) >= n - a /\ j = n - a /\ Len(chunk) \in Nat
    BY <1>1, <1>2, <1>3
  <2> HIDE DEF n, a, j
  <2>2. j \in Nat /\ j <= Len(chunk) /\ a + j = n
    BY ONLY <2>1
  <2> QED
    BY <2>2 DEF n, a
<1>5. S = Rest'
  BY <1>1 DEF Rest, RestOf
<1> HIDE DEF j
<1>6. Consumes(bs, Needed, R, S)
  <2>1. Consumes(bs, (Len(buffer) - buffer_offset) + j, RestOf(buffer, buffer_offset, chunk, line), S)
    BY <1>2, <1>4, EndParts
  <2> QED
    BY <1>4, <2>1 DEF Rest
<1>7. Parse(bs) /\ StepParts(R)
  BY <1>1 DEF StepInv
<1> HIDE DEF bs, R
<1>8. \A T : T = S => StepParts(T)'
  <2> SUFFICES ASSUME NEW T, T = S PROVE StepParts(T)'
    OBVIOUS
  <2>1. Consumes(bs, Needed, R, T)
    BY <1>6
  <2> HIDE DEF S
  <2> QED
    BY <1>1, <1>3, <1>7, <2>1, ParseSteps
<1> QED
  <2>1. PICK T : T = S
    OBVIOUS
  <2>2. T = Rest' /\ StepParts(T)'
    BY <1>5, <1>8, <2>1
  <2> QED
    BY <2>2, Restated

\* A step of the line only, or one that moves bytes nearer to ReadSerial.
LEMMA Unmoved ==
  ASSUME StepInv, Rest' = Rest,
         UNCHANGED <<pc, status, answer, to_read, pbSeq, answered, plugged, inStep>>
  PROVE  StepInv'
<1> SUFFICES ASSUME inStep PROVE StepInv'
  BY DEF StepInv
<1>1. PICK S : S = Rest
  OBVIOUS
<1>2. StepParts(S) /\ S = Rest'
  BY <1>1 DEF StepInv
<1>3. Units(S)' /\ Counts'
  BY <1>2 DEF StepParts, Units, Counts
<1>4. Answers(S)'
  BY <1>2 DEF StepParts, Answers
<1>5. \A d : Ccid(pbSeq, d)' = Ccid(pbSeq, d)
  BY DEF Ccid, Frame, Byte
<1>6. Stands(S)'
  BY <1>2, <1>5 DEF StepParts, Stands, Byte
<1>7. Outcome'
  BY <1>2, <1>5 DEF StepParts, Outcome
<1> QED
  BY <1>2, <1>3, <1>4, <1>6, <1>7, Restated DEF StepParts

LEMMA StartChunkSteps ==
  ASSUME IInv, StepInv, Quiet, StartChunk
  PROVE  StepInv'
<1>1. chunk' = chunk
  BY DEF StartChunk, Quiet
<1>2. Rest' = Rest
  BY <1>1 DEF StartChunk, Rest, RestOf, readerVars
<1> QED
  BY <1>2, Unmoved DEF StartChunk, readerVars

LEMMA ReadSomeSteps ==
  ASSUME IInv, StepInv, ReadSome
  PROVE  StepInv'
<1>1. PICK k \in 1..Room :
        /\ k <= Len(line) /\ chunk' = chunk \o SubSeq(line, 1, k)
        /\ line' = SubSeq(line, k + 1, Len(line))
  BY DEF ReadSome
<1>2. /\ chunk \in Seq(Bytes) /\ line \in Seq(Bytes) /\ buffer \in Seq(Bytes)
      /\ buffer_offset \in 0..Len(buffer) /\ Len(line) \in Nat /\ k \in Nat
      /\ UNCHANGED <<buffer, buffer_offset>>
  <2>1. Room \in Int
    BY Sizes, LenProperties DEF IInv, Buffers, Room
  <2> QED
    BY <2>1, LenProperties DEF IInv, Buffers, Counters, ReadSome
<1> DEFINE p == SubSeq(buffer, buffer_offset + 1, Len(buffer))
           x == SubSeq(line, 1, k)
           y == SubSeq(line, k + 1, Len(line))
<1>3. x \in Seq(Bytes) /\ y \in Seq(Bytes) /\ x \o y = line
  <2>1. SubSeq(line, 0 + 1, k) \in Seq(Bytes) /\ 0 + 1 = 1
    BY <1>1, <1>2, Part
  <2>2. y \in Seq(Bytes)
    BY <1>1, <1>2, Part
  <2>3. x \o y = line
    <3>1. 1 \in 1..Len(line) + 1 /\ k \in 1 - 1..Len(line) /\ Len(line) \in k..Len(line)
      BY <1>1, <1>2
    <3>2. x \o y = SubSeq(line, 1, Len(line))
      BY <1>2, <3>1, ConcatAdjacentSubSeq
    <3> QED
      BY <1>2, <3>2, SubSeqFull
  <2> QED
    BY <2>1, <2>2, <2>3
<1>4. p \in Seq(Bytes)
  BY <1>2, LenProperties, Part
<1> HIDE DEF p, x, y
<1>5. (p \o (chunk \o x)) \o y = (p \o chunk) \o line
  <2>0. \A s, t, v \in Seq(Bytes) : (s \o t) \o v = s \o (t \o v)
    BY Regroup, Zenon
  <2>1. (p \o chunk) \o x = p \o (chunk \o x)
    BY <1>2, <1>3, <1>4, <2>0, ZenonT(60)
  <2>2. p \o chunk \in Seq(Bytes)
    BY <1>2, <1>4, ConcatProperties
  <2>3. ((p \o chunk) \o x) \o y = (p \o chunk) \o (x \o y)
    BY <1>3, <2>0, <2>2
  <2> QED
    BY <1>3, <2>1, <2>3
<1>6. Rest' = Rest
  BY <1>1, <1>2, <1>5 DEF Rest, RestOf, p, x, y
<1> QED
  BY <1>6, Unmoved DEF ReadSome, readVars

LEMMA RestType ==
  ASSUME IInv
  PROVE  /\ Rest \in Seq(Bytes) /\ Len(Rest) \in Nat
         /\ Len(Rest) = (Len(buffer) - buffer_offset) + Len(chunk) + Len(line)
<1>1. /\ buffer \in Seq(Bytes) /\ chunk \in Seq(Bytes) /\ line \in Seq(Bytes)
      /\ buffer_offset \in 0..Len(buffer)
  BY DEF IInv, Buffers, Counters
<1>2. Joined(RestOf(buffer, buffer_offset, chunk, line), buffer, buffer_offset,
             Len(buffer) - buffer_offset, chunk, line)
  BY <1>1, RestParts
<1> QED
  BY <1>2 DEF Joined, Rest

\* select times out only when there is nothing left of any unit: ReadSerial waits for
\* the beginning of an answer that will not come.
LEMMA TimeoutFindsNothing ==
  ASSUME IInv, StepParts(Rest), Timeout
  PROVE  Len(Rest) = 0
<1> DEFINE R == Rest
           L == Len(R)
           a == Len(buffer) - buffer_offset
           n == Needed
<1>1. /\ Place /\ Reading /\ reading /\ plugged /\ line = <<>> /\ Len(chunk) < n - a /\ n > a
  BY DEF IInv, Timeout, Reading, Available
<1>2. /\ n \in Nat /\ a \in Nat /\ Len(chunk) \in Nat /\ L = a + Len(chunk) /\ L \in Nat /\ R \in Seq(Bytes)
  <2>1. Len(buffer) \in Nat /\ buffer_offset \in 0..Len(buffer) /\ Len(chunk) \in Nat
    BY LenProperties DEF IInv, Buffers
  <2>2. Len(line) = 0
    BY <1>1
  <2> QED
    BY <1>1, <2>1, <2>2, RestType, NeededType
<1>3. L < n
  <2> HIDE DEF L, a, n
  <2> QED
    BY <1>1, <1>2
<1>4. Sound(R) /\ Complete(R) /\ Stands(R)
  BY <1>1 DEF StepParts, Units
<1>5. /\ pc \in {"start", "slot_change", "sync", "nak", "lrc"} => n = 1
      /\ pc = "header" => n = HeaderRead
      /\ pc = "rest" => n = to_read - HeaderRead
  BY DEF Needed
<1>6. pc # "idle"
  BY <1>1 DEF Reading
<1> HIDE DEF R, L, a, n
<1>7. CASE pc \in {"start", "slot_change", "sync", "nak", "lrc"}
  BY <1>2, <1>3, <1>5, <1>7 DEF L, R
<1>8. ASSUME L > 0
      PROVE  1 - R[1].pos + UnitSize(R[1]) <= L /\ R[1] \in Bytes /\ R[1].kind # "noise"
  <2>1. 1 \in 1..Len(R)
    BY <1>2, <1>8 DEF L
  <2> QED
    BY <1>2, <1>4, <2>1, ElementOfSeq DEF L, Complete, Sound
<1>9. CASE pc = "header"
  <2>1. L > 0 /\ R[1].kind = "frame" /\ R[1].pos = 3
    BY <1>1, <1>4, <1>9 DEF Stands, L
  <2>2. /\ UnitSize(R[1]) = 3 + HeaderSize + R[1].size /\ R[1].size \in Nat
        /\ 1 - R[1].pos + UnitSize(R[1]) <= L
    BY <1>8, <2>1 DEF UnitSize, Bytes
  <2> QED
    BY <1>2, <1>3, <1>5, <1>9, <2>1, <2>2, Sizes
<1>10. CASE pc = "rest"
  <2>1. PICK d \in DataSizes :
          /\ to_read = HeaderSize + d /\ L > 0
          /\ R[1] = Byte("frame", pbSeq, 3 + HeaderRead, d)
    BY <1>1, <1>4, <1>10 DEF Stands, L
  <2>2. /\ UnitSize(R[1]) = 3 + HeaderSize + d /\ R[1].pos = 3 + HeaderRead /\ d \in Nat
        /\ 1 - R[1].pos + UnitSize(R[1]) <= L
    BY <1>8, <2>1, FrameAssumption DEF UnitSize, Byte
  <2> QED
    BY <1>2, <1>3, <1>5, <1>10, <2>1, <2>2, Sizes
<1> QED
  BY <1>1, <1>6, <1>7, <1>9, <1>10 DEF Place

LEMMA TimeoutSteps ==
  ASSUME IInv, IInv', StepInv, Timeout
  PROVE  StepInv'
<1> SUFFICES ASSUME inStep PROVE StepInv'
  BY DEF StepInv, Timeout
<1>1. StepParts(Rest) /\ Len(Rest) = 0
  BY TimeoutFindsNothing DEF StepInv
<1>2. PICK S : S = Rest'
  OBVIOUS
<1>3. S \in Seq(Bytes) /\ Len(S) = 0
  <2>1. /\ Len(buffer) \in Nat /\ buffer_offset \in 0..Len(buffer) /\ Len(chunk) \in Nat
        /\ Len(line) \in Nat
    BY LenProperties DEF IInv, Buffers, Counters
  <2>2. Len(Rest) = (Len(buffer) - buffer_offset) + Len(chunk) + Len(line)
    BY RestType
  <2>3. Len(buffer) - buffer_offset = 0
    BY <1>1, <2>1, <2>2
  <2>4. /\ Rest' \in Seq(Bytes)
        /\ Len(Rest)' = (Len(buffer)' - buffer_offset') + Len(chunk)' + Len(line)'
    <3>1. /\ buffer' \in Seq(Bytes) /\ chunk' \in Seq(Bytes) /\ line' \in Seq(Bytes)
          /\ buffer_offset' \in 0..Len(buffer')
      BY DEF IInv, Buffers, Counters
    <3>2. Joined(RestOf(buffer', buffer_offset', chunk', line'), buffer', buffer_offset',
                 Len(buffer') - buffer_offset', chunk', line')
      BY <3>1, RestParts
    <3> QED
      BY <3>2 DEF Joined, Rest
  <2>5. Len(chunk)' = 0 /\ Len(line)' = 0 /\ buffer_offset' = buffer_offset
    BY DEF Timeout, FailChunk, readerVars
  <2>6. Len(buffer)' = Len(buffer)
    <3>1. buffer \in Seq(Bytes) /\ DOMAIN buffer = 1..Len(buffer)
      BY LenProperties DEF IInv, Buffers
    <3>2. DOMAIN buffer' = 1..Len(buffer)
      BY <3>1 DEF Timeout, FailChunk
    <3>3. buffer' \in Seq(Bytes)
      BY DEF IInv, Buffers
    <3>4. DOMAIN buffer' = 1..Len(buffer') /\ Len(buffer') \in Nat
      BY <3>3, LenProperties
    <3> QED
      BY <2>1, <3>2, <3>4
  <2> QED
    BY <1>2, <2>1, <2>3, <2>4, <2>5, <2>6
<1>4. pc' = "idle" /\ status' = "COMM_ERROR" /\ answered' = answered /\ pbSeq' = pbSeq /\ answered = pbSeq
  BY DEF Timeout, FailChunk, Return, readerVars
<1>5. Units(S)'
  BY <1>3 DEF Units, Sound, Whole, Complete
<1>6. Answers(S)'
  BY <1>3 DEF Answers, AnswersOf, FirstOnce, NoFirst, NoAnswer
<1>7. Counts' /\ Outcome'
  BY <1>4 DEF Counts, Outcome
<1>8. Stands(S)'
  BY <1>3, <1>4 DEF Stands
<1> QED
  BY <1>2, <1>5, <1>6, <1>7, <1>8, Restated DEF StepParts

-----------------------------------------------------------------------------
(* The caller, the reader and the line keep in step                        *)

\* A stream of nothing but whole events, as InStep asks for.
LEMMA EventsOnly ==
  ASSUME NEW R \in Seq(Bytes),
         \A k \in DOMAIN R :
           /\ R[k].kind \in {"event", "time"}
           /\ R[k] = SlotChange[2] => k > 1 /\ R[k - 1] = SlotChange[1]
           /\ R[k] = SlotChange[1] /\ plugged => k < Len(R) /\ R[k + 1] = SlotChange[2]
  PROVE  /\ NoAnswer(R) /\ Sound(R)
         /\ Len(R) > 0 => R[1].pos = 1
         /\ plugged => Whole(R) /\ Complete(R)
<1>1. /\ DOMAIN R = 1..Len(R) /\ Len(R) \in Nat
      /\ SlotChange[1] = Byte("event", 0, 1, 0) /\ SlotChange[2] = Byte("event", 0, 2, 0)
  BY LenProperties DEF SlotChange
<1>2. ASSUME NEW k \in 1..Len(R)
      PROVE  \/ R[k].kind = "time" /\ R[k].pos = 1 /\ UnitSize(R[k]) = 1
             \/ R[k] = SlotChange[1] /\ R[k].kind = "event" /\ R[k].pos = 1 /\ UnitSize(R[k]) = 2
             \/ R[k] = SlotChange[2] /\ R[k].kind = "event" /\ R[k].pos = 2 /\ UnitSize(R[k]) = 2
  <2>1. R[k] \in Bytes /\ R[k].kind \in {"event", "time"}
    BY <1>1, ElementOfSeq
  <2>2. CASE R[k].kind = "time"
    BY <2>1, <2>2 DEF Bytes, UnitSize
  <2>3. CASE R[k].kind = "event"
    <3>1. R[k].pos \in 1..2 /\ R[k].size = 0 /\ R[k].cmd = 0 /\ UnitSize(R[k]) = 2
      BY <2>1, <2>3 DEF Bytes, UnitSize
    <3>2. R[k].pos = 1 \/ R[k].pos = 2
      BY <3>1
    <3>3. R[k] = [kind |-> "event", cmd |-> 0, pos |-> R[k].pos, size |-> 0]
      BY <2>1, <2>3, <3>1 DEF Bytes
    <3> QED
      BY <1>1, <2>3, <3>1, <3>2, <3>3 DEF Byte
  <2> QED
    BY <2>1, <2>2, <2>3
<1>3. NoAnswer(R) /\ Sound(R)
  BY <1>2 DEF NoAnswer, IsAnswer, Sound
<1>4. ASSUME Len(R) > 0 PROVE R[1].pos = 1
  <2>1. 1 \in 1..Len(R) /\ ~(1 > 1)
    BY <1>1, <1>4
  <2>2. R[1] # SlotChange[2]
    BY <1>1, <2>1
  <2> QED
    BY <1>2, <2>1, <2>2
<1>5. ASSUME plugged PROVE Complete(R)
  <2> SUFFICES ASSUME NEW k \in 1..Len(R) PROVE k - R[k].pos + UnitSize(R[k]) <= Len(R)
    BY DEF Complete
  <2>1. R[k] = SlotChange[1] => k < Len(R)
    BY <1>1, <1>5
  <2> QED
    BY <1>1, <1>2, <2>1
<1>6. ASSUME plugged PROVE Whole(R)
  <2> SUFFICES ASSUME NEW k \in 1..Len(R), NEW l \in 1..Len(R),
                      l - k + R[k].pos \in 1..UnitSize(R[k])
               PROVE  R[l] = At(R[k], l - k + R[k].pos)
    BY DEF Whole
  <2>0. k \in Nat /\ l \in Nat
    OBVIOUS
  <2>1. CASE l = k
    <3>1. R[k] \in Bytes /\ R[k].kind # "noise"
      BY <1>3, ElementOfSeq DEF Sound
    <3>2. At(R[k], R[k].pos) = R[k] /\ R[k].pos \in Nat
      BY <3>1, ByteFacts
    <3>3. l - k + R[k].pos = R[k].pos
      BY <2>0, <2>1, <3>2
    <3> QED
      BY <2>1, <3>2, <3>3
  <2>2. CASE l # k
    <3>1. \/ R[k] = SlotChange[1] /\ l = k + 1 /\ l - k + R[k].pos = 2
          \/ R[k] = SlotChange[2] /\ l = k - 1 /\ l - k + R[k].pos = 1
      BY <1>2, <2>0, <2>2, SMTT(30)
    <3>2. CASE R[k] = SlotChange[1] /\ l = k + 1 /\ l - k + R[k].pos = 2
      <4>1. R[l] = SlotChange[2]
        BY <1>1, <1>6, <3>2
      <4>2. At(SlotChange[1], 2) = SlotChange[2]
        BY <1>1 DEF At, Byte
      <4> QED
        BY <3>2, <4>1, <4>2
    <3>3. CASE R[k] = SlotChange[2] /\ l = k - 1 /\ l - k + R[k].pos = 1
      <4>1. R[l] = SlotChange[1]
        BY <1>1, <3>3
      <4> QED
        BY <1>1, <3>3, <4>1 DEF At, Byte
    <3> QED
      BY <3>1, <3>2, <3>3
  <2> QED
    BY <2>1, <2>2
<1> QED
  BY <1>3, <1>4, <1>5, <1>6

\* Between two calls ReadChunk has nothing of its own.
LEMMA UnreadIsRest ==
  ASSUME IInv, chunk = <<>>
  PROVE  Unread = Rest
<1>1. buffer \in Seq(Bytes) /\ buffer_offset \in Nat /\ buffer_offset <= Len(buffer) /\ Len(buffer) \in Nat
  BY LenProperties DEF IInv, Buffers
<1>2. SubSeq(buffer, buffer_offset + 1, Len(buffer)) \in Seq(Bytes)
  BY <1>1, Part
<1>3. SubSeq(buffer, buffer_offset + 1, Len(buffer)) \o <<>> = SubSeq(buffer, buffer_offset + 1, Len(buffer))
  BY <1>2, ConcatEmptySeq
<1> QED
  BY <1>3 DEF Unread, Rest, RestOf

\* A command is in step when nothing but whole events is unread.
LEMMA CommandSteps ==
  ASSUME IInv, StepInv, Quiet, Command
  PROVE  StepInv'
<1>1. pc = "idle" /\ chunk = <<>>
  BY DEF Command, Quiet, IInv, Reading
<1>2. /\ Rest' = Rest /\ pbSeq' = pbSeq + 1 /\ answer' = <<>> /\ pbSeq \in Nat
      /\ plugged' = plugged /\ Rest \in Seq(Bytes)
  BY RestType DEF Command, portVars, Rest, RestOf, IInv, Counters
<1>3. PICK S : S = Rest
  OBVIOUS
<1>4. CASE plugged
  <2>1. pc' = "start" /\ status' = "none" /\ inStep' = InStep /\ answered' = answered
    BY <1>4 DEF Command
  <2> SUFFICES ASSUME InStep PROVE StepInv'
    BY <2>1 DEF StepInv
  <2>2. answered = pbSeq
    BY DEF InStep
  <2>3. NoAnswer(S) /\ Sound(S) /\ (Len(S) > 0 => S[1].pos = 1) /\ Whole(S) /\ Complete(S)
    <3>1. Unread = S /\ S \in Seq(Bytes)
      BY <1>1, <1>2, <1>3, UnreadIsRest
    <3>2. \A k \in DOMAIN S :
           /\ S[k].kind \in {"event", "time"}
           /\ S[k] = SlotChange[2] => k > 1 /\ S[k - 1] = SlotChange[1]
           /\ S[k] = SlotChange[1] /\ plugged => k < Len(S) /\ S[k + 1] = SlotChange[2]
      BY <3>1 DEF InStep
    <3> QED
      BY <1>4, <3>1, <3>2, EventsOnly
  <2>4. Units(S)'
    BY <2>3 DEF Units
  <2>5. Answers(S)'
    BY <2>1, <2>3 DEF Answers, AnswersOf, FirstOnce, NoFirst, NoAnswer, First
  <2>6. Counts'
    BY <1>2, <1>4, <2>1, <2>2 DEF Counts
  <2>7. Outcome'
    BY <2>1 DEF Outcome
  <2>8. Stands(S)'
    BY <2>1, <2>3 DEF Stands
  <2> QED
    BY <1>2, <1>3, <2>4, <2>5, <2>6, <2>7, <2>8, Restated DEF StepParts
<1>5. CASE ~plugged
  <2>1. pc' = "idle" /\ status' = "COMM_ERROR" /\ answered' = pbSeq' /\ inStep' = inStep
    BY <1>5 DEF Command, Return
  <2> SUFFICES ASSUME inStep PROVE StepInv'
    BY <2>1 DEF StepInv
  <2>2. Units(S) /\ Answers(S) /\ Stands(S)
    BY <1>3 DEF StepInv, StepParts
  <2>3. NoAnswer(S)
    BY <1>1, <2>2 DEF Answers
  <2>4. Units(S)'
    BY <1>2, <2>2 DEF Units
  <2>5. Answers(S)'
    BY <2>3 DEF Answers, AnswersOf, FirstOnce, NoFirst, NoAnswer, First
  <2>6. Counts'
    BY <2>1 DEF Counts
  <2>7. Outcome'
    BY <2>1 DEF Outcome
  <2>8. Stands(S)'
    BY <1>1, <2>1, <2>2 DEF Stands
  <2> QED
    BY <1>2, <1>3, <2>4, <2>5, <2>6, <2>7, <2>8, Restated DEF StepParts
<1> QED
  BY <1>4, <1>5

\* A stream of one unit of the given kind.
LEMMA OneUnit ==
  ASSUME NEW U \in Seq(Bytes), NEW kind \in {"frame", "nak", "event", "time"}, NEW n, NEW d,
         Len(U) > 0, UnitSize(Byte(kind, n, 1, d)) = Len(U),
         \A k \in 1..Len(U) : U[k] = Byte(kind, n, k, d)
  PROVE  /\ Sound(U) /\ Whole(U) /\ Complete(U) /\ Begins(U)
         /\ AnswersOf(U, n) /\ FirstOnce(U) /\ (kind \in {"event", "time"} => NoAnswer(U))
         /\ U[1].pos = 1
<1>1. /\ Len(U) \in Nat
      /\ \A k \in 1..Len(U) : /\ U[k].kind = kind /\ U[k].cmd = n /\ U[k].pos = k /\ U[k].size = d
                              /\ UnitSize(U[k]) = Len(U)
  <2>1. Len(U) \in Nat
    BY LenProperties
  <2>2. \A k : /\ Byte(kind, n, k, d).kind = kind /\ Byte(kind, n, k, d).cmd = n
               /\ Byte(kind, n, k, d).pos = k /\ Byte(kind, n, k, d).size = d
    BY DEF Byte
  <2>3. \A k : UnitSize(Byte(kind, n, k, d)) = UnitSize(Byte(kind, n, 1, d))
    BY <2>2 DEF UnitSize
  <2> QED
    BY <2>1, <2>2, <2>3
<1>2. Sound(U) /\ Begins(U)
  BY <1>1 DEF Sound, Begins
<1>3. Complete(U)
  BY <1>1 DEF Complete
<1>4. Whole(U)
  <2> SUFFICES ASSUME NEW k \in 1..Len(U), NEW l \in 1..Len(U) PROVE U[l] = At(U[k], l - k + U[k].pos)
    BY DEF Whole
  <2>1. l - k + U[k].pos = l
    BY <1>1, SMTT(30)
  <2>2. At(Byte(kind, n, k, d), l) = Byte(kind, n, l, d)
    BY DEF At, Byte
  <2> QED
    BY <2>1, <2>2
<1>5. AnswersOf(U, n) /\ (kind \in {"event", "time"} => NoAnswer(U))
  BY <1>1 DEF AnswersOf, NoAnswer, IsAnswer
<1>6. FirstOnce(U)
  BY <1>1 DEF FirstOnce, First
<1>7. U[1].pos = 1
  BY <1>1
<1> QED
  BY <1>2, <1>3, <1>4, <1>5, <1>6, <1>7

LEMMA ReaderSendsUnits ==
  ASSUME NEW n \in Nat, NEW U,
         \/ \E d \in DataSizes : U = Frame(n, d)
         \/ U = Nak(n) \/ U = SlotChange \/ U = TimeRequest
  PROVE  /\ U \in Seq(Bytes) /\ Len(U) > 0 /\ U[1].pos = 1
         /\ Sound(U) /\ Whole(U) /\ Complete(U) /\ Begins(U) /\ FirstOnce(U)
         /\ AnswersOf(U, n) /\ (U \in {SlotChange, TimeRequest} => NoAnswer(U))
<1>1. U \in Seq(Bytes)
  BY ReaderSendsBytes
<1>2. ASSUME NEW d \in DataSizes, U = Frame(n, d)
      PROVE  /\ Len(U) > 0 /\ U[1].pos = 1 /\ Sound(U) /\ Whole(U) /\ Complete(U) /\ Begins(U)
             /\ FirstOnce(U) /\ AnswersOf(U, n) /\ U[1].kind = "frame"
  <2>1. /\ Len(U) = 3 + HeaderSize + d /\ d \in Nat /\ HeaderSize \in Nat
        /\ \A k \in 1..3 + HeaderSize + d : U[k] = Byte("frame", n, k, d)
    BY <1>2, FrameParts, Sizes
  <2>2. UnitSize(Byte("frame", n, 1, d)) = Len(U) /\ Len(U) > 0
    BY <2>1 DEF UnitSize, Byte
  <2>3. U[1].kind = "frame"
    BY <2>1 DEF Byte
  <2> QED
    BY <1>1, <2>1, <2>2, <2>3, OneUnit
<1>3. ASSUME U = Nak(n)
      PROVE  /\ Len(U) > 0 /\ U[1].pos = 1 /\ Sound(U) /\ Whole(U) /\ Complete(U) /\ Begins(U)
             /\ FirstOnce(U) /\ AnswersOf(U, n) /\ U[1].kind = "nak"
  <2>1. Len(U) = 3 /\ \A k \in 1..3 : U[k] = Byte("nak", n, k, 0)
    BY <1>3 DEF Nak
  <2>2. UnitSize(Byte("nak", n, 1, 0)) = Len(U) /\ Len(U) > 0 /\ U[1].kind = "nak"
    BY <2>1 DEF UnitSize, Byte
  <2> QED
    BY <1>1, <2>1, <2>2, OneUnit
<1>4. ASSUME U = SlotChange
      PROVE  /\ Len(U) > 0 /\ U[1].pos = 1 /\ Sound(U) /\ Whole(U) /\ Complete(U) /\ Begins(U)
             /\ FirstOnce(U) /\ NoAnswer(U)
  <2>1. Len(U) = 2 /\ \A k \in 1..2 : U[k] = Byte("event", 0, k, 0)
    BY <1>4 DEF SlotChange
  <2>2. UnitSize(Byte("event", 0, 1, 0)) = Len(U) /\ Len(U) > 0
    BY <2>1 DEF UnitSize, Byte
  <2> QED
    BY <1>1, <2>1, <2>2, OneUnit
<1>5. ASSUME U = TimeRequest
      PROVE  /\ Len(U) > 0 /\ U[1].pos = 1 /\ Sound(U) /\ Whole(U) /\ Complete(U) /\ Begins(U)
             /\ FirstOnce(U) /\ NoAnswer(U)
  <2>1. Len(U) = 1 /\ \A k \in 1..1 : U[k] = Byte("time", 0, k, 0)
    BY <1>5 DEF TimeRequest
  <2>2. UnitSize(Byte("time", 0, 1, 0)) = Len(U) /\ Len(U) > 0
    BY <2>1 DEF UnitSize, Byte
  <2> QED
    BY <1>1, <2>1, <2>2, OneUnit
<1>6. NoAnswer(U) => AnswersOf(U, n)
  BY DEF NoAnswer, AnswersOf
<1>7. U \in {SlotChange, TimeRequest} => NoAnswer(U)
  BY <1>4, <1>5
<1> QED
  BY <1>1, <1>2, <1>3, <1>4, <1>5, <1>6, <1>7

\* What the reader sends comes to the end of the stream.
LEMMA SentIsRest ==
  ASSUME IInv, NEW U \in Seq(Bytes), Sends(U)
  PROVE  Rest' = Rest \o U
<1> DEFINE p == SubSeq(buffer, buffer_offset + 1, Len(buffer))
           q == p \o chunk
<1>1. /\ buffer \in Seq(Bytes) /\ chunk \in Seq(Bytes) /\ line \in Seq(Bytes)
      /\ buffer_offset \in Nat /\ buffer_offset <= Len(buffer) /\ Len(buffer) \in Nat
  BY LenProperties DEF IInv, Buffers, Counters
<1>2. p \in Seq(Bytes)
  BY <1>1, Part
<1> HIDE DEF p
<1>3. q \in Seq(Bytes)
  BY <1>1, <1>2, ConcatProperties
<1>4. Rest = q \o line
  BY DEF Rest, RestOf, p
<1>5. Rest' = q \o (line \o U)
  BY DEF Rest, RestOf, p, Sends, portVars
<1> HIDE DEF q
<1>6. \A s, t, v \in Seq(Bytes) : (s \o t) \o v = s \o (t \o v)
  BY Regroup, Zenon
<1> QED
  BY <1>1, <1>3, <1>4, <1>5, <1>6

\* The stream with a unit more.
LEMMA Grown ==
  ASSUME IInv, StepParts(Rest), NEW U, NEW n \in Nat, U \in Seq(Bytes), Len(U) > 0, U[1].pos = 1,
         Sound(U), Whole(U), Complete(U), Begins(U), FirstOnce(U), AnswersOf(U, n),
         NoAnswer(U) \/ (NoAnswer(Rest) /\ n = pbSeq), Sends(U), NEW S, S = Rest'
  PROVE  /\ Units(S)' /\ AnswersOf(S, pbSeq) /\ FirstOnce(S)
         /\ NoAnswer(U) /\ NoAnswer(Rest) => NoAnswer(S)
         /\ NoAnswer(U) /\ NoFirst(Rest) => NoFirst(S)
         /\ Len(S) > 0 /\ S[1] = IF Len(Rest) > 0 THEN Rest[1] ELSE U[1]
<1> DEFINE R == Rest
           a == Len(R)
           m == Len(U)
<1>1. R \in Seq(Bytes) /\ a \in Nat /\ m \in Nat /\ m > 0 /\ S = R \o U
  BY RestType, SentIsRest, LenProperties
<1>2. /\ Sound(R) /\ Whole(R) /\ Complete(R) /\ AnswersOf(R, pbSeq) /\ FirstOnce(R)
  BY DEF StepParts, Units, Answers, Sends
<1>3. plugged' = plugged /\ pbSeq' = pbSeq
  BY DEF Sends
<1> HIDE DEF R
<1>4. /\ S \in Seq(Bytes) /\ Len(S) = a + m
      /\ \A k \in 1..a + m : S[k] = IF k <= a THEN R[k] ELSE U[k - a]
  BY <1>1, ConcatProperties
<1>5. Sound(S) /\ Whole(S) /\ Complete(S)
  BY <1>1, <1>2, <1>4, WithUnit
<1> HIDE DEF a, m
<1>6. ASSUME NEW k \in 1..Len(S)
      PROVE  \/ k \in 1..Len(R) /\ S[k] = R[k]
             \/ k - a \in 1..Len(U) /\ S[k] = U[k - a] /\ k \notin 1..Len(R)
  <2>1. S[k] = IF k <= a THEN R[k] ELSE U[k - a]
    BY <1>4
  <2>2. k \in 1..a \/ (k - a \in 1..m /\ ~(k <= a))
    BY <1>1, <1>4
  <2> QED
    BY <2>1, <2>2 DEF a, m
<1>7. AnswersOf(S, pbSeq)
  BY <1>2, <1>6 DEF AnswersOf, NoAnswer
<1>8. FirstOnce(S)
  <2> SUFFICES ASSUME NEW k \in 1..Len(S), NEW l \in 1..Len(S), First(S[k]), First(S[l])
               PROVE  k = l
    BY DEF FirstOnce
  <2>1. CASE NoAnswer(U)
    <3>1. k \in 1..Len(R) /\ l \in 1..Len(R) /\ First(R[k]) /\ First(R[l])
      BY <1>6, <2>1 DEF NoAnswer, First
    <3> QED
      BY <1>2, <3>1 DEF FirstOnce
  <2>2. CASE NoAnswer(R)
    <3>1. k - a \in 1..Len(U) /\ l - a \in 1..Len(U) /\ First(U[k - a]) /\ First(U[l - a])
      BY <1>6, <2>2 DEF NoAnswer, First
    <3>2. k - a = l - a
      BY <3>1 DEF FirstOnce
    <3> QED
      BY <1>1, <3>2
  <2> QED
    BY <2>1, <2>2 DEF R
<1>9. ASSUME NoAnswer(U), NoAnswer(R) PROVE NoAnswer(S)
  BY <1>6, <1>9 DEF NoAnswer
<1>10. ASSUME NoAnswer(U), NoFirst(R) PROVE NoFirst(S)
  BY <1>6, <1>10 DEF NoAnswer, NoFirst, First
<1>11. Len(S) > 0 /\ S[1] = IF Len(R) > 0 THEN R[1] ELSE U[1]
  <2>1. Len(S) > 0 /\ 1 \in 1..a + m /\ (1 <= a <=> Len(R) > 0) /\ (~(1 <= a) => 1 - a = 1)
    BY <1>1, <1>4 DEF a
  <2> QED
    BY <1>4, <2>1
<1>12. Units(S)'
  BY <1>3, <1>5 DEF Units
<1> QED
  BY <1>7, <1>8, <1>9, <1>10, <1>11, <1>12 DEF R

LEMMA AnswerSteps ==
  ASSUME IInv, StepInv, Answer
  PROVE  StepInv'
<1> SUFFICES ASSUME inStep PROVE StepInv'
  BY DEF StepInv, Answer, Sends
<1>1. StepParts(Rest) /\ answered < pbSeq /\ answered \in Nat /\ pbSeq \in Nat /\ answered' = answered + 1
  BY DEF StepInv, Answer, IInv, Counters
<1>2. /\ answered # pbSeq
      /\ answered = pbSeq - 1 /\ plugged /\ pc \in {"start", "slot_change"} /\ NoAnswer(Rest)
  <2>1. answered # pbSeq
    BY <1>1
  <2> QED
    BY <1>1, <2>1 DEF StepParts, Counts, Answers
<1>3. answered' = pbSeq
  BY <1>1, <1>2
<1>4. PICK U : /\ \/ \E d \in DataSizes : U = Frame(pbSeq, d)
                  \/ U = Nak(pbSeq)
               /\ Sends(U)
  BY <1>3 DEF Answer
<1>5. /\ U \in Seq(Bytes) /\ Len(U) > 0 /\ U[1].pos = 1
      /\ Sound(U) /\ Whole(U) /\ Complete(U) /\ Begins(U) /\ FirstOnce(U) /\ AnswersOf(U, pbSeq)
  BY <1>1, <1>4, ReaderSendsUnits
<1>6. PICK S : S = Rest'
  OBVIOUS
<1>7. /\ Units(S)' /\ AnswersOf(S, pbSeq) /\ FirstOnce(S) /\ Len(S) > 0
      /\ S[1] = IF Len(Rest) > 0 THEN Rest[1] ELSE U[1]
  BY <1>1, <1>2, <1>4, <1>5, <1>6, Grown
<1>8. /\ pc' = pc /\ status' = status /\ answer' = answer /\ pbSeq' = pbSeq /\ plugged' = plugged
      /\ inStep' = inStep
  BY <1>4 DEF Sends, readVars
<1>9. Answers(S)'
  BY <1>2, <1>3, <1>7, <1>8 DEF Answers
<1>10. Counts'
  BY <1>1, <1>2, <1>3, <1>8 DEF StepParts, Counts
<1>11. Outcome'
  BY <1>1, <1>2, <1>8 DEF StepParts, Outcome
<1>12. Stands(S)'
  <2>1. Stands(Rest)
    BY <1>1 DEF StepParts
  <2>2. CASE pc = "start"
    BY <1>5, <1>7, <1>8, <2>1, <2>2 DEF Stands
  <2>3. CASE pc = "slot_change"
    BY <1>2, <1>7, <1>8, <2>1, <2>3 DEF Stands
  <2> QED
    BY <1>2, <2>2, <2>3
<1> QED
  BY <1>6, <1>7, <1>9, <1>10, <1>11, <1>12, Restated DEF StepParts

LEMMA EventSteps ==
  ASSUME IInv, StepInv, Event
  PROVE  StepInv'
<1>1. PICK U : U \in {SlotChange, TimeRequest} /\ Sends(U) /\ answered' = answered
  BY DEF Event
<1> SUFFICES ASSUME inStep PROVE StepInv'
  BY <1>1 DEF StepInv, Sends
<1>2. StepParts(Rest) /\ plugged /\ pbSeq \in Nat
  BY <1>1 DEF StepInv, Sends, IInv, Counters
<1>3. /\ U \in Seq(Bytes) /\ Len(U) > 0 /\ U[1].pos = 1 /\ NoAnswer(U)
      /\ Sound(U) /\ Whole(U) /\ Complete(U) /\ Begins(U) /\ FirstOnce(U) /\ AnswersOf(U, pbSeq)
  BY <1>1, <1>2, ReaderSendsUnits
<1>4. PICK S : S = Rest'
  OBVIOUS
<1>5. /\ Units(S)' /\ AnswersOf(S, pbSeq) /\ FirstOnce(S) /\ Len(S) > 0
      /\ NoAnswer(Rest) => NoAnswer(S)
      /\ NoFirst(Rest) => NoFirst(S)
      /\ S[1] = IF Len(Rest) > 0 THEN Rest[1] ELSE U[1]
  BY <1>1, <1>2, <1>3, <1>4, Grown
<1>6. /\ pc' = pc /\ status' = status /\ answer' = answer /\ to_read' = to_read /\ pbSeq' = pbSeq
      /\ plugged' = plugged
  BY <1>1 DEF Sends, readVars
<1>7. Answers(S)'
  BY <1>1, <1>2, <1>5, <1>6 DEF StepParts, Answers
<1>8. Counts'
  BY <1>1, <1>2, <1>6 DEF StepParts, Counts
<1>9. \A d : Ccid(pbSeq, d)' = Ccid(pbSeq, d)
  BY <1>6 DEF Ccid, Frame, Byte
<1>10. Outcome'
  BY <1>2, <1>6, <1>9 DEF StepParts, Outcome
<1>11. Stands(S)'
  <2>1. Stands(Rest)
    BY <1>2 DEF StepParts
  <2>2. CASE pc \in {"idle", "start"}
    BY <1>3, <1>5, <1>6, <2>1, <2>2 DEF Stands
  <2>3. CASE pc \notin {"idle", "start"}
    <3>1. Len(Rest) > 0 /\ S[1] = Rest[1]
      BY <1>2, <1>5, <2>1, <2>3 DEF Stands
    <3> QED
      BY <1>5, <1>6, <1>9, <2>1, <2>3, <3>1 DEF Stands, Byte
  <2> QED
    BY <2>2, <2>3
<1> QED
  BY <1>4, <1>5, <1>7, <1>8, <1>10, <1>11, Restated DEF StepParts

LEMMA LoseSteps ==
  ASSUME IInv, StepInv, Lose
  PROVE  StepInv'
<1> SUFFICES ASSUME inStep PROVE StepInv'
  BY DEF StepInv, Lose
<1>1. /\ StepParts(Rest) /\ answered < pbSeq /\ answered \in Nat /\ pbSeq \in Nat
      /\ answered' = answered + 1
  BY DEF StepInv, Lose, IInv, Counters
<1>2. answered = pbSeq - 1 /\ pc \in {"start", "slot_change"}
  <2>1. answered # pbSeq
    BY <1>1
  <2> QED
    BY <1>1, <2>1 DEF StepParts, Counts
<1>3. /\ answered' = pbSeq /\ Rest' = Rest
      /\ UNCHANGED <<pc, status, answer, to_read, pbSeq, plugged>>
  BY <1>1, <1>2 DEF Lose, readVars, portVars, Rest, RestOf
<1>4. PICK S : S = Rest
  OBVIOUS
<1>5. Units(S)'
  BY <1>1, <1>3, <1>4 DEF StepParts, Units
<1>6. Answers(S)'
  BY <1>1, <1>2, <1>3, <1>4 DEF StepParts, Answers
<1>7. Counts'
  BY <1>1, <1>3 DEF StepParts, Counts
<1>8. \A d : Ccid(pbSeq, d)' = Ccid(pbSeq, d)
  BY <1>3 DEF Ccid, Frame, Byte
<1>9. Outcome'
  BY <1>1, <1>3, <1>8 DEF StepParts, Outcome
<1>10. Stands(S)'
  BY <1>1, <1>2, <1>3, <1>4 DEF StepParts, Stands
<1> QED
  BY <1>3, <1>4, <1>5, <1>6, <1>7, <1>9, <1>10, Restated DEF StepParts

\* The line takes with it what had arrived.
LEMMA UnplugSteps ==
  ASSUME IInv, StepInv, Unplug
  PROVE  StepInv'
<1> SUFFICES ASSUME inStep PROVE StepInv'
  BY DEF StepInv, Unplug
<1>1. StepParts(Rest)
  BY DEF StepInv
<1>2. /\ plugged' = FALSE /\ line' = <<>> /\ answered' = pbSeq
      /\ UNCHANGED <<pc, status, answer, to_read, pbSeq, buffer, buffer_offset, chunk>>
  BY DEF Unplug, readVars, portVars
<1>3. PICK S : S = RestOf(buffer, buffer_offset, chunk, <<>>)
  OBVIOUS
<1>4. S = Rest'
  BY <1>2, <1>3 DEF Rest, RestOf
<1> DEFINE R == Rest
<1>5. /\ S \in Seq(Bytes) /\ R \in Seq(Bytes) /\ Len(S) \in Nat /\ Len(R) \in Nat /\ Len(S) <= Len(R)
      /\ \A k \in 1..Len(S) : S[k] = R[k]
  <2> DEFINE m == Len(buffer) - buffer_offset
             e == <<>>
  <2>1. /\ buffer \in Seq(Bytes) /\ chunk \in Seq(Bytes) /\ line \in Seq(Bytes) /\ e \in Seq(Bytes)
        /\ buffer_offset \in 0..Len(buffer) /\ Len(chunk) \in Nat /\ Len(line) \in Nat /\ Len(e) = 0
        /\ Len(buffer) \in Nat /\ m \in Nat
    BY EmptySeq, LenProperties DEF IInv, Buffers, Counters
  <2>2. Joined(S, buffer, buffer_offset, m, chunk, e)
    BY <1>3, <2>1, RestParts
  <2>3. Joined(R, buffer, buffer_offset, m, chunk, line)
    BY <2>1, RestParts DEF Rest
  <2> HIDE DEF e, m, R
  <2>4. /\ S \in Seq(Bytes) /\ Len(S) = m + Len(chunk) + Len(e) /\ Len(S) \in Nat
        /\ \A k \in 1..Len(S) :
             S[k] = IF k <= m THEN buffer[buffer_offset + k]
                    ELSE IF k - m <= Len(chunk) THEN chunk[k - m] ELSE e[k - m - Len(chunk)]
    BY <2>2 DEF Joined
  <2>5. /\ R \in Seq(Bytes) /\ Len(R) = m + Len(chunk) + Len(line) /\ Len(R) \in Nat
        /\ \A k \in 1..Len(R) :
             R[k] = IF k <= m THEN buffer[buffer_offset + k]
                    ELSE IF k - m <= Len(chunk) THEN chunk[k - m] ELSE line[k - m - Len(chunk)]
    BY <2>3 DEF Joined
  <2>6. Len(S) <= Len(R) /\ Len(S) = m + Len(chunk)
    BY <2>1, <2>4, <2>5
  <2>7. \A k \in 1..Len(S) : k \in 1..Len(R) /\ (~(k <= m) => k - m <= Len(chunk))
    BY <2>1, <2>4, <2>5, <2>6
  <2>8. ASSUME NEW k \in 1..Len(S) PROVE S[k] = R[k]
    BY <2>4, <2>5, <2>7
  <2> QED
    BY <2>4, <2>5, <2>6, <2>8
<1>6. Sound(S) /\ Whole(S)
  BY <1>1, <1>5, CutOff DEF StepParts, Units
<1>7. \A k \in 1..Len(S) : k \in 1..Len(R) /\ S[k] = R[k]
  BY <1>5
<1>8. /\ AnswersOf(R, pbSeq) /\ FirstOnce(R) /\ (pc = "idle" => NoAnswer(R))
      /\ pc \notin {"start", "slot_change"} => NoFirst(R)
  BY <1>1 DEF StepParts, Answers
<1>9. Len(S) > 0 => Len(R) > 0 /\ S[1] = R[1]
  BY <1>5
<1> HIDE DEF R
<1>10. /\ AnswersOf(S, pbSeq) /\ FirstOnce(S) /\ (pc = "idle" => NoAnswer(S))
       /\ pc \notin {"start", "slot_change"} => NoFirst(S)
  BY <1>7, <1>8 DEF AnswersOf, FirstOnce, NoAnswer, NoFirst
<1>11. Units(S)'
  BY <1>2, <1>6 DEF Units
<1>12. Answers(S)'
  BY <1>2, <1>10 DEF Answers
<1>13. Counts'
  BY <1>1, <1>2 DEF StepParts, Counts
<1>14. \A d : Ccid(pbSeq, d)' = Ccid(pbSeq, d)
  BY <1>2 DEF Ccid, Frame, Byte
<1>15. Outcome'
  BY <1>1, <1>2, <1>14 DEF StepParts, Outcome
<1>16. Stands(S)'
  <2>1. Stands(R)
    BY <1>1 DEF StepParts, R
  <2> QED
    BY <1>2, <1>9, <1>14, <2>1 DEF Stands, Byte
<1> QED
  BY <1>4, <1>11, <1>12, <1>13, <1>15, <1>16, Restated DEF StepParts

LEMMA QuietNext ==
  ASSUME Quiet, [Next]_vars
  PROVE  Quiet'
<1>1. CASE Driver
  BY <1>1 DEF Quiet, Driver, Take, StartChunk, ReadSome, EndChunk, Timeout, FailChunk, readVars
<1>2. CASE Late \/ Command
  BY <1>2 DEF Quiet, Late, FailChunk, Command, portVars
<1>3. CASE Answer \/ Event
  BY <1>3 DEF Quiet, Answer, Event, Sends, readVars, portVars
<1>4. CASE Lose \/ Garble \/ Unplug
  BY <1>4 DEF Quiet, Lose, Garble, Unplug, readVars, portVars
<1>5. CASE UNCHANGED vars
  BY <1>5 DEF Quiet, vars, readVars, portVars
<1> QED
  BY <1>1, <1>2, <1>3, <1>4, <1>5 DEF Next

LEMMA StepInit == Init => StepInv /\ Quiet
<1> SUFFICES ASSUME Init PROVE StepInv /\ Quiet
  OBVIOUS
<1>1. IInv
  BY FrameInit
<1>2. PICK S : S = Rest
  OBVIOUS
<1>3. Len(S) = 0
  <2>1. Len(buffer) = 0 /\ buffer_offset = 0 /\ Len(chunk) = 0 /\ Len(line) = 0
    BY DEF Init
  <2> QED
    BY <1>1, <1>2, <2>1, RestType
<1>4. Units(S)
  BY <1>3 DEF Units, Sound, Whole, Complete
<1>5. Answers(S)
  BY <1>3 DEF Answers, AnswersOf, FirstOnce, NoFirst, NoAnswer
<1>6. Counts /\ Outcome
  BY DEF Init, Counts, Outcome
<1>7. Stands(S)
  BY <1>3 DEF Init, Stands
<1>8. Quiet
  BY DEF Init, Quiet
<1> QED
  BY <1>2, <1>4, <1>5, <1>6, <1>7, <1>8 DEF StepInv, StepParts

LEMMA StepNext ==
  ASSUME IInv, IInv', Quiet, StepInv, [Next]_vars
  PROVE  StepInv'
<1>1. CASE Take \/ StartChunk \/ ReadSome \/ EndChunk \/ Timeout
  BY <1>1, TakeSteps, StartChunkSteps, ReadSomeSteps, EndChunkSteps, TimeoutSteps
<1>2. CASE Late \/ Garble
  BY <1>2 DEF StepInv, Late, Garble
<1>3. CASE Command \/ Answer \/ Event \/ Lose \/ Unplug
  BY <1>3, CommandSteps, AnswerSteps, EventSteps, LoseSteps, UnplugSteps
<1>4. CASE UNCHANGED vars
  <2>1. Rest' = Rest
    BY <1>4 DEF vars, portVars, readerVars, Rest, RestOf
  <2> QED
    BY <1>4, <2>1, Unmoved DEF vars, readVars, readerVars
<1> QED
  BY <1>1, <1>2, <1>3, <1>4 DEF Next, Driver

LEMMA StepAlways == Spec => [](IInv /\ StepInv /\ Quiet)
<1>1. Init => IInv /\ StepInv /\ Quiet
  BY FrameInit, StepInit
<1>2. IInv /\ StepInv /\ Quiet /\ [Next]_vars => (IInv /\ StepInv /\ Quiet)'
  BY FrameNext, StepNext, QuietNext
<1> QED
  BY <1>1, <1>2, PTL DEF Spec

\* WriteSerial and ReadSerial: a call that starts with nothing but whole events unread,
\* and meets no garbled byte and no late answer, succeeds only with the whole CCID frame
\* that answers its own command.
THEOREM AnswerIsOwn == Spec => []OwnAnswer
<1>1. StepInv => OwnAnswer
  BY DEF StepInv, StepParts, Outcome, OwnAnswer
<1> QED
  BY <1>1, StepAlways, PTL

\* Such a call, whatever it returns, leaves nothing but whole events behind, so that the
\* next one starts as well: one call in step keeps all that follow in step.  The caller's
\* buffer holds every frame (FrameAssumption): ReadSerial leaves the rest of one that is
\* too long for it unread.
THEOREM StepIsKept == Spec => []StaysInStep
<1>1. IInv /\ StepInv /\ Quiet => StaysInStep
  <2> SUFFICES ASSUME IInv, StepInv, Quiet, inStep, pc = "idle" PROVE InStep
    BY DEF StaysInStep
  <2>1. chunk = <<>>
    BY DEF IInv, Reading, Quiet
  <2> DEFINE R == Rest
  <2>2. R = Unread
    BY <2>1, UnreadIsRest
  <2>3. /\ Sound(R) /\ Whole(R) /\ (plugged => Complete(R)) /\ NoAnswer(R)
        /\ Len(R) > 0 => R[1].pos = 1
        /\ answered = pbSeq
    BY DEF StepInv, StepParts, Units, Answers, Counts, Stands
  <2>4. R \in Seq(Bytes) /\ DOMAIN R = 1..Len(R) /\ Len(R) \in Nat
    BY RestType, LenProperties
  <2>5. SlotChange[1] = Byte("event", 0, 1, 0) /\ SlotChange[2] = Byte("event", 0, 2, 0)
    BY DEF SlotChange
  <2>6. At(SlotChange[1], 2) = SlotChange[2] /\ At(SlotChange[2], 1) = SlotChange[1]
    BY <2>5 DEF At, Byte
  <2>7. /\ SlotChange[1].pos = 1 /\ SlotChange[2].pos = 2
        /\ UnitSize(SlotChange[1]) = 2 /\ UnitSize(SlotChange[2]) = 2
    BY <2>5 DEF Byte, UnitSize
  <2> HIDE DEF R
  <2>8. ASSUME NEW k \in DOMAIN R
        PROVE  /\ R[k].kind \in {"event", "time"}
               /\ R[k] = SlotChange[2] => k > 1 /\ R[k - 1] = SlotChange[1]
               /\ R[k] = SlotChange[1] /\ plugged => k < Len(R) /\ R[k + 1] = SlotChange[2]
    <3>0. k \in 1..Len(R) /\ k \in Nat
      BY <2>4
    <3>1. R[k] \in Bytes /\ R[k].kind # "noise" /\ ~IsAnswer(R[k])
      BY <2>3, <2>4, <3>0, ElementOfSeq DEF Sound, NoAnswer
    <3>2. R[k].kind \in {"event", "time"}
      BY <3>1 DEF Bytes, IsAnswer
    <3>3. ASSUME R[k] = SlotChange[2] PROVE k > 1 /\ R[k - 1] = SlotChange[1]
      <4>1. k # 1
        BY <2>3, <2>4, <2>7, <3>0, <3>3
      <4>2. k - 1 \in 1..Len(R) /\ k > 1 /\ (k - 1) - k + R[k].pos = 1
        BY <2>4, <2>7, <3>0, <3>3, <4>1
      <4> DEFINE l == k - 1
      <4>3. l \in 1..Len(R) /\ l - k + R[k].pos = 1 /\ 1 \in 1..UnitSize(R[k])
        BY <2>7, <3>3, <4>2
      <4> HIDE DEF l
      <4>4. R[l] = At(R[k], l - k + R[k].pos)
        BY <2>3, <3>0, <4>3 DEF Whole
      <4> QED
        BY <2>6, <3>3, <4>2, <4>3, <4>4 DEF l
    <3>4. ASSUME R[k] = SlotChange[1], plugged PROVE k < Len(R) /\ R[k + 1] = SlotChange[2]
      <4>1. k - 1 + 2 <= Len(R)
        BY <2>3, <2>7, <3>0, <3>4 DEF Complete
      <4>2. k + 1 \in 1..Len(R) /\ k < Len(R) /\ (k + 1) - k + R[k].pos = 2
        BY <2>4, <2>7, <3>0, <3>4, <4>1
      <4> DEFINE l == k + 1
      <4>3. l \in 1..Len(R) /\ l - k + R[k].pos = 2 /\ 2 \in 1..UnitSize(R[k])
        BY <2>7, <3>4, <4>2
      <4> HIDE DEF l
      <4>4. R[l] = At(R[k], l - k + R[k].pos)
        BY <2>3, <3>0, <4>3 DEF Whole
      <4> QED
        BY <2>6, <3>4, <4>2, <4>3, <4>4 DEF l
    <3> QED
      BY <3>2, <3>3, <3>4
  <2> QED
    BY <2>2, <2>3, <2>8 DEF InStep
<1> QED
  BY <1>1, StepAlways, PTL
=============================================================================
