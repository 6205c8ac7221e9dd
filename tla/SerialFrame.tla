----------------------------- MODULE SerialFrame -----------------------------
(***************************************************************************)
(* Commands and answers on the serial line to the reader: WriteSerial,     *)
(* ReadSerial, get_bytes and ReadChunk (jni/SCTool/ccid_serial.c).         *)
(*                                                                         *)
(* The bytes that have arrived are read in pieces of any size into a       *)
(* buffer, from which ReadSerial takes what it needs.  Here a byte is      *)
(* known by the answer it belongs to and its position in it; what it is    *)
(* read as depends on that alone.  The reader and the line are modelled    *)
(* from the frames the comment at the head of the file lists.              *)
(***************************************************************************)
EXTENDS Integers, Sequences

CONSTANTS
    HeaderRead,     \* bytes of the CCID header read first, with dwLength: 5
    HeaderSize,     \* size of the CCID header: 10
    MaxBuf,         \* GEMPCTWIN_MAXBUF, size of the buffer of the port: 548
    MaxLength,      \* *length, size of the buffer of the caller
    DataSizes,      \* dwLength of the answers of the reader
    MaxCommands, MaxEvents, MaxFaults,
    Faults          \* subset of {"lost", "late", "garbled", "unplugged"}

ASSUME FrameAssumption ==
    /\ HeaderRead \in Nat \ {0} /\ HeaderSize \in Nat /\ HeaderRead < HeaderSize
    /\ MaxBuf \in Nat \ {0} /\ MaxLength \in Nat
    /\ DataSizes # {} /\ \A d \in DataSizes : d \in Nat /\ HeaderSize + d <= MaxLength

VARIABLES
    pc,         \* where ReadSerial waits in get_bytes, or "idle"
    status,     \* what it returned last: STATUS_SUCCESS and so on
    answer,     \* the caller's buffer
    to_read,
    reading,    \* get_bytes is in ReadChunk
    chunk,      \* what ReadChunk has read, written over the buffer of the port
    buffer,     \* that buffer up to buffer_offset_last
    buffer_offset,
    \* the other end
    pbSeq,      \* commands written so far
    answered,   \* those the reader has answered, or never will
    line,       \* bytes sent by the reader and not read
    plugged,
    events, faults,     \* how many there were, for the bounds
    inStep      \* nothing but whole events was unread when the last command was
                \* written, and since then no byte was garbled, no answer late

portVars   == <<chunk, buffer, buffer_offset>>
readVars   == <<pc, status, answer, to_read, reading>>
readerVars == <<pbSeq, answered, line, plugged, events, faults>>
vars       == <<readVars, portVars, readerVars, inStep>>

-----------------------------------------------------------------------------
(* Bytes                                                                   *)

Byte(kind, n, p, d) == [kind |-> kind, cmd |-> n, pos |-> p, size |-> d]

\* SYNC, ACK, the CCID frame with d bytes of data, LRC.
Frame(n, d) == [p \in 1..(3 + HeaderSize + d) |-> Byte("frame", n, p, d)]

\* The CCID frame alone, which ReadSerial hands to its caller.
Ccid(n, d) == SubSeq(Frame(n, d), 3, 2 + HeaderSize + d)

Nak(n)      == [p \in 1..3 |-> Byte("nak", n, p, 0)]
SlotChange  == [p \in 1..2 |-> Byte("event", 0, p, 0)]
TimeRequest == << Byte("time", 0, 1, 0) >>

Values == {"SYNC", "ACK", "NAK", "NAK_LRC", "NOTIFY", "TIME", "OTHER"}

\* What a byte is read as.  CARD_PRESENT has the code of SYNC.
Value(b) ==
    CASE b.kind \in {"frame", "nak"} /\ b.pos = 1 -> {"SYNC"}
      [] b.kind = "frame" /\ b.pos = 2            -> {"ACK"}
      [] b.kind = "nak" /\ b.pos = 2              -> {"NAK"}
      [] b.kind = "nak" /\ b.pos = 3              -> {"NAK_LRC"}
      [] b.kind = "event" /\ b.pos = 1            -> {"NOTIFY"}
      [] b.kind = "event" /\ b.pos = 2            -> {"SYNC", "OTHER"}
      [] b.kind = "time"                          -> {"TIME"}
      [] OTHER                                    -> Values

\* The frame sizes the first HeaderRead bytes may announce: any, unless they
\* are the beginning of a frame.
Announced(bs) ==
    IF \E n \in 1..pbSeq, d \in DataSizes : bs = SubSeq(Ccid(n, d), 1, HeaderRead)
    THEN {HeaderSize + bs[1].size}
    ELSE 0..(MaxLength + 1)

\* Bytes that have arrived and ReadSerial has not taken.
Unread == SubSeq(buffer, buffer_offset + 1, Len(buffer)) \o line

\* No answer is under way, and what is unread are whole events: neither half of a
\* card movement is there without the other, which may be lost with the line.
InStep ==
    /\ answered = pbSeq
    /\ \A k \in DOMAIN Unread :
         /\ Unread[k].kind \in {"event", "time"}
         /\ Unread[k] = SlotChange[2] => k > 1 /\ Unread[k - 1] = SlotChange[1]
         /\ Unread[k] = SlotChange[1] /\ plugged => k < Len(Unread) /\ Unread[k + 1] = SlotChange[2]

-----------------------------------------------------------------------------
(* get_bytes and ReadChunk                                                 *)

\* (Mutant of Needed: one byte of the rest is forgotten.)
NeededShort ==
    CASE pc = "header" -> HeaderRead
      [] pc = "rest"   -> to_read - HeaderRead - 1
      [] OTHER         -> 1

\* The length get_bytes is asked for.
Needed ==
    CASE pc = "header" -> HeaderRead
      [] pc = "rest"   -> to_read - HeaderRead
      [] OTHER         -> 1

Available == Len(buffer) - buffer_offset

\* ReadSerial returns.
Return(s) == pc' = "idle" /\ status' = s

Goto(label) == pc' = label /\ UNCHANGED status

\* ReadSerial goes on with the bytes it asked for.  A wrong LRC of an ACK frame
\* is logged only.
Parse(bs) ==
    \/ /\ pc = "start"
       /\ UNCHANGED <<answer, to_read>>
       /\ \E c \in Value(bs[1]) :
            \/ c = "NOTIFY" /\ Goto("slot_change")
            \/ c = "SYNC" /\ Goto("sync")
            \/ c = "TIME" /\ Goto("start")
            \/ c \notin {"NOTIFY", "SYNC", "TIME"} /\ Return("COMM_ERROR")
    \/ /\ pc = "slot_change"
       /\ UNCHANGED <<answer, to_read>>
       /\ Goto("start")
    \/ /\ pc = "sync"
       /\ UNCHANGED <<answer, to_read>>
       /\ \E c \in Value(bs[1]) :
            \/ c = "ACK" /\ Goto("header")
            \/ c = "NAK" /\ Goto("nak")
            \/ c \notin {"ACK", "NAK"} /\ Return("COMM_ERROR")
    \/ /\ pc = "nak"
       /\ UNCHANGED <<answer, to_read>>
       /\ \E c \in Value(bs[1]) :
            Return(IF c = "NAK_LRC" THEN "COMM_NAK" ELSE "COMM_ERROR")
    \/ /\ pc = "header"
       /\ answer' = bs
       /\ \E t \in Announced(bs) :
            /\ to_read' = t
            /\ \/ t \in HeaderSize..MaxLength /\ Goto("rest")
               \/ t \notin HeaderSize..MaxLength /\ Return("COMM_ERROR")
    \/ /\ pc = "rest"
       /\ answer' = answer \o bs
       /\ UNCHANGED to_read
       /\ Goto("lrc")
    \/ /\ pc = "lrc"
       /\ UNCHANGED <<answer, to_read>>
       /\ Return("SUCCESS")

\* get_bytes finds enough bytes in the buffer.
Take ==
    /\ pc # "idle" /\ ~reading
    /\ Needed <= Available
    /\ Parse(SubSeq(buffer, buffer_offset + 1, buffer_offset + Needed))
    /\ buffer_offset' = buffer_offset + Needed
    /\ UNCHANGED <<reading, chunk, buffer, readerVars, inStep>>

\* It does not: what there is is copied, and ReadChunk called.
StartChunk ==
    /\ pc # "idle" /\ ~reading
    /\ Needed > Available
    /\ reading' = TRUE /\ chunk' = << >>
    /\ UNCHANGED <<pc, status, answer, to_read, buffer, buffer_offset, readerVars, inStep>>

\* (Mutant of Room: the whole buffer, whatever has been read.)
RoomWhole == MaxBuf

\* buffer_length - already_read
Room == MaxBuf - Len(chunk)

\* One read: any number of the bytes that have arrived.  (When there is no room
\* left, or the line is unplugged, read returns 0 and the loop goes round.)
ReadSome ==
    /\ reading /\ Len(chunk) < Needed - Available
    /\ \E k \in 1..Room :
         /\ k <= Len(line)
         /\ chunk' = chunk \o SubSeq(line, 1, k)
         /\ line' = SubSeq(line, k + 1, Len(line))
    /\ UNCHANGED <<readVars, buffer, buffer_offset, pbSeq, answered, plugged, events, faults, inStep>>

\* (Mutant of FreshOffset: as if nothing had been in the buffer.)
FreshOffsetWhole == Needed

\* buffer_offset once the fresh bytes have been taken.
FreshOffset == Needed - Available

\* get_bytes takes the rest from the fresh bytes.
EndChunk ==
    /\ reading /\ Len(chunk) >= Needed - Available
    /\ Parse(SubSeq(buffer, buffer_offset + 1, Len(buffer))
                \o SubSeq(chunk, 1, Needed - Available))
    /\ reading' = FALSE /\ chunk' = << >>
    /\ buffer' = chunk /\ buffer_offset' = FreshOffset
    /\ UNCHANGED <<readerVars, inStep>>

\* ReadChunk fails: STATUS_COMM_ERROR.  The bytes read so far lie over the
\* buffer, whose offsets are as before.
FailChunk ==
    /\ Return("COMM_ERROR")
    /\ reading' = FALSE /\ chunk' = << >>
    /\ buffer' = [k \in DOMAIN buffer |-> IF k \in DOMAIN chunk THEN chunk[k] ELSE buffer[k]]
    /\ UNCHANGED <<answer, to_read, buffer_offset>>

\* (Mutant of Timeout: select waits for ever.)
TimeoutNever == FALSE

\* select times out: nothing arrives any more,
Timeout ==
    /\ reading /\ Len(chunk) < Needed - Available
    /\ plugged /\ line = << >> /\ answered = pbSeq
    /\ FailChunk
    /\ UNCHANGED <<readerVars, inStep>>

\* or not in time.
Late ==
    /\ "late" \in Faults /\ faults < MaxFaults
    /\ reading /\ Len(chunk) < Needed - Available
    /\ plugged /\ ~(line = << >> /\ answered = pbSeq)
    /\ FailChunk
    /\ faults' = faults + 1 /\ inStep' = FALSE
    /\ UNCHANGED <<pbSeq, answered, line, plugged, events>>

-----------------------------------------------------------------------------
(* The caller, the reader and the line                                     *)

\* One function of commands.c: WriteSerial, then ReadSerial.  A read before
\* the first byte has arrived is later than the write.
Command ==
    /\ pc = "idle" /\ pbSeq < MaxCommands
    /\ pbSeq' = pbSeq + 1
    /\ answer' = << >> /\ to_read' = 0
    /\ \/ /\ plugged
          /\ pc' = "start" /\ status' = "none"
          /\ inStep' = InStep
          /\ UNCHANGED answered
       \/ /\ ~plugged
          /\ Return("COMM_ERROR")
          /\ answered' = pbSeq'
          /\ UNCHANGED inStep
    /\ UNCHANGED <<reading, portVars, line, plugged, events, faults>>

Sends(bytes) ==
    /\ plugged
    /\ line' = line \o bytes
    /\ UNCHANGED <<readVars, portVars, pbSeq, plugged, inStep>>

\* The reader answers, or rejects what it got.
Answer ==
    /\ answered < pbSeq
    /\ answered' = answered + 1
    /\ \/ \E d \in DataSizes : Sends(Frame(answered', d))
       \/ Sends(Nak(answered'))
    /\ UNCHANGED <<events, faults>>

\* A card movement, or a request for more time.
Event ==
    /\ events < MaxEvents /\ events' = events + 1
    /\ Sends(SlotChange) \/ Sends(TimeRequest)
    /\ UNCHANGED <<answered, faults>>

\* "You will get the echo of the CCID command but not the result."
Lose ==
    /\ "lost" \in Faults /\ faults < MaxFaults /\ faults' = faults + 1
    /\ answered < pbSeq /\ answered' = answered + 1
    /\ UNCHANGED <<readVars, portVars, pbSeq, line, plugged, events, inStep>>

Garble ==
    /\ "garbled" \in Faults /\ faults < MaxFaults /\ faults' = faults + 1
    /\ \E k \in DOMAIN line : line' = [line EXCEPT ![k].kind = "noise"]
    /\ inStep' = FALSE
    /\ UNCHANGED <<readVars, portVars, pbSeq, answered, plugged, events>>

\* The line hangs up: what had arrived is gone.
Unplug ==
    /\ "unplugged" \in Faults /\ plugged
    /\ plugged' = FALSE /\ line' = << >> /\ answered' = pbSeq
    /\ UNCHANGED <<readVars, portVars, pbSeq, events, faults, inStep>>

Init ==
    /\ pc = "idle" /\ status = "none" /\ answer = << >> /\ to_read = 0
    /\ reading = FALSE /\ chunk = << >> /\ buffer = << >> /\ buffer_offset = 0
    /\ pbSeq = 0 /\ answered = 0 /\ line = << >> /\ plugged = TRUE
    /\ events = 0 /\ faults = 0 /\ inStep = TRUE

Driver == Take \/ StartChunk \/ ReadSome \/ EndChunk \/ Timeout

Next == Driver \/ Late \/ Command \/ Answer \/ Event \/ Lose \/ Garble \/ Unplug

\* The driver runs; the reader answers unless the answer is lost.
Fairness == WF_vars(Driver) /\ WF_vars(Answer)

Spec == Init /\ [][Next]_vars /\ Fairness

-----------------------------------------------------------------------------
(* Properties                                                              *)

\* Every variable has its type; in particular neither the offsets nor ReadChunk
\* leave the buffer of the port.
TypeOK ==
    /\ pc \in {"idle", "start", "slot_change", "sync", "nak", "header", "rest", "lrc"}
    /\ status \in {"none", "SUCCESS", "COMM_ERROR", "COMM_NAK"}
    /\ reading \in BOOLEAN /\ plugged \in BOOLEAN /\ inStep \in BOOLEAN
    /\ buffer_offset \in 0..Len(buffer)
    /\ Len(buffer) <= MaxBuf /\ Len(chunk) <= MaxBuf
    /\ Len(answer) <= MaxLength
    /\ answered \in 0..pbSeq

\* An exchange that starts with nothing but events unread and meets no garbled byte and
\* no late answer returns the whole CCID frame of its own command, in however
\* many pieces it arrives and whatever card movements come between.
OwnAnswer ==
    inStep /\ status = "SUCCESS" => \E d \in DataSizes : answer = Ccid(pbSeq, d)

\* Such an exchange, successful or not, leaves nothing but events for the next.
StaysInStep == inStep /\ pc = "idle" => InStep

\* While the line is plugged in every call returns.
CallReturns == pc # "idle" ~> pc = "idle" \/ ~plugged

\* "use select() to, eventually, timeout": every call returns.  Not so once the
\* line has hung up: see README.
AlwaysReturns == pc # "idle" ~> pc = "idle"

=============================================================================
