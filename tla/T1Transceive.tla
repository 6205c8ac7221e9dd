---------------------------- MODULE T1Transceive ----------------------------
(***************************************************************************)
(* The reader side of the T=1 block protocol: t1_transceive,               *)
(* t1_negotiate_ifsd, t1_init and the t1_state_t they share                *)
(* (jni/SCTool/openct/proto-t1.c).                                         *)
(*                                                                         *)
(* One pass of the loop of t1_transceive is one step: the block in `block' *)
(* has been sent, and an action consumes what comes back and decides the   *)
(* next block.  Nothing is assumed of the card or of the line: what comes  *)
(* back is any block, any error.  Module T1Exchange connects a card.       *)
(*                                                                         *)
(* Data is abstracted to positions: an I-block carries the bytes           *)
(* first+1 .. first+len of the send buffer; of the receive buffer only its *)
(* fill level is kept.                                                     *)
(***************************************************************************)
EXTENDS Integers

CONSTANTS
    Retries,        \* t1->retries, 3 in t1_set_defaults
    UintMax,        \* largest unsigned int, what 0 - 1 wraps to
    DefaultIfsc,    \* t1->ifsc after t1_init, 32 in t1_set_defaults
    IfscValues,     \* the IFSC a card may announce (ATR or S(IFS request))
    ChecksumSizes,  \* rc_bytes the ATR may select: 1 is LRC, 2 is CRC
    SendSizes,      \* lengths of the commands to send (snd_len)
    RecvSizes,      \* sizes of the buffers for the response (rcv_len)
    InfSizes,       \* LEN of the I-blocks the card may send
    WtxValues,      \* multipliers a card may ask for in S(WTX request)
    CardMalforms    \* may S-requests arrive with a wrong LEN?

ASSUME RetryAssumption ==
    /\ Retries \in Nat /\ Retries >= 1
    /\ UintMax \in Nat /\ UintMax > Retries

ASSUME SizeAssumption ==
    /\ DefaultIfsc \in Nat \ {0}
    /\ IfscValues \subseteq Nat \ {0}
    /\ ChecksumSizes \subseteq {1, 2}
    /\ SendSizes \subseteq Nat
    /\ RecvSizes \subseteq Nat
    /\ InfSizes \subseteq Nat
    /\ WtxValues \subseteq Nat
    /\ CardMalforms \in BOOLEAN

VARIABLES
    \* t1_state_t
    state, ns, nr, ifsc, wtx, more, rc,
    block,          \* last block built or rebuilt: sdata/slen, previous_block
    \* the locals of the call in progress
    pc, result, sLen, sHead, lastSend, rSize, rTail, retries, resyncs,
    raised          \* readTimeout of the reader is above its base value

t1Vars   == <<state, ns, nr, ifsc, wtx, more, rc>>
sendVars == <<sLen, sHead, lastSend>>
recvVars == <<rSize, rTail>>
loopVars == <<pc, result, retries, resyncs>>
vars     == <<t1Vars, block, sendVars, recvVars, loopVars, raised>>

Bit == {0, 1}

-----------------------------------------------------------------------------
(* Blocks                                                                  *)

Codes == {"none", "edc", "other",                        \* R-blocks
          "RESYNC_req", "IFS_req",                       \* S-requests sent
          "ABORT_resp", "IFS_resp", "WTX_resp"}          \* S-responses sent

Block == [type: {"I", "R", "S"}, seq: Bit, more: BOOLEAN, code: Codes,
          first: Nat, len: Nat, slen: Nat]

AtMost(a, b) == IF a > b THEN b ELSE a

\* (Mutant of Cut: the length is not cut to the IFSC.)
CutForgotten(left) == left

\* Of `left' bytes an I-block carries IFSC at most, and its more bit is set when
\* bytes remain.
Cut(left)   == AtMost(left, ifsc)
Chain(left) == left > ifsc

\* What t1_build makes of the bytes after `head' of a command of `size' bytes.
IBlock(size, head, n) ==
    LET len == Cut(size - head)
    IN  [type |-> "I", seq |-> n, more |-> Chain(size - head),
         code |-> "none", first |-> head, len |-> len, slen |-> len + 3 + rc]

RBlock(n, err) ==
    [type |-> "R", seq |-> n, more |-> FALSE, code |-> err,
     first |-> 0, len |-> 0, slen |-> 3 + rc]

SBlock(kind, len) ==
    [type |-> "S", seq |-> 0, more |-> FALSE, code |-> kind,
     first |-> 0, len |-> len, slen |-> len + 3 + rc]

\* (Mutant of Rebuilt: the checksum is not copied.)
RebuiltPrologue == [block EXCEPT !.slen = 3]

\* t1_rebuild copies four bytes of previous_block.
Rebuilt == [block EXCEPT !.slen = 4]

-----------------------------------------------------------------------------
(* The parts of one pass of the loop                                       *)

\* (Mutant of Left: a pass of the loop costs nothing.)
LeftUncounted == retries

\* `retries--' at the head of the loop, on an unsigned int.
Left == IF retries = 0 THEN UintMax ELSE retries - 1

\* (Mutants of Ns and Unacked: one of the assignments is missing.)
NsKept(acked)      == ns
UnackedKept(acked) == lastSend

\* ns, last_send and the head of sbuf once `ct_buf_get(&sbuf, NULL,
\* last_send); last_send = 0; t1->ns ^= 1;' has run, if it has.
Ns(acked)        == IF acked THEN 1 - ns ELSE ns
Unacked(acked)   == IF acked THEN 0 ELSE lastSend
HeadAfter(acked) == IF acked THEN sHead + lastSend ELSE sHead

\* The call returns; its locals cease to exist.
Return(res) ==
    /\ pc' = "idle" /\ result' = res
    /\ retries' = 0 /\ resyncs' = 0 /\ lastSend' = 0

\* (Mutant of Die: `return -1' without `t1->state = DEAD'.)
DieAlive(acked) ==
    /\ Return("error")
    /\ ns' = Ns(acked)
    /\ UNCHANGED <<state, nr, more, block>>

\* `goto error'
Die(acked) ==
    /\ Return("error")
    /\ state' = "DEAD" /\ ns' = Ns(acked)
    /\ UNCHANGED <<nr, more, block>>

\* `continue' with block b to send, r retries left and the state st.
Continue(b, r, st) ==
    /\ block' = b /\ retries' = r /\ state' = st
    /\ UNCHANGED <<pc, result>>

\* Sending of an R-block: the send window does not move.
SendR(n, err, r, st, acked) ==
    /\ Continue(RBlock(n, err), r, st)
    /\ ns' = Ns(acked) /\ nr' = n /\ lastSend' = Unacked(acked)
    /\ UNCHANGED <<more, resyncs>>

\* (Mutant of SendI: t1->ns is toggled before the block is built.)
SendIToggled(head, n, r, st) ==
    /\ Continue(IBlock(sLen, head, 1 - n), r, st)
    /\ lastSend' = block'.len /\ more' = block'.more
    /\ ns' = n
    /\ UNCHANGED nr

\* Sending of the next I-block, the first unsent byte being at `head'.
SendI(head, n, r, st) ==
    /\ Continue(IBlock(sLen, head, n), r, st)
    /\ lastSend' = block'.len /\ more' = block'.more
    /\ ns' = n
    /\ UNCHANGED nr

\* `resync:', ISO 7816-3 rules 6 and 6.4.
Resync(acked) ==
    \/ resyncs = 0 /\ Die(acked)
    \/ /\ resyncs > 0
       /\ Continue(SBlock("RESYNC_req", 0), 1, "RESYNCH")
       /\ resyncs' = resyncs - 1
       /\ ns' = 0 /\ nr' = 0 /\ more' = FALSE
       /\ lastSend' = Unacked(acked)

\* Rule 7.2: the R-block sent last is sent again.
Rebuild ==
    /\ Continue(Rebuilt, Left, state)
    /\ UNCHANGED <<ns, nr, more, lastSend, resyncs>>

\* (Mutants of Complain: the retries are not looked at, or one too early.)
ComplainUnlimited(err) ==
    \/ block.type = "R" /\ Rebuild
    \/ block.type # "R" /\ SendR(nr, err, Left, state, FALSE)

ComplainEarly(err) ==
    \/ Left <= 1 /\ Resync(FALSE)
    \/ Left > 1 /\ block.type = "R" /\ Rebuild
    \/ Left > 1 /\ block.type # "R" /\ SendR(nr, err, Left, state, FALSE)

\* An invalid answer: rules 7.4.2 and 7.2, then an R-block.
Complain(err) ==
    \/ Left = 0 /\ Resync(FALSE)
    \/ Left > 0 /\ block.type = "R" /\ Rebuild
    \/ Left > 0 /\ block.type # "R" /\ SendR(nr, err, Left, state, FALSE)

\* t1_xcv forgets wtx once the block is out (TPDU reader); a good answer
\* restores readTimeout, an error return leaves it multiplied.  w is what the
\* answer leaves in wtx: 0 unless it is S(WTX request).
Xcv(w)   == pc = "xcv" /\ wtx' = w /\ UNCHANGED <<rc, sLen, rSize>>
XcvGood  == Xcv(0) /\ UNCHANGED raised
XcvError == Xcv(0) /\ raised' = (raised \/ wtx > 1)

\* (Mutant of Fits: off by one.)
FitsAlmost(len) == rTail + len <= rSize + 1

\* ct_buf_put finds room for the block's data.
Fits(len) == rTail + len <= rSize

\* The buffers and the IFSC stay as they are.
SameBuffers == UNCHANGED <<sHead, rTail, ifsc>>

-----------------------------------------------------------------------------
(* Between calls: t1_init, the parameters, the start of a call             *)

\* A successful power up or reset runs t1_init.
T1Init ==
    /\ pc = "idle"
    /\ state' = "SENDING" /\ ns' = 0 /\ nr' = 0 /\ wtx' = 0
    /\ ifsc' = DefaultIfsc /\ rc' = 1 /\ more' = FALSE
    /\ UNCHANGED <<block, sendVars, recvVars, loopVars, raised>>

\* IFDHSetProtocolParameters selects the checksum (c) and computes readTimeout
\* anew, unless the ATR asks for a mode it refuses; then the reader refuses
\* SetParameters, or the IFSC is set (i) and t1_negotiate_ifsd sends its first
\* S(IFS request).
SetProtocolParameters ==
    /\ pc = "idle"
    /\ \E c \in ChecksumSizes \cup {rc} : rc' = c
    /\ UNCHANGED <<state, ns, nr, wtx, more, sendVars, recvVars, result, resyncs>>
    /\ \/ raised' \in {raised, FALSE} /\ UNCHANGED <<ifsc, block, pc, retries>>
       \/ /\ raised' = FALSE
          /\ \E i \in IfscValues \cup {ifsc} : ifsc' = i
          /\ block' = [SBlock("IFS_req", 1) EXCEPT !.slen = 4 + rc']
          /\ pc' = "ifsd" /\ retries' = Retries

\* One answer in the loop of t1_negotiate_ifsd: the right one, a wrong one or a
\* parity error, or a failed exchange.  The retry is counted off before the
\* answer is looked at.
NegotiateIfsd ==
    /\ pc = "ifsd"
    /\ wtx' = 0
    /\ UNCHANGED <<ns, nr, ifsc, more, rc, sendVars, recvVars, result, resyncs, raised>>
    /\ \E answer \in {"good", "bad", "failed"} :
         \/ /\ Left = 0 \/ answer = "failed"
            /\ pc' = "idle" /\ state' = "DEAD" /\ retries' = 0
            /\ UNCHANGED block
         \/ /\ Left > 0 /\ answer = "good"
            /\ pc' = "idle" /\ retries' = 0
            /\ UNCHANGED <<state, block>>
         \/ /\ Left > 0 /\ answer = "bad"
            /\ retries' = Left
            /\ UNCHANGED <<pc, state, block>>

\* t1_transceive refuses an empty command and a dead state machine.
Refuse ==
    /\ pc = "idle"
    /\ state = "DEAD" \/ 0 \in SendSizes
    /\ result' = "error"
    /\ UNCHANGED <<t1Vars, block, sendVars, recvVars, pc, retries, resyncs, raised>>

\* t1_transceive up to its loop: the buffers and the first block.
Transceive ==
    /\ pc = "idle" /\ state # "DEAD"
    /\ \E n \in SendSizes \ {0}, m \in RecvSizes :
         /\ sLen' = n /\ sHead' = 0 /\ rSize' = m /\ rTail' = 0
         /\ block' = IBlock(n, 0, ns)
    /\ lastSend' = block'.len /\ more' = block'.more
    /\ state' = "SENDING" /\ pc' = "xcv" /\ result' = "none"
    /\ retries' = Retries /\ resyncs' = 3
    /\ UNCHANGED <<ns, nr, ifsc, wtx, rc, raised>>

-----------------------------------------------------------------------------
(* What comes back for the block on the line                               *)

\* CCID_Transmit or CCID_Receive failed.
LinkFails == XcvError /\ SameBuffers /\ Die(FALSE)

\* The reader reports a parity error.
ParityError == XcvError /\ SameBuffers /\ Complain("edc")

\* A block with a wrong NAD or LEN 255 ("other") or a wrong checksum ("edc").
Garbled(err) == XcvGood /\ SameBuffers /\ Complain(err)

\* An R-block with LEN # 0 or bit 6 set, or one that asks for a block that
\* cannot be the next (other number, and the last I-block ended its chain).
RBlockRejected(seq, legal) ==
    /\ XcvGood /\ SameBuffers
    /\ ~legal \/ (seq # ns /\ ~more)
    /\ Complain("other")

\* An R-block while the response is being received repeats the last R-block,
\* or asks for the card's block again.
RBlockWhileReceiving(seq, legal) ==
    /\ XcvGood /\ SameBuffers
    /\ legal /\ (seq = ns \/ more)
    /\ state = "RECEIVING"
    /\ \/ block.type = "R" /\ Left = 0 /\ Resync(FALSE)
       \/ block.type = "R" /\ Left > 0 /\ Rebuild
       \/ block.type # "R" /\ SendR(nr, "none", Retries, state, FALSE)

\* An R-block while sending acknowledges the last I-block (other number) or
\* asks for it again; the next block is sent, if there is one.
RBlockWhileSending(seq, legal) ==
    LET acked == seq # ns
    IN  /\ XcvGood
        /\ legal /\ (seq = ns \/ more)
        /\ state # "RECEIVING"
        /\ sHead' = HeadAfter(acked)
        /\ UNCHANGED <<rTail, ifsc>>
        /\ \/ HeadAfter(acked) = sLen /\ Resync(acked)
           \/ /\ HeadAfter(acked) # sLen
              /\ SendI(HeadAfter(acked), Ns(acked), Retries, state)
              /\ UNCHANGED resyncs

\* An I-block: the first one acknowledges what was sent.  One out of sequence
\* is refused (without a look at rule 7.2); otherwise its bytes are taken.
IBlockOutOfSequence(seq) ==
    LET acked == state = "SENDING"
    IN  /\ XcvGood
        /\ seq # nr
        /\ sHead' = HeadAfter(acked)
        /\ UNCHANGED <<rTail, ifsc>>
        /\ \/ Left = 0 /\ Resync(acked)
           \/ Left > 0 /\ SendR(nr, "other", Left, "RECEIVING", acked)

IBlockAccepted(seq, chained, len) ==
    LET acked == state = "SENDING"
    IN  /\ XcvGood
        /\ seq = nr
        /\ sHead' = HeadAfter(acked)
        /\ Fits(len)
        /\ rTail' = rTail + len
        /\ UNCHANGED ifsc
        /\ \/ /\ chained
              /\ SendR(1 - nr, "none", Retries, "RECEIVING", acked)
           \/ /\ ~chained
              /\ Return("ok")
              /\ state' = "RECEIVING" /\ ns' = Ns(acked) /\ nr' = 1 - nr
              /\ UNCHANGED <<more, block>>

IBlockOverrun(seq, len) ==
    LET acked == state = "SENDING"
    IN  /\ XcvGood
        /\ seq = nr
        /\ ~Fits(len)
        /\ sHead' = HeadAfter(acked)
        /\ UNCHANGED <<rTail, ifsc>>
        /\ Return("error")
        /\ state' = "DEAD" /\ ns' = Ns(acked) /\ nr' = 1 - nr
        /\ UNCHANGED <<more, block>>

\* (Mutant of ResynchAnswered: the receive buffer is not emptied.)
ResynchKeepsData ==
    /\ XcvGood
    /\ state = "RESYNCH"
    /\ resyncs' = 3
    /\ SendI(sHead, ns, Retries, "SENDING")
    /\ UNCHANGED <<sHead, rTail, ifsc>>

\* Any S-response answers S(RESYNCH request): the command starts again with
\* what is left in sbuf.  In any other state it is an invalid block.
ResynchAnswered ==
    /\ XcvGood
    /\ state = "RESYNCH"
    /\ rTail' = 0 /\ resyncs' = 3
    /\ SendI(sHead, ns, Retries, "SENDING")
    /\ UNCHANGED <<sHead, ifsc>>

SResponseRejected ==
    XcvGood /\ SameBuffers /\ state # "RESYNCH" /\ Complain("other")

\* An S-request with a wrong LEN: an R-block, whatever `retries' has become.
SRequestMalformed ==
    XcvGood /\ SameBuffers /\ SendR(nr, "other", Left, state, FALSE)

\* S(RESYNCH request), S(IFS request) of 0, an unknown type.
SRequestResync == XcvGood /\ SameBuffers /\ Resync(FALSE)

\* S(ABORT request), S(IFS request) and S(WTX request) are granted.
AnswerS(kind, len) ==
    /\ Continue(SBlock(kind, len), Retries, state)
    /\ UNCHANGED <<sHead, rTail, ns, nr, more, lastSend, resyncs>>

AbortRequest == XcvGood /\ AnswerS("ABORT_resp", 0) /\ UNCHANGED ifsc

IfsRequest(i) == XcvGood /\ ifsc' = i /\ AnswerS("IFS_resp", 1)

WtxRequest(w) ==
    Xcv(w) /\ UNCHANGED <<raised, ifsc>> /\ AnswerS("WTX_resp", 1)

-----------------------------------------------------------------------------

Init ==
    /\ state = "SENDING" /\ ns = 0 /\ nr = 0 /\ wtx = 0
    /\ ifsc = DefaultIfsc /\ rc = 1 /\ more = FALSE
    /\ block = RBlock(0, "none")
    /\ pc = "idle" /\ result = "none" /\ retries = 0 /\ resyncs = 0
    /\ sLen = 0 /\ sHead = 0 /\ lastSend = 0 /\ rSize = 0 /\ rTail = 0
    /\ raised = FALSE

BetweenCalls == T1Init \/ SetProtocolParameters \/ NegotiateIfsd \/ Refuse \/ Transceive

ReceiveError == LinkFails \/ ParityError \/ \E err \in {"edc", "other"} : Garbled(err)

ReceiveR(seq, legal) ==
    \/ RBlockRejected(seq, legal)
    \/ RBlockWhileReceiving(seq, legal)
    \/ RBlockWhileSending(seq, legal)

ReceiveI(seq, chained, len) ==
    \/ IBlockOutOfSequence(seq)
    \/ IBlockAccepted(seq, chained, len)
    \/ IBlockOverrun(seq, len)

ReceiveS ==
    \/ ResynchAnswered \/ SResponseRejected
    \/ CardMalforms /\ SRequestMalformed
    \/ SRequestResync
    \/ AbortRequest
    \/ \E i \in IfscValues : IfsRequest(i)
    \/ \E w \in WtxValues : WtxRequest(w)

Next ==
    \/ BetweenCalls
    \/ ReceiveError
    \/ \E seq \in Bit, legal \in BOOLEAN : ReceiveR(seq, legal)
    \/ \E seq \in Bit, chained \in BOOLEAN, len \in InfSizes : ReceiveI(seq, chained, len)
    \/ ReceiveS

Spec == Init /\ [][Next]_vars

-----------------------------------------------------------------------------
(* Properties                                                              *)

\* Every variable has its type; the receive buffer is never filled beyond its
\* size (ct_buf_put) and the send buffer never read beyond its end.
TypeOK ==
    /\ state \in {"SENDING", "RECEIVING", "RESYNCH", "DEAD"}
    /\ ns \in Bit /\ nr \in Bit /\ ifsc \in Nat \ {0} /\ wtx \in Nat
    /\ more \in BOOLEAN /\ rc \in {1, 2}
    /\ block \in Block
    /\ pc \in {"idle", "xcv", "ifsd"} /\ result \in {"none", "ok", "error"}
    /\ sLen \in Nat /\ sHead \in Nat /\ lastSend \in Nat
    /\ rSize \in Nat /\ rTail \in Nat /\ rTail <= rSize
    /\ retries \in 0..UintMax /\ resyncs \in 0..3
    /\ raised \in BOOLEAN

\* The bytes in flight stay inside the command (ct_buf_get never fails, so ns
\* and the head of sbuf move together); the I-block on the line holds exactly
\* them; while t1->more is set there are bytes behind the window, so the
\* acknowledgement of a chained block always finds a byte to send.
ChainWindow ==
    pc = "xcv" =>
        /\ sHead + lastSend <= sLen
        /\ more => sHead + lastSend < sLen
        /\ block.type = "I" =>
              /\ block.first = sHead /\ block.len = lastSend
              /\ block.more = more /\ block.seq = ns
              /\ more <=> sHead + lastSend < sLen

\* Whatever S(IFS request) arrives in the middle of a chain, an I-block never
\* carries more than the card said last it can hold.
IfscRespected == pc = "xcv" /\ block.type = "I" => block.len <= ifsc

\* A block goes out complete, prologue, data and checksum, the repeated
\* R-blocks of rule 7.2 (t1_rebuild) included.  Not so with the CRC: see README.
WholeBlocks == pc = "xcv" => block.slen = block.len + 3 + rc

\* With the LRC checksum every block is whole.
WholeLrcBlocks == rc = 1 => WholeBlocks

\* The unsigned retry counter is never decremented below zero: `retries <= 0'
\* is seen in time on every path of the loop (with CardMalforms = FALSE).
RetriesPositive == pc = "xcv" => retries \in 1..Retries

\* A pass of the loop that does not restore the retries spends one, or one of
\* the resyncs: an answer that brings nothing cannot be had for ever.
RetriesSpent ==
    [][ pc = "xcv" /\ pc' = "xcv" /\ retries > 0 =>
          \/ retries' = Retries
          \/ resyncs' < resyncs
          \/ resyncs' = resyncs /\ retries' < retries ]_vars

\* Between calls the state machine is not in the middle of a resynchronisation,
\* and a dead one is not in a call.  (A part of the invariant of the proofs.)
Settled ==
    /\ pc = "idle" => state # "RESYNCH"
    /\ pc = "xcv" => state # "DEAD"

\* Whichever of its ways out t1_transceive takes, it leaves the state machine
\* receiving if it returns a response and dead if it returns an error; and a dead
\* one is given no command: only a power up or a reset revives it, which starts
\* both counters anew.
OutcomeState ==
    [][ /\ pc = "xcv" /\ pc' = "idle" =>
              state' = IF result' = "ok" THEN "RECEIVING" ELSE "DEAD"
        /\ pc' = "xcv" => state # "DEAD" /\ state' # "DEAD"
        /\ state = "DEAD" /\ state' # "DEAD" =>
              pc = "idle" /\ state' = "SENDING" /\ ns' = 0 /\ nr' = 0 /\ ~more' ]_vars

\* The readTimeout multiplied for S(WTX request) is temporary: it does not
\* outlive the call.  Not so when the exchange fails: see README.
TimeoutRestored == pc = "idle" => ~raised

=============================================================================
