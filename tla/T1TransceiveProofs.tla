------------------------- MODULE T1TransceiveProofs -------------------------
(***************************************************************************)
(* Theorems about module T1Transceive, for every value of its constants:   *)
(* an inductive invariant (IInv), the invariants that follow from it, and  *)
(* the spending of the retries.                                            *)
(*                                                                         *)
(* The proof has one lemma per way a pass of the loop can end (Resync,     *)
(* SendR, Rebuild, SendI, AnswerS, Return), each saying that it keeps IInv *)
(* whatever the action did to the buffers (Frame); an action then only     *)
(* names the lemma its branches end in.                                    *)
(***************************************************************************)
EXTENDS T1Transceive, TLAPS

\* The part of TypeOK about numbers and strings.
NumbersOK ==
    /\ state \in {"SENDING", "RECEIVING", "RESYNCH", "DEAD"}
    /\ ns \in Bit /\ nr \in Bit /\ ifsc \in Nat \ {0} /\ wtx \in Nat
    /\ rc \in {1, 2}
    /\ pc \in {"idle", "xcv", "ifsd"} /\ result \in {"none", "ok", "error"}
    /\ sLen \in Nat /\ sHead \in Nat /\ lastSend \in Nat
    /\ rSize \in Nat /\ rTail \in Nat /\ rTail <= rSize
    /\ retries \in 0..UintMax /\ resyncs \in 0..3

\* What the block on the line, and RESYNCH, need to be inductive: an R-block
\* has no data (so that four bytes are all of it), and a resynchronisation
\* belongs to a call in progress.
BlockShape ==
    /\ block.type = "R" => block.len = 0
    /\ state = "RESYNCH" => pc = "xcv"

\* The inductive invariant.
IInv ==
    /\ NumbersOK /\ more \in BOOLEAN /\ raised \in BOOLEAN
    /\ block \in Block
    /\ BlockShape
    /\ ChainWindow /\ IfscRespected /\ WholeLrcBlocks /\ Settled

\* What every action on an answer does outside the outcome of the pass.
Frame(acked) ==
    /\ pc = "xcv"
    /\ sHead' = HeadAfter(acked)
    /\ rTail' \in Nat /\ rTail' <= rSize
    /\ wtx' \in Nat /\ raised' \in BOOLEAN
    /\ UNCHANGED <<rc, ifsc, sLen, rSize>>

\* `goto resync' keeps the invariant, whether it goes on or gives up.
LEMMA ResyncInv ==
  ASSUME IInv, NEW acked \in BOOLEAN, Frame(acked), Resync(acked)
  PROVE  IInv'
<1>1. NumbersOK'
  BY RetryAssumption, SMTT(30) DEF IInv, Frame, NumbersOK, Resync, Die, Return,
      Continue, Ns, Unacked, HeadAfter, Bit, ChainWindow
<1>2. more' \in BOOLEAN /\ raised' \in BOOLEAN
  BY Zenon DEF IInv, Frame, Resync, Die
<1>3. (block \in Block /\ BlockShape)'
  <2>1. CASE Die(acked)
    BY <2>1 DEF Die, Return, IInv, BlockShape
  <2>2. CASE Continue(SBlock("RESYNC_req", 0), 1, "RESYNCH")
    BY <2>2 DEF Continue, SBlock, Block, BlockShape, IInv, NumbersOK, Codes, Bit, Frame
  <2> QED BY <2>1, <2>2 DEF Resync
<1>4. (ChainWindow /\ IfscRespected /\ WholeLrcBlocks /\ Settled)'
  <2>1. CASE Die(acked)
    BY <2>1 DEF Die, Return, ChainWindow, IfscRespected, WholeLrcBlocks, WholeBlocks,
        Settled
  <2>2. CASE /\ Continue(SBlock("RESYNC_req", 0), 1, "RESYNCH")
             /\ more' = FALSE /\ lastSend' = Unacked(acked)
    BY <2>2 DEF Continue, SBlock, ChainWindow, IfscRespected, WholeLrcBlocks,
        WholeBlocks, Settled, IInv, NumbersOK, Frame, HeadAfter, Unacked
  <2> QED BY <2>1, <2>2 DEF Resync
<1> QED BY <1>1, <1>2, <1>3, <1>4 DEF IInv

\* The window after an acknowledgement, or without one.
LEMMA AckedWindow ==
  ASSUME IInv, pc = "xcv", NEW acked \in BOOLEAN
  PROVE  /\ HeadAfter(acked) \in Nat /\ Unacked(acked) \in Nat
         /\ HeadAfter(acked) + Unacked(acked) <= sLen
         /\ more => HeadAfter(acked) + Unacked(acked) < sLen
         /\ Ns(acked) \in Bit
<1>1. sHead \in Nat /\ lastSend \in Nat /\ ns \in Bit BY DEF IInv, NumbersOK
<1>2. sHead + lastSend <= sLen BY DEF IInv, ChainWindow
<1>3. more => sHead + lastSend < sLen BY DEF IInv, ChainWindow
<1>4. CASE acked BY <1>1, <1>2, <1>3, <1>4 DEF HeadAfter, Unacked, Ns, Bit
<1>5. CASE ~acked BY <1>1, <1>2, <1>3, <1>5 DEF HeadAfter, Unacked, Ns, Bit
<1> QED BY <1>4, <1>5

\* Sending an R-block keeps the invariant.
LEMMA SendRInv ==
  ASSUME IInv, NEW acked \in BOOLEAN, Frame(acked),
         NEW n \in Bit, NEW err \in {"none", "edc", "other"}, NEW r \in 0..UintMax,
         NEW st \in {"SENDING", "RECEIVING", "RESYNCH"},
         SendR(n, err, r, st, acked)
  PROVE  IInv'
<1>1. NumbersOK'
  BY AckedWindow DEF IInv, Frame, NumbersOK, SendR, Continue
<1>2. more' \in BOOLEAN /\ raised' \in BOOLEAN
  BY Zenon DEF IInv, Frame, SendR
<1>3. (block \in Block /\ BlockShape)'
  BY DEF SendR, Continue, RBlock, Block, BlockShape, IInv, NumbersOK, Codes, Frame
<1>4. (ChainWindow /\ IfscRespected /\ WholeLrcBlocks /\ Settled)'
  <2>1. block' = RBlock(n, err) /\ pc' = "xcv" /\ state' = st /\ UNCHANGED <<more,
      sLen, rc, ifsc>>
        /\ sHead' = HeadAfter(acked) /\ lastSend' = Unacked(acked)
    BY DEF SendR, Continue, Frame
  <2>2. ChainWindow'
    BY <2>1, AckedWindow DEF ChainWindow, RBlock, Frame
  <2>3. (IfscRespected /\ WholeLrcBlocks /\ Settled)'
    BY <2>1 DEF RBlock, IfscRespected, WholeLrcBlocks, WholeBlocks, Settled
  <2> QED BY <2>2, <2>3
<1> QED BY <1>1, <1>2, <1>3, <1>4 DEF IInv

\* Repeating the last R-block keeps the invariant.
LEMMA RebuildInv ==
  ASSUME IInv, Frame(FALSE), Rebuild, block.type = "R", Left \in 0..UintMax
  PROVE  IInv'
<1>1. NumbersOK'
  BY DEF IInv, Frame, NumbersOK, Rebuild, Continue, HeadAfter
<1>2. more' \in BOOLEAN /\ raised' \in BOOLEAN
  BY Zenon DEF IInv, Frame, Rebuild
<1>3. (block \in Block /\ BlockShape)'
  BY DEF Rebuild, Continue, Rebuilt, Block, BlockShape, IInv, NumbersOK, Frame
<1>4. (ChainWindow /\ IfscRespected /\ WholeLrcBlocks /\ Settled)'
  <2>1. /\ block' = Rebuilt /\ pc' = "xcv" /\ state' = state
        /\ UNCHANGED <<more, sLen, rc, ifsc, sHead, lastSend>>
    BY DEF Rebuild, Continue, Frame, HeadAfter
  <2>2. block'.type = "R" /\ block'.len = 0 /\ block'.slen = 4
    BY <2>1 DEF Rebuilt, IInv, BlockShape, Block
  <2>3. ChainWindow'
    BY <2>1, <2>2 DEF ChainWindow, IInv, Frame
  <2>4. (IfscRespected /\ WholeLrcBlocks /\ Settled)'
    BY <2>1, <2>2 DEF IfscRespected, WholeLrcBlocks, WholeBlocks, Settled, IInv,
        Frame
  <2> QED BY <2>3, <2>4
<1> QED BY <1>1, <1>2, <1>3, <1>4 DEF IInv

\* What t1_build makes of the unsent bytes: it fits in IFSC, it stays inside the
\* command, and it has the more bit exactly when bytes remain behind it.
LEMMA IBlockFacts ==
  ASSUME rc \in {1, 2}, ifsc \in Nat \ {0}, NEW size \in Nat, NEW head \in Nat,
         head <= size, NEW n \in Bit
  PROVE  LET b == IBlock(size, head, n)
         IN  /\ b \in Block
             /\ b.type = "I" /\ b.first = head /\ b.seq = n
             /\ b.slen = b.len + 3 + rc
             /\ b.len \in Nat /\ b.len <= ifsc /\ head + b.len <= size
             /\ b.more <=> head + b.len < size
             /\ b.more \in BOOLEAN
<1> DEFINE len == AtMost(size - head, ifsc)
<1>1. len \in Nat /\ head + len <= size /\ len <= ifsc
  BY DEF AtMost
<1>2. size - head > ifsc <=> head + len < size
  BY DEF AtMost
<1>3. (size - head > ifsc) \in BOOLEAN /\ "none" \in Codes /\ len + 3 + rc \in Nat
  BY <1>1 DEF Codes
<1>4. /\ IBlock(size, head, n).type = "I" /\ IBlock(size, head, n).first = head
      /\ IBlock(size, head, n).seq = n /\ IBlock(size, head, n).len = len
      /\ IBlock(size, head, n).slen = len + 3 + rc
      /\ IBlock(size, head, n).more = (size - head > ifsc)
  BY DEF IBlock, Cut, Chain
<1> HIDE DEF len
<1>5. IBlock(size, head, n) \in Block
  BY <1>1, <1>3 DEF IBlock, Cut, Chain, Block, len
<1> QED BY <1>1, <1>2, <1>3, <1>4, <1>5

\* Sending the next I-block keeps the invariant.
LEMMA SendIInv ==
  ASSUME IInv, NEW acked \in BOOLEAN, pc = "xcv", NEW n \in Bit, 
         NEW r \in 0..UintMax, NEW st \in {"SENDING", "RESYNCH"},
         SendI(HeadAfter(acked), n, r, st),
         Frame(acked), resyncs' \in 0..3
  PROVE  IInv'
<1> DEFINE b == IBlock(sLen, HeadAfter(acked), n)
<1>0. HeadAfter(acked) \in Nat /\ HeadAfter(acked) <= sLen
  BY AckedWindow DEF IInv, NumbersOK
<1>1. /\ b \in Block
      /\ b.type = "I" /\ b.first = HeadAfter(acked) /\ b.seq = n
      /\ b.slen = b.len + 3 + rc
      /\ b.len \in Nat /\ b.len <= ifsc /\ HeadAfter(acked) + b.len <= sLen
      /\ b.more <=> HeadAfter(acked) + b.len < sLen
      /\ b.more \in BOOLEAN
  BY <1>0, IBlockFacts DEF IInv, NumbersOK
<1>2. /\ block' = b /\ pc' = "xcv" /\ state' = st /\ ns' = n /\ retries' = r
      /\ lastSend' = b.len /\ more' = b.more /\ sHead' = HeadAfter(acked)
      /\ UNCHANGED <<sLen, rc, ifsc, nr, result, rSize>>
      /\ rTail' \in Nat /\ rTail' <= rSize /\ wtx' \in Nat /\ raised' \in BOOLEAN
  BY DEF SendI, Continue, Frame
<1> HIDE DEF b
<1>3. NumbersOK'
  BY <1>0, <1>1, <1>2 DEF IInv, NumbersOK
<1>4. more' \in BOOLEAN /\ raised' \in BOOLEAN /\ block' \in Block
  BY <1>1, <1>2, Zenon
<1>5. BlockShape'
  BY <1>1, <1>2 DEF BlockShape
<1>6. ChainWindow'
  BY <1>1, <1>2 DEF ChainWindow
<1>7. (IfscRespected /\ WholeLrcBlocks /\ Settled)'
  BY <1>1, <1>2 DEF IfscRespected, WholeLrcBlocks, WholeBlocks, Settled
<1> QED BY <1>3, <1>4, <1>5, <1>6, <1>7 DEF IInv

\* The three outcomes of an invalid answer keep the invariant.
LEMMA ComplainInv ==
  ASSUME IInv, Frame(FALSE), NEW err \in {"edc", "other"}, Complain(err)
  PROVE  IInv'
<1>1. Left \in 0..UintMax
  BY RetryAssumption DEF Left, IInv, NumbersOK
<1>2. CASE Left = 0 /\ Resync(FALSE)
  BY <1>2, ResyncInv
<1>3. CASE block.type = "R" /\ Rebuild
  BY <1>1, <1>3, RebuildInv
<1>4. CASE SendR(nr, err, Left, state, FALSE)
  BY <1>1, <1>4, SendRInv DEF IInv, NumbersOK, Settled, Frame
<1> QED BY <1>2, <1>3, <1>4 DEF Complain

\* The state after t1_init satisfies the invariant.
LEMMA InitInv == Init => IInv
<1> SUFFICES ASSUME Init PROVE IInv OBVIOUS
<1>1. NumbersOK BY SizeAssumption, RetryAssumption DEF Init, NumbersOK, Bit
<1>2. more \in BOOLEAN /\ raised \in BOOLEAN BY DEF Init
<1>3. block \in Block /\ BlockShape BY DEF Init, RBlock, Block, Codes, Bit, BlockShape
<1>4. ChainWindow /\ IfscRespected /\ WholeLrcBlocks /\ Settled
  BY DEF Init, ChainWindow, IfscRespected, WholeLrcBlocks, WholeBlocks, Settled
<1> QED BY <1>1, <1>2, <1>3, <1>4 DEF IInv

\* t1_init keeps the invariant.
LEMMA T1InitInv == ASSUME IInv, T1Init PROVE IInv'
<1>1. NumbersOK'
  BY SizeAssumption DEF T1Init, IInv, NumbersOK, Bit, sendVars, recvVars, loopVars
<1>2. more' \in BOOLEAN /\ raised' \in BOOLEAN
  BY Zenon DEF T1Init, IInv
<1>3. (block \in Block /\ BlockShape /\ ChainWindow /\ IfscRespected /\ WholeLrcBlocks /\ Settled)'
  BY DEF T1Init, IInv, BlockShape, ChainWindow, IfscRespected, WholeLrcBlocks,
      WholeBlocks, Settled, loopVars
<1> QED BY <1>1, <1>2, <1>3 DEF IInv

\* IFDHSetProtocolParameters keeps the invariant.
LEMMA SetProtocolParametersInv == ASSUME IInv, SetProtocolParameters PROVE IInv'
<1>0. /\ rc' \in ChecksumSizes \cup {rc}
      /\ ifsc' \in IfscValues \cup {ifsc}
      /\ retries' \in {retries, Retries}
  BY DEF SetProtocolParameters
<1>1. rc' \in {1, 2} /\ ifsc' \in Nat \ {0} /\ retries' \in 0..UintMax
  BY <1>0, SizeAssumption, RetryAssumption DEF IInv, NumbersOK
<1>2. NumbersOK'
  BY <1>1 DEF SetProtocolParameters, IInv, NumbersOK, sendVars, recvVars
<1>3. more' \in BOOLEAN /\ raised' \in BOOLEAN
  BY Zenon DEF SetProtocolParameters, IInv
<1>4. block' \in Block /\ (block'.type = "R" => block'.len = 0)
  <2>1. CASE UNCHANGED block
    BY <2>1 DEF IInv, BlockShape
  <2>2. CASE block' = [SBlock("IFS_req", 1) EXCEPT !.slen = 4 + rc']
    <3>1. block' = [type |-> "S", seq |-> 0, more |-> FALSE, code |-> "IFS_req",
                    first |-> 0, len |-> 1, slen |-> 4 + rc']
      BY <2>2 DEF SBlock
    <3>0. 4 + rc' \in Nat
      <4>1. rc' = 1 \/ rc' = 2
        BY <1>1
      <4> QED BY <4>1
    <3>2. "IFS_req" \in Codes /\ 0 \in Bit
      BY DEF Codes, Bit
    <3>3. block'.type # "R"
      BY <3>1
    <3> QED BY <3>0, <3>1, <3>2, <3>3 DEF Block
  <2>3. UNCHANGED block \/ block' = [SBlock("IFS_req", 1) EXCEPT !.slen = 4 + rc']
    BY DEF SetProtocolParameters
  <2> QED BY <2>1, <2>2, <2>3
<1>5. (BlockShape /\ ChainWindow /\ IfscRespected /\ WholeLrcBlocks /\ Settled)'
  BY <1>4 DEF SetProtocolParameters, IInv, BlockShape, ChainWindow, IfscRespected,
      WholeLrcBlocks, WholeBlocks, Settled
<1> QED BY <1>2, <1>3, <1>4, <1>5 DEF IInv

\* The IFSD negotiation keeps the invariant.
LEMMA NegotiateIfsdInv == ASSUME IInv, NegotiateIfsd PROVE IInv'
<1>1. NumbersOK'
  BY RetryAssumption DEF NegotiateIfsd, IInv, NumbersOK, Left, sendVars, recvVars
<1>2. more' \in BOOLEAN /\ raised' \in BOOLEAN /\ UNCHANGED block
  BY Zenon DEF NegotiateIfsd, IInv
<1>3. (BlockShape /\ ChainWindow /\ IfscRespected /\ WholeLrcBlocks /\ Settled)'
  BY <1>2 DEF NegotiateIfsd, IInv, BlockShape, ChainWindow, IfscRespected,
      WholeLrcBlocks, WholeBlocks, Settled
<1> QED BY <1>1, <1>2, <1>3 DEF IInv

\* A refused call keeps the invariant.
LEMMA RefuseInv == ASSUME IInv, Refuse PROVE IInv'
<1>1. NumbersOK'
  BY DEF Refuse, IInv, NumbersOK, t1Vars, sendVars, recvVars
<1>2. more' \in BOOLEAN /\ raised' \in BOOLEAN /\ UNCHANGED block
  BY Zenon DEF Refuse, IInv, t1Vars
<1>3. (BlockShape /\ ChainWindow /\ IfscRespected /\ WholeLrcBlocks /\ Settled)'
  BY <1>2 DEF Refuse, IInv, BlockShape, ChainWindow, IfscRespected, WholeLrcBlocks,
      WholeBlocks, Settled, t1Vars
<1> QED BY <1>1, <1>2, <1>3 DEF IInv

\* The first block of a call establishes the window.
LEMMA TransceiveInv == ASSUME IInv, Transceive PROVE IInv'
<1>1. PICK n \in SendSizes \ {0}, m \in RecvSizes :
        /\ sLen' = n /\ sHead' = 0 /\ rSize' = m /\ rTail' = 0
        /\ block' = IBlock(n, 0, ns)
  BY DEF Transceive
<1> DEFINE b == IBlock(n, 0, ns)
<1>2. /\ b \in Block
      /\ b.type = "I" /\ b.first = 0 /\ b.seq = ns
      /\ b.slen = b.len + 3 + rc
      /\ b.len \in Nat /\ b.len <= ifsc /\ b.len <= n
      /\ b.more <=> b.len < n
      /\ b.more \in BOOLEAN
  BY IBlockFacts, SizeAssumption DEF IInv, NumbersOK
<1>3. /\ block' = b /\ lastSend' = b.len /\ more' = b.more
      /\ pc' = "xcv" /\ state' = "SENDING" /\ result' = "none"
      /\ retries' = Retries /\ resyncs' = 3
      /\ UNCHANGED <<ns, nr, ifsc, wtx, rc, raised>>
  BY <1>1 DEF Transceive
<1> HIDE DEF b
<1>4. NumbersOK'
  BY <1>1, <1>2, <1>3, SizeAssumption, RetryAssumption DEF IInv, NumbersOK
<1>5. more' \in BOOLEAN /\ raised' \in BOOLEAN /\ block' \in Block
  BY <1>2, <1>3, Zenon DEF IInv
<1>6. (BlockShape /\ IfscRespected /\ WholeLrcBlocks /\ Settled)'
  BY <1>2, <1>3 DEF BlockShape, IfscRespected, WholeLrcBlocks, WholeBlocks, Settled
<1>7. ChainWindow'
  BY <1>1, <1>2, <1>3, SizeAssumption DEF ChainWindow
<1> QED BY <1>4, <1>5, <1>6, <1>7 DEF IInv

\* A good exchange that leaves rbuf alone is framed.
LEMMA GoodFrame ==
  ASSUME IInv, XcvGood, UNCHANGED <<ifsc, rTail>>, NEW acked \in BOOLEAN,
      sHead' = HeadAfter(acked)
  PROVE  Frame(acked)
<1>1. wtx' \in Nat /\ rTail' \in Nat /\ rTail' <= rSize BY DEF IInv, NumbersOK,
    XcvGood, Xcv
<1>2. raised' \in BOOLEAN BY Zenon DEF IInv, XcvGood
<1> QED BY <1>1, <1>2 DEF Frame, XcvGood, Xcv

\* A failed exchange is framed.
LEMMA ErrorFrame ==
  ASSUME IInv, XcvError, SameBuffers PROVE Frame(FALSE)
<1>1. wtx' \in Nat /\ rTail' \in Nat /\ rTail' <= rSize BY DEF IInv, NumbersOK,
    XcvError, Xcv, SameBuffers
<1>2. raised' \in BOOLEAN BY Zenon DEF IInv, XcvError
<1> QED BY <1>1, <1>2 DEF Frame, XcvError, Xcv, SameBuffers, HeadAfter

\* The decremented retry counter is an unsigned int.
LEMMA LeftType == ASSUME IInv PROVE Left \in 0..UintMax
  BY RetryAssumption DEF Left, IInv, NumbersOK

\* A return from the call keeps the invariant.
LEMMA ReturnInv ==
  ASSUME IInv, NEW acked \in BOOLEAN, NEW res \in {"ok", "error"}, Return(res),
         sHead' = HeadAfter(acked), rTail' \in Nat, rTail' <= rSize,
         state' \in {"RECEIVING", "DEAD"}, ns' \in Bit, nr' \in Bit, wtx' \in Nat,
         raised' \in BOOLEAN, UNCHANGED <<rc, sLen, rSize, ifsc, more, block>>
  PROVE  IInv'
<1>1. NumbersOK'
  BY RetryAssumption DEF Return, IInv, NumbersOK, HeadAfter
<1>2. more' \in BOOLEAN /\ raised' \in BOOLEAN /\ block' \in Block
  BY Zenon DEF IInv
<1>3. (BlockShape /\ ChainWindow /\ IfscRespected /\ WholeLrcBlocks /\ Settled)'
  BY DEF Return, IInv, BlockShape, ChainWindow, IfscRespected, WholeLrcBlocks,
      WholeBlocks, Settled
<1> QED BY <1>1, <1>2, <1>3 DEF IInv

\* Errors of the line keep the invariant.
LEMMA ReceiveErrorInv == ASSUME IInv, ReceiveError PROVE IInv'
<1>1. CASE LinkFails
  <2>1. Frame(FALSE) /\ Die(FALSE)
    BY <1>1, ErrorFrame DEF LinkFails
  <2>2. ns' \in Bit /\ nr' \in Bit
    BY <2>1 DEF Die, Ns, IInv, NumbersOK
  <2> QED BY <2>1, <2>2, ReturnInv DEF Die, Frame
<1>2. CASE ParityError
  BY <1>2, ErrorFrame, ComplainInv DEF ParityError
<1>3. ASSUME NEW err \in {"edc", "other"}, Garbled(err) PROVE IInv'
  BY <1>3, GoodFrame, ComplainInv DEF Garbled, SameBuffers, HeadAfter
<1> QED BY <1>1, <1>2, <1>3 DEF ReceiveError

\* R-blocks keep the invariant.
LEMMA ReceiveRInv ==
  ASSUME IInv, NEW seq \in Bit, NEW legal \in BOOLEAN, ReceiveR(seq, legal)
  PROVE  IInv'
<1>1. CASE RBlockRejected(seq, legal)
  BY <1>1, GoodFrame, ComplainInv DEF RBlockRejected, SameBuffers, HeadAfter
<1>2. CASE RBlockWhileReceiving(seq, legal)
  <2>1. Frame(FALSE)
    BY <1>2, GoodFrame DEF RBlockWhileReceiving, SameBuffers, HeadAfter
  <2>2. CASE Resync(FALSE)
    BY <2>1, <2>2, ResyncInv
  <2>3. CASE block.type = "R" /\ Rebuild
    BY <2>1, <2>3, RebuildInv, LeftType
  <2>4. CASE SendR(nr, "none", Retries, state, FALSE)
    <3>1. nr \in Bit /\ state = "RECEIVING" /\ Retries \in 0..UintMax
      BY <1>2, RetryAssumption DEF IInv, NumbersOK, RBlockWhileReceiving
    <3> QED BY <2>1, <2>4, <3>1, SendRInv
  <2> QED BY <1>2, <2>2, <2>3, <2>4 DEF RBlockWhileReceiving
<1>3. CASE RBlockWhileSending(seq, legal)
  <2> DEFINE acked == seq # ns
  <2>1. Frame(acked)
    BY <1>3, GoodFrame DEF RBlockWhileSending
  <2>2. CASE Resync(acked)
    BY <2>1, <2>2, ResyncInv
  <2>3. CASE SendI(HeadAfter(acked), Ns(acked), Retries, state) /\ UNCHANGED resyncs
    <3>1. Ns(acked) \in Bit /\ pc = "xcv"
      BY <2>1, AckedWindow DEF Frame
    <3>2. state \in {"SENDING", "RESYNCH"} /\ resyncs' \in 0..3
      BY <1>3, <2>3, <3>1 DEF RBlockWhileSending, IInv, NumbersOK, Settled
    <3>3. Retries \in 0..UintMax
      BY RetryAssumption
    <3> QED BY <2>1, <2>3, <3>1, <3>2, <3>3, SendIInv
  <2> QED BY <1>3, <2>2, <2>3 DEF RBlockWhileSending
<1> QED BY <1>1, <1>2, <1>3 DEF ReceiveR

\* I-blocks keep the invariant.
LEMMA ReceiveIInv ==
  ASSUME IInv, NEW seq \in Bit, NEW chained \in BOOLEAN, NEW len \in Nat,
         ReceiveI(seq, chained, len)
  PROVE  IInv'
<1> DEFINE acked == state = "SENDING"
<1>1. pc = "xcv"
  BY DEF ReceiveI, IBlockOutOfSequence, IBlockAccepted, IBlockOverrun, XcvGood, Xcv
<1>2. acked \in BOOLEAN /\ nr \in Bit /\ 1 - nr \in Bit /\ Retries \in 0..UintMax
  BY RetryAssumption DEF IInv, NumbersOK, Bit
<1>20. Ns(acked) \in Bit
  BY <1>1, <1>2, AckedWindow
<1>3. CASE IBlockOutOfSequence(seq)
  <2>1. Frame(acked)
    BY <1>3, GoodFrame DEF IBlockOutOfSequence
  <2>2. CASE Resync(acked)
    BY <2>1, <2>2, ResyncInv
  <2>3. CASE SendR(nr, "other", Left, "RECEIVING", acked)
    BY <2>1, <2>3, <1>2, LeftType, SendRInv
  <2> QED BY <1>3, <2>2, <2>3 DEF IBlockOutOfSequence
<1>4. CASE IBlockAccepted(seq, chained, len)
  <2>1. rTail' \in Nat /\ rTail' <= rSize /\ wtx' \in Nat
    BY <1>4, SizeAssumption DEF IBlockAccepted, Fits, IInv, NumbersOK, XcvGood, Xcv
  <2>2. raised' \in BOOLEAN
    BY <1>4, Zenon DEF IBlockAccepted, XcvGood, IInv
  <2>3. Frame(acked)
    BY <1>4, <2>1, <2>2 DEF Frame, IBlockAccepted, XcvGood, Xcv
  <2>4. CASE SendR(1 - nr, "none", Retries, "RECEIVING", acked)
    BY <2>3, <2>4, <1>2, SendRInv
  <2>5. CASE /\ Return("ok")
             /\ state' = "RECEIVING" /\ ns' = Ns(acked) /\ nr' = 1 - nr
             /\ UNCHANGED <<more, block>>
    BY <2>3, <2>5, <1>2, <1>20, ReturnInv DEF Frame
  <2> QED BY <1>4, <2>4, <2>5 DEF IBlockAccepted
<1>5. CASE IBlockOverrun(seq, len)
  <2>1. Frame(acked)
    BY <1>5, GoodFrame DEF IBlockOverrun
  <2> QED BY <1>5, <2>1, <1>2, <1>20, ReturnInv DEF Frame, IBlockOverrun
<1> QED BY <1>3, <1>4, <1>5 DEF ReceiveI

\* The answer to an S-request keeps the invariant.
LEMMA AnswerSInv ==
  ASSUME IInv, pc = "xcv", NEW kind \in {"ABORT_resp", "IFS_resp", "WTX_resp"},
         NEW len \in {0, 1}, AnswerS(kind, len),
         ifsc' \in Nat \ {0}, wtx' \in Nat, UNCHANGED <<raised, rc, sLen, rSize>>
  PROVE  IInv'
<1>1. /\ block' = SBlock(kind, len) /\ pc' = "xcv" /\ retries' = Retries
      /\ UNCHANGED <<sHead, rTail, ns, nr, more, lastSend, resyncs, state, result>>
  BY DEF AnswerS, Continue
<1>2. NumbersOK'
  BY <1>1, RetryAssumption DEF IInv, NumbersOK
<1>3. more' \in BOOLEAN /\ raised' \in BOOLEAN
  BY <1>1, Zenon DEF IInv
<1>4. (block \in Block /\ BlockShape)'
  BY <1>1 DEF SBlock, Block, BlockShape, IInv, NumbersOK, Codes, Bit
<1>5. (ChainWindow /\ IfscRespected /\ WholeLrcBlocks /\ Settled)'
  BY <1>1 DEF SBlock, ChainWindow, IfscRespected, WholeLrcBlocks, WholeBlocks,
      Settled, IInv
<1> QED BY <1>2, <1>3, <1>4, <1>5 DEF IInv

\* S-blocks keep the invariant.
LEMMA ReceiveSInv == ASSUME IInv, ReceiveS PROVE IInv'
<1>1. CASE ResynchAnswered
  <2>0. rTail' \in Nat /\ rTail' <= rSize /\ resyncs' \in 0..3 /\ wtx' \in Nat
    BY <1>1 DEF ResynchAnswered, IInv, NumbersOK, XcvGood, Xcv
  <2>1. raised' \in BOOLEAN
    BY <1>1, Zenon DEF ResynchAnswered, IInv, XcvGood
  <2>2. Frame(FALSE)
    BY <1>1, <2>0, <2>1 DEF ResynchAnswered, Frame, XcvGood, Xcv, HeadAfter
  <2>3. SendI(HeadAfter(FALSE), ns, Retries, "SENDING")
    BY <1>1 DEF ResynchAnswered, HeadAfter
  <2>4. ns \in Bit /\ Retries \in 0..UintMax /\ pc = "xcv"
    BY <2>2, RetryAssumption DEF IInv, NumbersOK, Frame
  <2> QED BY <2>0, <2>2, <2>3, <2>4, SendIInv
<1>2. CASE SResponseRejected
  BY <1>2, GoodFrame, ComplainInv DEF SResponseRejected, SameBuffers, HeadAfter
<1>3. CASE SRequestMalformed
  <2>1. Frame(FALSE) /\ SendR(nr, "other", Left, state, FALSE)
    BY <1>3, GoodFrame DEF SRequestMalformed, SameBuffers, HeadAfter
  <2> QED BY <2>1, LeftType, SendRInv DEF IInv, NumbersOK, Settled, Frame
<1>4. CASE SRequestResync
  BY <1>4, GoodFrame, ResyncInv DEF SRequestResync, SameBuffers, HeadAfter
<1>5. CASE AbortRequest
  BY <1>5, AnswerSInv DEF AbortRequest, XcvGood, Xcv, IInv, NumbersOK
<1>6. ASSUME NEW i \in IfscValues, IfsRequest(i) PROVE IInv'
  BY <1>6, AnswerSInv, SizeAssumption DEF IfsRequest, XcvGood, Xcv
<1>7. ASSUME NEW w \in WtxValues, WtxRequest(w) PROVE IInv'
  BY <1>7, AnswerSInv, SizeAssumption DEF WtxRequest, Xcv, IInv, NumbersOK
<1> QED BY <1>1, <1>2, <1>3, <1>4, <1>5, <1>6, <1>7 DEF ReceiveS

\* Every step keeps the invariant.
LEMMA NextInv == ASSUME IInv, Next PROVE IInv'
<1>1. CASE BetweenCalls
  BY <1>1, T1InitInv, SetProtocolParametersInv, NegotiateIfsdInv, RefuseInv,
      TransceiveInv
  DEF BetweenCalls
<1>2. \A len \in InfSizes : len \in Nat
  BY SizeAssumption
<1> QED BY <1>1, <1>2, ReceiveErrorInv, ReceiveRInv, ReceiveIInv, ReceiveSInv DEF Next

\* A stuttering step keeps the invariant.
LEMMA StutterInv == ASSUME IInv, UNCHANGED vars PROVE IInv'
<1>1. NumbersOK'
  BY DEF vars, t1Vars, sendVars, recvVars, loopVars, IInv, NumbersOK
<1>2. more' \in BOOLEAN /\ raised' \in BOOLEAN /\ block' \in Block
  BY Zenon DEF vars, t1Vars, sendVars, recvVars, loopVars, IInv
<1>3. (BlockShape /\ ChainWindow /\ IfscRespected /\ WholeLrcBlocks /\ Settled)'
  BY DEF vars, t1Vars, sendVars, recvVars, loopVars, IInv,
         BlockShape, ChainWindow, IfscRespected, WholeLrcBlocks, WholeBlocks,
             Settled
<1> QED BY <1>1, <1>2, <1>3 DEF IInv

\* IInv holds in every reachable state.
THEOREM Invariance == Spec => []IInv
<1>1. IInv /\ [Next]_vars => IInv'
  BY NextInv, StutterInv
<1> QED BY <1>1, InitInv, PTL DEF Spec

\* Every variable has its type; in particular the receive buffer is never filled
\* beyond its size.
THEOREM TypeCorrect == Spec => []TypeOK
<1>1. IInv => TypeOK
  <2>1. IInv => NumbersOK BY DEF IInv
  <2>2. IInv => more \in BOOLEAN /\ raised \in BOOLEAN /\ block \in Block BY DEF IInv
  <2> QED BY <2>1, <2>2 DEF NumbersOK, TypeOK
<1> QED BY <1>1, Invariance, PTL

\* The window of bytes in flight stays inside the command and the I-block on the
\* line holds exactly its bytes, through every acknowledgement, repetition,
\* resynchronisation and change of IFSC.
THEOREM WindowCorrect == Spec => []ChainWindow
<1>1. IInv => ChainWindow
  BY DEF IInv
<1> QED BY <1>1, Invariance, PTL

\* No I-block is longer than the IFSC the card announced last.
THEOREM IfscCorrect == Spec => []IfscRespected
<1>1. IInv => IfscRespected
  BY DEF IInv
<1> QED BY <1>1, Invariance, PTL

\* With LRC every block is sent whole, the R-blocks repeated by t1_rebuild
\* included.
THEOREM LrcBlocksWhole == Spec => []WholeLrcBlocks
<1>1. IInv => WholeLrcBlocks
  BY DEF IInv
<1> QED BY <1>1, Invariance, PTL

-----------------------------------------------------------------------------
(* The retries                                                             *)

\* A pass of the loop leaves at least one retry and at most Retries, unless the
\* card sends malformed S-requests.
WithinRetries ==
    retries <= Retries /\ ~CardMalforms => (pc' = "xcv" => retries' \in 1..Retries)

\* A pass of the loop ends the call, restores the retries or spends something.
Spending ==
    \/ pc' = "idle"
    \/ retries' = Retries
    \/ resyncs' < resyncs
    \/ resyncs' = resyncs /\ retries' < retries

\* A resynchronisation spends a resync.
LEMMA ResyncRetries ==
  ASSUME NEW acked, Resync(acked), IInv PROVE WithinRetries /\ Spending
  BY RetryAssumption DEF Resync, Die, Return, Continue, WithinRetries, Spending,
      IInv, NumbersOK

\* The decrement at the head of the loop.
LEMMA LeftRetries ==
  ASSUME IInv, retries > 0
  PROVE  Left \in Nat /\ Left < retries
  BY DEF Left, IInv, NumbersOK

\* An invalid answer spends a retry or a resync.
LEMMA ComplainRetries ==
  ASSUME IInv, retries > 0, NEW err, Complain(err)
  PROVE  WithinRetries /\ Spending
<1>1. CASE Resync(FALSE)
  BY <1>1, ResyncRetries
<1>2. CASE Left > 0 /\ Rebuild
  BY <1>2, LeftRetries, RetryAssumption DEF IInv, NumbersOK, Rebuild, Continue,
      WithinRetries, Spending
<1>3. CASE Left > 0 /\ SendR(nr, err, Left, state, FALSE)
  BY <1>3, LeftRetries, RetryAssumption DEF IInv, NumbersOK, SendR, Continue,
      WithinRetries, Spending
<1> QED BY <1>1, <1>2, <1>3 DEF Complain

\* Every answer spends or restores.
LEMMA ReceiveRetries ==
  ASSUME IInv, retries > 0,
         \/ ReceiveError
         \/ \E seq \in Bit, legal \in BOOLEAN : ReceiveR(seq, legal)
         \/ \E seq \in Bit, chained \in BOOLEAN, len \in InfSizes : ReceiveI(seq,
             chained, len)
         \/ ReceiveS
  PROVE  WithinRetries /\ Spending
<1> DEFINE Goal == WithinRetries /\ Spending
<1>0. Left \in Nat /\ Left < retries /\ retries \in Nat
  BY LeftRetries DEF IInv, NumbersOK
<1>1. CASE ReceiveError
  <2>1. CASE LinkFails
    BY <2>1 DEF LinkFails, Die, Return, WithinRetries, Spending
  <2> QED BY <1>1, <2>1, ComplainRetries
      DEF ReceiveError, ParityError, Garbled, XcvError, XcvGood, Xcv
<1>2. ASSUME NEW seq \in Bit, NEW legal \in BOOLEAN, ReceiveR(seq, legal) PROVE Goal
  <2>1. CASE RBlockRejected(seq, legal)
    BY <2>1, ComplainRetries DEF RBlockRejected, XcvGood, Xcv
  <2>2. CASE RBlockWhileReceiving(seq, legal)
    <3>1. CASE Resync(FALSE)
      BY <3>1, ResyncRetries
    <3>2. CASE Left > 0 /\ Rebuild
      BY <3>2, <2>2, <1>0, RetryAssumption DEF Rebuild, Continue, WithinRetries,
          Spending, RBlockWhileReceiving, XcvGood, Xcv
    <3>3. CASE SendR(nr, "none", Retries, state, FALSE)
      BY <3>3, RetryAssumption DEF SendR, Continue, WithinRetries, Spending
    <3> QED BY <2>2, <3>1, <3>2, <3>3 DEF RBlockWhileReceiving
  <2>3. CASE RBlockWhileSending(seq, legal)
    <3> DEFINE acked == seq # ns
    <3>1. CASE Resync(acked)
      BY <3>1, ResyncRetries
    <3>2. CASE SendI(HeadAfter(acked), Ns(acked), Retries, state)
      BY <3>2, RetryAssumption DEF SendI, Continue, WithinRetries, Spending
    <3> QED BY <2>3, <3>1, <3>2 DEF RBlockWhileSending
  <2> QED BY <1>2, <2>1, <2>2, <2>3 DEF ReceiveR
<1>3. ASSUME NEW seq \in Bit, NEW chained \in BOOLEAN, NEW len \in InfSizes,
    ReceiveI(seq, chained, len)
      PROVE Goal
  <2> DEFINE acked == state = "SENDING"
  <2>1. CASE IBlockOutOfSequence(seq)
    <3>1. CASE Resync(acked)
      BY <3>1, ResyncRetries
    <3>2. CASE Left > 0 /\ SendR(nr, "other", Left, "RECEIVING", acked)
      BY <3>2, <2>1, <1>0, RetryAssumption DEF SendR, Continue, WithinRetries,
          Spending, IBlockOutOfSequence, XcvGood, Xcv
    <3> QED BY <2>1, <3>1, <3>2 DEF IBlockOutOfSequence
  <2>2. CASE IBlockAccepted(seq, chained, len)
    <3>1. CASE SendR(1 - nr, "none", Retries, "RECEIVING", acked)
      BY <3>1, RetryAssumption DEF SendR, Continue, WithinRetries, Spending
    <3>2. CASE Return("ok")
      BY <3>2 DEF Return, WithinRetries, Spending
    <3> QED BY <2>2, <3>1, <3>2 DEF IBlockAccepted
  <2>3. CASE IBlockOverrun(seq, len)
    BY <2>3 DEF IBlockOverrun, Return, WithinRetries, Spending
  <2> QED BY <1>3, <2>1, <2>2, <2>3 DEF ReceiveI
<1>4. CASE ReceiveS
  <2>1. CASE ResynchAnswered
    BY <2>1, RetryAssumption DEF ResynchAnswered, SendI, Continue, WithinRetries,
        Spending
  <2>2. CASE SResponseRejected
    BY <2>2, ComplainRetries DEF SResponseRejected, XcvGood, Xcv
  <2>3. CASE SRequestResync
    BY <2>3, ResyncRetries DEF SRequestResync
  <2>4. CASE AbortRequest
    BY <2>4, RetryAssumption DEF AbortRequest, AnswerS, Continue, WithinRetries,
        Spending
  <2>5. ASSUME NEW i \in IfscValues, IfsRequest(i) PROVE Goal
    BY <2>5, RetryAssumption DEF IfsRequest, AnswerS, Continue, WithinRetries, Spending
  <2>6. ASSUME NEW w \in WtxValues, WtxRequest(w) PROVE Goal
    BY <2>6, RetryAssumption DEF WtxRequest, AnswerS, Continue, WithinRetries, Spending
  <2>7. CASE CardMalforms /\ SRequestMalformed
    BY <2>7, <1>0 DEF SRequestMalformed, SendR, Continue, WithinRetries, Spending
  <2> QED BY <1>4, <2>1, <2>2, <2>3, <2>4, <2>5, <2>6, <2>7 DEF ReceiveS
<1> QED BY <1>1, <1>2, <1>3, <1>4

\* Answers come during a call only.
LEMMA AnswersDuringCall ==
  ASSUME Next, ~ BetweenCalls PROVE pc = "xcv"
  BY DEF Next, ReceiveError, LinkFails, ParityError, Garbled,
      ReceiveR, RBlockRejected, RBlockWhileReceiving, RBlockWhileSending,
      ReceiveI, IBlockOutOfSequence, IBlockAccepted, IBlockOverrun,
      ReceiveS, ResynchAnswered, SResponseRejected, SRequestMalformed, SRequestResync,
      AbortRequest, IfsRequest, WtxRequest, XcvGood, XcvError, Xcv

\* Between calls nothing is spent; a call starts with all its retries.
LEMMA BetweenRetries ==
  ASSUME BetweenCalls PROVE pc # "xcv" /\ RetriesPositive'
<1>1. CASE Transceive
  BY <1>1, RetryAssumption DEF Transceive, RetriesPositive
<1>2. CASE ~Transceive
  BY <1>2 DEF BetweenCalls, T1Init, SetProtocolParameters, NegotiateIfsd, Refuse,
      RetriesPositive, loopVars
<1>3. pc # "xcv"
  BY DEF BetweenCalls, T1Init, SetProtocolParameters, NegotiateIfsd, Refuse, Transceive
<1> QED BY <1>1, <1>2, <1>3

\* The retries, step by step.
LEMMA RetriesStep ==
  ASSUME IInv, [Next]_vars, pc = "xcv" => retries > 0
  PROVE  /\ UNCHANGED vars \/ BetweenCalls \/ (pc = "xcv" /\ WithinRetries)
         /\ pc = "xcv" => UNCHANGED vars \/ Spending
<1>1. CASE BetweenCalls
  BY <1>1, BetweenRetries
<1>2. CASE Next /\ ~BetweenCalls
  <2>1. pc = "xcv"
    BY <1>2, AnswersDuringCall
  <2> QED BY <1>2, <2>1, ReceiveRetries DEF Next
<1> QED BY <1>1, <1>2

\* As long as S-requests are well formed, `retries--' never wraps around and every
\* path of t1_transceive sees `retries <= 0' in time.
THEOREM RetriesHold == ~CardMalforms => (Spec => []RetriesPositive)
<1> SUFFICES ASSUME ~CardMalforms PROVE Spec => []RetriesPositive OBVIOUS
<1>1. Init => RetriesPositive
  BY DEF Init, RetriesPositive
<1>2. IInv /\ RetriesPositive /\ [Next]_vars => RetriesPositive'
  <2> SUFFICES ASSUME IInv, RetriesPositive, [Next]_vars PROVE RetriesPositive'
    OBVIOUS
  <2>1. CASE UNCHANGED vars
    BY <2>1 DEF vars, loopVars, RetriesPositive
  <2>2. CASE BetweenCalls
    BY <2>2, BetweenRetries
  <2>3. CASE pc = "xcv" /\ WithinRetries
    BY <2>3 DEF WithinRetries, RetriesPositive
  <2> QED BY <2>1, <2>2, <2>3, RetriesStep DEF RetriesPositive
<1> QED BY <1>1, <1>2, Invariance, PTL DEF Spec

\* An answer that restores no retries costs one, or a resync, so only answers
\* that the code takes for progress can keep the loop going.
THEOREM RetriesAreSpent == Spec => RetriesSpent
<1>1. IInv /\ [Next]_vars =>
        [ pc = "xcv" /\ pc' = "xcv" /\ retries > 0 =>
          \/ retries' = Retries
          \/ resyncs' < resyncs
          \/ resyncs' = resyncs /\ retries' < retries ]_vars
  BY RetriesStep DEF Spending
<1> QED BY <1>1, Invariance, PTL DEF Spec, RetriesSpent
-----------------------------------------------------------------------------
(* The ways out of a call                                                  *)

\* What a pass of the loop does to the state machine.
WayOut ==
    /\ pc' = "idle" => state' = IF result' = "ok" THEN "RECEIVING" ELSE "DEAD"
    /\ pc' = "xcv" => state' # "DEAD"

\* An error return.
LEMMA DieWayOut ==
  ASSUME NEW acked, Die(acked) PROVE WayOut
  BY DEF Die, Return, WayOut

\* A resynchronisation.
LEMMA ResyncWayOut ==
  ASSUME pc = "xcv", NEW acked, Resync(acked) PROVE WayOut
<1>1. CASE Die(acked)
  BY <1>1, DieWayOut
<1>2. CASE ~ Die(acked)
  BY <1>2 DEF Resync, Continue, WayOut
<1> QED BY <1>1, <1>2

\* An invalid answer.
LEMMA ComplainWayOut ==
  ASSUME state # "DEAD", pc = "xcv", NEW err, Complain(err) PROVE WayOut
<1>1. CASE Resync(FALSE)
  BY <1>1, ResyncWayOut
<1>2. CASE ~ Resync(FALSE)
  BY <1>2 DEF Complain, Rebuild, SendR, Continue, WayOut
<1> QED BY <1>1, <1>2

\* Each answer, whatever it is.
LEMMA ReceiveWayOut ==
  ASSUME state # "DEAD", pc = "xcv",
         \/ ReceiveError
         \/ \E seq \in Bit, legal \in BOOLEAN : ReceiveR(seq, legal)
         \/ \E seq \in Bit, chained \in BOOLEAN, len \in InfSizes : ReceiveI(seq,
             chained, len)
         \/ ReceiveS
  PROVE  WayOut
<1>1. CASE ReceiveError
  BY <1>1, ComplainWayOut, DieWayOut DEF ReceiveError, LinkFails, ParityError, Garbled
<1>2. ASSUME NEW seq \in Bit, NEW legal \in BOOLEAN, ReceiveR(seq, legal) PROVE WayOut
  <2>1. CASE RBlockRejected(seq, legal)
    BY <2>1, ComplainWayOut DEF RBlockRejected
  <2>2. CASE RBlockWhileReceiving(seq, legal)
    BY <2>2, ResyncWayOut DEF RBlockWhileReceiving, Rebuild, SendR, Continue, WayOut
  <2>3. CASE RBlockWhileSending(seq, legal)
    BY <2>3, ResyncWayOut DEF RBlockWhileSending, SendI, Continue, WayOut
  <2> QED BY <1>2, <2>1, <2>2, <2>3 DEF ReceiveR
<1>3. ASSUME NEW seq \in Bit, NEW chained \in BOOLEAN, NEW len \in InfSizes,
             ReceiveI(seq, chained, len)
      PROVE  WayOut
  <2>1. CASE IBlockOutOfSequence(seq)
    BY <2>1, ResyncWayOut DEF IBlockOutOfSequence, SendR, Continue, WayOut
  <2>2. CASE IBlockAccepted(seq, chained, len)
    BY <2>2 DEF IBlockAccepted, SendR, Continue, Return, WayOut
  <2>3. CASE IBlockOverrun(seq, len)
    BY <2>3 DEF IBlockOverrun, Return, WayOut
  <2> QED BY <1>3, <2>1, <2>2, <2>3 DEF ReceiveI
<1>4. CASE ReceiveS
  <2>1. CASE ResynchAnswered
    BY <2>1 DEF ResynchAnswered, SendI, Continue, WayOut
  <2>2. CASE SResponseRejected
    BY <2>2, ComplainWayOut DEF SResponseRejected
  <2>3. CASE SRequestResync
    BY <2>3, ResyncWayOut DEF SRequestResync
  <2>4. CASE SRequestMalformed
    BY <2>4 DEF SRequestMalformed, SendR, Continue, WayOut
  <2>5. CASE AbortRequest \/ (\E i \in IfscValues : IfsRequest(i))
               \/ (\E w \in WtxValues : WtxRequest(w))
    BY <2>5 DEF AbortRequest, IfsRequest, WtxRequest, AnswerS, Continue, WayOut
  <2> QED BY <1>4, <2>1, <2>2, <2>3, <2>4, <2>5 DEF ReceiveS
<1> QED BY <1>1, <1>2, <1>3, <1>4

\* However a call goes, t1_transceive returns a response with the state machine
\* receiving, or an error with it dead, and only a power up or a reset, which start
\* both counters anew, revives a dead one.
THEOREM OutcomeCorrect == Spec => OutcomeState
<1> DEFINE Step ==
      /\ pc = "xcv" /\ pc' = "idle" =>
            state' = IF result' = "ok" THEN "RECEIVING" ELSE "DEAD"
      /\ pc' = "xcv" => state # "DEAD" /\ state' # "DEAD"
      /\ state = "DEAD" /\ state' # "DEAD" =>
            pc = "idle" /\ state' = "SENDING" /\ ns' = 0 /\ nr' = 0 /\ ~more'
<1>1. IInv /\ [Next]_vars => [Step]_vars
  <2> SUFFICES ASSUME IInv, Next PROVE Step
    OBVIOUS
  <2>1. CASE T1Init
    BY <2>1 DEF T1Init, loopVars
  <2>2. CASE SetProtocolParameters
    BY <2>2 DEF SetProtocolParameters
  <2>3. CASE NegotiateIfsd
    BY <2>3 DEF NegotiateIfsd
  <2>4. CASE Refuse
    BY <2>4 DEF Refuse, t1Vars
  <2>5. CASE Transceive
    BY <2>5 DEF Transceive
  <2>6. CASE ~ BetweenCalls
    <3>1. pc = "xcv"
      BY <2>6, AnswersDuringCall
    <3>2. state # "DEAD"
      BY <3>1 DEF IInv, Settled
    <3>3. WayOut
      BY <2>6, <3>1, <3>2, ReceiveWayOut DEF Next
    <3> QED BY <3>1, <3>2, <3>3 DEF WayOut
  <2> QED BY <2>1, <2>2, <2>3, <2>4, <2>5, <2>6 DEF BetweenCalls
<1> QED BY <1>1, Invariance, PTL DEF Spec, OutcomeState
=============================================================================
