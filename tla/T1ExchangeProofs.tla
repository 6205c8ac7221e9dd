-------------------------- MODULE T1ExchangeProofs --------------------------
(***************************************************************************)
(* Theorems about module T1Exchange, for every value of its constants:     *)
(* what the alternating numbers of reader and card guarantee as long as    *)
(* no block is lost while a resynchronisation is under way (Undisturbed),  *)
(* and the implementation of ApduExchange as long as none begins.          *)
(*                                                                         *)
(* ExInv says in which of six phases a call is.  There is one lemma for    *)
(* the card and one for the reader in each of them, which says what comes  *)
(* next, and what that does to the command (WholeInv) and to the retries   *)
(* (RetryInv).                                                             *)
(***************************************************************************)
EXTENDS T1Exchange, T1TransceiveProofs, SequenceTheorems

CardBlocks == [type: {"none", "I", "R", "S"}, code: {"none", "WTX_req", "RESYNC_resp"},
               seq: Bit, first: Nat, len: Nat, more: BOOLEAN]

\* A block is on the line during a call only.
Wired ==
    /\ pc \in {"idle", "xcv"}
    /\ pc = "idle" => wire = "none"
    /\ pc = "xcv" => wire \in {"toCard", "toReader"}

\* The card's I-block is one of the response, and an I-block it sent last is that one.
CardKeeps ==
    /\ calls \in Nat /\ faults \in Nat
    /\ cNs \in Bit /\ cNr \in Bit /\ cResp \in Nat
    /\ cExec \in Seq([call: Nat, whole: BOOLEAN])
    /\ cI \in CardBlocks /\ cOut \in CardBlocks
    /\ cI = Nothing \/ cI.type = "I"
    /\ cI.type = "I" => cI = CardI(cResp, cI.first, cNs) /\ cI.first < cResp
    /\ cOut.type = "I" => cOut = cI
    /\ rTail = 0 => got = <<>>

\* The first n bytes of the response to the last command executed.
Received(n) == [i \in 1..n |-> <<Len(cExec), i>>]

\* That command is the one of the call in progress.
Executed == cExec # <<>> /\ cExec[Len(cExec)].call = calls

\* The number of the card's next I-block.
CardNext == IF cI.type = "I" THEN 1 - cNs ELSE cNs

\* The card has nothing more to say.
Quiet == cI.type = "I" => ~cI.more

-----------------------------------------------------------------------------
(* The phases of a call                                                    *)

\* S(RESYNCH request) is on its way, or its answer.
Resyncing ==
    /\ state = "RESYNCH" /\ block.type = "S" /\ block.code = "RESYNC_req"
    /\ ns = 0 /\ nr = 0
    /\ wire = "toReader" =>
          cOut = CardS("RESYNC_resp") /\ cNs = 0 /\ cNr = 0 /\ cI = Nothing

\* The card has not taken the I-block yet.
Asked ==
    /\ state = "SENDING" /\ rTail = 0
    /\ ns = cNr /\ nr = CardNext /\ Quiet
    /\ cOut.code # "WTX_req"
    /\ block.type = "I" \/ (block.type = "R" /\ block.seq = nr)
    /\ wire = "toReader" \/ block.type = "R" => cOut = CardR

\* The card has taken an I-block with the more bit, and the reader does not know.
Linked ==
    /\ state = "SENDING" /\ rTail = 0 /\ more
    /\ ns = 1 - cNr /\ nr = cNs /\ cI = Nothing
    /\ cOut = CardR
    /\ block.type \in {"I", "R"}
    /\ block.type = "R" => block.seq = nr
    /\ wire = "toCard" => block.type = "R"

\* The card has executed the command, and the reader has nothing of the response.
Answering ==
    /\ state = "SENDING" /\ rTail = 0 /\ ~more
    /\ ns = 1 - cNr /\ nr = cNs /\ cI.type = "I" /\ cI.first = 0
    /\ Executed
    /\ cOut \in {cI, CardR, CardS("WTX_req")}
    /\ block.type = "R" => block.seq = nr
    /\ wire = "toCard" => block.type = "R" \/ (block.type = "S" /\ block.code = "WTX_resp")

\* The reader has the card's I-block and asks for the next.
Accepted ==
    /\ state = "RECEIVING"
    /\ ns = cNr /\ nr = 1 - cNs /\ cI.type = "I" /\ cI.more
    /\ Executed
    /\ rTail = cI.first + cI.len /\ got = Received(rTail)
    /\ block.type = "R" /\ block.seq = nr
    /\ cOut \in {cI, CardR}
    /\ wire = "toReader" => cOut = CardR

\* The card has sent the next I-block and the reader does not have it.
Waiting ==
    /\ state = "RECEIVING"
    /\ ns = cNr /\ nr = cNs /\ cI.type = "I"
    /\ Executed
    /\ rTail = cI.first /\ got = Received(rTail)
    /\ block.type = "R" /\ block.seq = nr
    /\ cOut \in {cI, CardR}

Phase == Resyncing \/ Asked \/ Linked \/ Answering \/ Accepted \/ Waiting

\* Between calls, unless the exchange is dead, the next number is the one expected.
Ready ==
    /\ ns = cNr /\ nr = CardNext /\ Quiet /\ cOut.code # "WTX_req"
    /\ state = "RECEIVING" => cI.type = "I"

Progress ==
    /\ pc = "xcv" => Phase
    /\ pc = "idle" /\ state # "DEAD" => Ready
    /\ ResponseIsOurs

ExInv == Wired /\ CardKeeps /\ Progress

-----------------------------------------------------------------------------
(* The command and the retries                                             *)

\* The first n bytes of the command of the call.
Sent(n) == [i \in 1..n |-> <<calls, i>>]

\* The card has not executed a command of this call.
Fresh == \A k \in DOMAIN cExec : cExec[k].call # calls

\* What the card has of the command, as long as there is no resynchronisation.
WholeInv ==
    /\ CommandsWhole
    /\ \A k \in DOMAIN cExec : cExec[k].call <= calls
    /\ pc = "idle" /\ state # "DEAD" => cCmd = <<>>
    /\ pc = "xcv" /\ state = "SENDING" =>
          /\ cNr = ns => cCmd = Sent(sHead) /\ Fresh
          /\ cNr # ns /\ more => cCmd = Sent(sHead + lastSend) /\ Fresh
          /\ cNr # ns /\ ~more => cCmd = <<>>
    /\ pc = "xcv" /\ state = "RECEIVING" => cCmd = <<>>

\* The card's R-block is going to cost a retry, which a block it misheard is the
\* reason for.
Owed ==
    /\ wire = "toReader" /\ cOut.type = "R"
    /\ state = "RECEIVING" \/ (cNr # ns /\ ~more)

\* Each retry spent is a block lost.
RetryInv ==
    pc = "xcv" =>
      /\ state = "RESYNCH" => faults >= Retries
      /\ state # "RESYNCH" => retries + faults >= Retries
      /\ state # "RESYNCH" /\ Owed => retries + faults >= Retries + 1
      /\ state = "SENDING" /\ sHead = sLen => faults >= Retries

-----------------------------------------------------------------------------
(* Blocks and bytes                                                        *)

\* An I-block of the card carries at least a byte, stays inside the response, and
\* has the more bit exactly when bytes remain behind it.
LEMMA CardIFacts ==
  ASSUME NEW r \in Nat, NEW first \in Nat, first < r, NEW seq \in Bit
  PROVE  LET b == CardI(r, first, seq)
         IN  /\ b \in CardBlocks
             /\ b.type = "I" /\ b.code = "none" /\ b.seq = seq /\ b.first = first
             /\ b.len \in Nat \ {0} /\ first + b.len <= r
             /\ b.more \in BOOLEAN
             /\ b.more <=> first + b.len < r
<1> DEFINE len == AtMost(r - first, CardIfsd)
<1>1. len \in Nat \ {0} /\ first + len <= r /\ (r - first > CardIfsd <=> first + len < r)
  BY CardAssumption DEF AtMost
<1>2. (r - first > CardIfsd) \in BOOLEAN
  OBVIOUS
<1>3. /\ CardI(r, first, seq).type = "I" /\ CardI(r, first, seq).code = "none"
      /\ CardI(r, first, seq).seq = seq /\ CardI(r, first, seq).first = first
      /\ CardI(r, first, seq).len = len
      /\ CardI(r, first, seq).more = (r - first > CardIfsd)
  BY DEF CardI, CardBlock
<1> HIDE DEF len
<1>4. CardI(r, first, seq) \in CardBlocks
  BY <1>1, <1>2 DEF CardI, CardBlock, CardBlocks, len
<1> QED
  BY <1>1, <1>2, <1>3, <1>4

\* The other blocks of the card.
LEMMA CardBlockFacts ==
  ASSUME CardKeeps
  PROVE  /\ Nothing \in CardBlocks /\ CardR \in CardBlocks
         /\ CardS("WTX_req") \in CardBlocks /\ CardS("RESYNC_resp") \in CardBlocks
         /\ Nothing.type = "none" /\ Nothing.code = "none"
         /\ CardR.type = "R" /\ CardR.code = "none" /\ CardR.seq = cNr
         /\ CardS("WTX_req").type = "S" /\ CardS("WTX_req").code = "WTX_req"
         /\ CardS("RESYNC_resp").type = "S" /\ CardS("RESYNC_resp").code = "RESYNC_resp"
  BY DEF CardKeeps, Nothing, CardR, CardS, CardBlock, CardBlocks, Bit

\* The card's I-block.
LEMMA OwnBlockFacts ==
  ASSUME CardKeeps, cI.type = "I"
  PROVE  /\ cI.code = "none" /\ cI.seq = cNs
         /\ cI.first \in Nat /\ cI.len \in Nat \ {0} /\ cI.first + cI.len <= cResp
         /\ cI.more \in BOOLEAN /\ (cI.more <=> cI.first + cI.len < cResp)
         /\ cI # Nothing
<1>1. cI \in CardBlocks /\ cResp \in Nat /\ cNs \in Bit
      /\ cI = CardI(cResp, cI.first, cNs) /\ cI.first < cResp
  BY DEF CardKeeps
<1>2. cI.first \in Nat
  BY <1>1 DEF CardBlocks
<1>3. Nothing.type = "none"
  BY DEF Nothing, CardBlock
<1> QED
  BY <1>1, <1>2, <1>3, CardIFacts

\* Full retries cover what is owed, whatever has been lost.
LEMMA SumCovers == ASSUME NEW r \in Nat, NEW f \in Nat PROVE r + f >= r
OBVIOUS

\* A function on 1..n is a sequence of length n.
LEMMA FunctionIsSequence ==
  ASSUME NEW S, NEW n \in Nat, NEW q \in [1..n -> S]
  PROVE  q \in Seq(S) /\ Len(q) = n
OBVIOUS

\* A piece put behind the first m items of <<e, 1>>, <<e, 2>>, ...
LEMMA Piece ==
  ASSUME NEW e \in Nat, NEW m \in Nat, NEW n \in Nat
  PROVE  [i \in 1..m |-> <<e, i>>] \o [i \in 1..n |-> <<e, m + i>>] = [i \in 1..(m + n) |-> <<e, i>>]
<1> DEFINE S == Nat \X Nat
           a == [i \in 1..m |-> <<e, i>>]
           b == [i \in 1..n |-> <<e, m + i>>]
           c == [i \in 1..(m + n) |-> <<e, i>>]
<1>1. a \in [1..m -> S] /\ b \in [1..n -> S] /\ c \in [1..(m + n) -> S] /\ m + n \in Nat
  OBVIOUS
<1>2. /\ \A i \in 1..m : a[i] = <<e, i>>
      /\ \A i \in 1..n : b[i] = <<e, m + i>>
      /\ \A i \in 1..(m + n) : c[i] = <<e, i>>
  OBVIOUS
<1> HIDE DEF a, b, c, S
<1>3. /\ a \in Seq(S) /\ b \in Seq(S) /\ c \in Seq(S)
      /\ Len(a) = m /\ Len(b) = n /\ Len(c) = m + n
  BY <1>1, FunctionIsSequence
<1>4. a \o b \in Seq(S) /\ Len(a \o b) = m + n
  BY <1>3
<1>5. \A i \in 1..(m + n) : (a \o b)[i] = c[i]
  <2> SUFFICES ASSUME NEW i \in 1..(m + n) PROVE (a \o b)[i] = c[i]
    OBVIOUS
  <2>0. (a \o b)[i] = IF i <= m THEN a[i] ELSE b[i - m]
    BY <1>3, ConcatProperties
  <2>1. CASE i <= m
    <3>1. i \in 1..m
      BY <2>1
    <3> QED
      BY <1>2, <2>0, <2>1, <3>1
  <2>2. CASE i > m
    <3>1. i - m \in 1..n /\ m + (i - m) = i
      BY <2>2
    <3>2. (a \o b)[i] = b[i - m]
      BY <1>3, <2>0, <2>2
    <3> QED
      BY <1>2, <3>1, <3>2
  <2>3. i <= m \/ i > m
    OBVIOUS
  <2> QED
    BY <2>1, <2>2, <2>3
<1>6. a \o b = c
  BY <1>3, <1>4, <1>5, SMTT(30)
<1> QED
  BY <1>6 DEF a, b, c

-----------------------------------------------------------------------------
(* The card                                                                *)

CardMoves ==
    /\ pc = "xcv" /\ wire = "toCard" /\ wire' = "toReader"
    /\ UNCHANGED <<vars, calls, got>>

Repeats == UNCHANGED <<cNs, cNr, cCmd, cExec, cResp, cI>>

\* What a step in a phase has to show.
Kept ==
    /\ CardKeeps' /\ Phase'
    /\ WholeInv => WholeInv'
    /\ RetryInv => RetryInv'

\* The reader's variables during a step of the card.
LEMMA ReaderWaits ==
  ASSUME CardMoves
  PROVE  UNCHANGED <<state, ns, nr, ifsc, wtx, more, rc, block, pc, result, sLen, sHead, lastSend,
                     rSize, rTail, retries, resyncs, raised, calls, got>>
  BY DEF CardMoves, vars, t1Vars, sendVars, recvVars, loopVars

\* The card says something without a change of its mind.
LEMMA CardRepeats ==
  ASSUME IInv, ExInv, CardMoves, Repeats,
         faults' = faults + 1 \/ (faults' = faults /\ cOut'.type # "R"),
         cOut' \in CardBlocks, cOut'.type = "I" => cOut' = cI
  PROVE  /\ CardKeeps'
         /\ WholeInv => WholeInv'
         /\ RetryInv => RetryInv'
<1> USE ReaderWaits
<1>1. faults' \in Nat /\ faults' >= faults /\ faults \in Nat /\ retries \in Nat /\ Retries \in Nat
  BY RetryAssumption, SMTT(30) DEF ExInv, CardKeeps, IInv, NumbersOK
<1>2. CardKeeps'
  BY <1>1 DEF ExInv, CardKeeps, Repeats, Nothing, CardI, CardBlock
<1>3. WholeInv => WholeInv'
  BY DEF WholeInv, Repeats, CommandsWhole, Sent, Fresh
<1>4. ASSUME RetryInv PROVE RetryInv'
  <2>1. pc = "xcv" /\ (state = "RESYNCH" => faults >= Retries)
        /\ (state # "RESYNCH" => retries + faults >= Retries)
        /\ (state = "SENDING" /\ sHead = sLen => faults >= Retries)
    BY <1>4 DEF RetryInv, CardMoves
  <2>2. faults' = faults + 1 \/ ~Owed'
    BY DEF Owed
  <2>3. /\ state = "RESYNCH" => faults' >= Retries
        /\ state # "RESYNCH" => retries + faults' >= Retries
        /\ state # "RESYNCH" /\ faults' = faults + 1 => retries + faults' >= Retries + 1
        /\ state = "SENDING" /\ sHead = sLen => faults' >= Retries
    <3>1. \A x \in Nat : x >= Retries => x + 1 >= Retries + 1 /\ x + 1 >= Retries
      BY <1>1
    <3>2. retries + faults \in Nat /\ retries + (faults + 1) = (retries + faults) + 1
      BY <1>1
    <3> QED
      BY <1>1, <2>1, <3>1, <3>2
  <2> QED
    BY <2>2, <2>3 DEF RetryInv
<1> QED
  BY <1>2, <1>3, <1>4

\* The card asks again, or for more time, when it has heard nothing.
LEMMA CardMishearsKeeps ==
  ASSUME IInv, ExInv, CardMishears, state # "RESYNCH"
  PROVE  Kept
<1>1. CardMoves /\ Repeats /\ faults' = faults + 1
      /\ cOut' = IF cOut.code = "WTX_req" THEN cOut ELSE CardR
  BY DEF CardMishears, CardMoves, Repeats, Garbles, Says, ExInv, Wired
<1>2. Phase /\ CardKeeps
  BY <1>1 DEF ExInv, Progress, CardMoves
<1>3. /\ CardR \in CardBlocks /\ CardR.type = "R" /\ CardR.code = "none" /\ CardR' = CardR
      /\ CardS("WTX_req").type = "S"
  BY <1>1, <1>2, CardBlockFacts DEF CardR, CardBlock, Repeats
<1>4. cOut' \in CardBlocks /\ (cOut'.type = "I" => cOut' = cI)
  BY <1>1, <1>2, <1>3 DEF CardKeeps
<1>5. Phase'
  <2> USE <1>1, ReaderWaits DEF Repeats
  <2>1. CASE Asked
    BY <2>1, <1>3 DEF Asked, Phase, CardNext, Quiet
  <2>2. CASE Linked
    BY <2>2, <1>3 DEF Linked, Phase, CardMoves, Nothing, CardBlock
  <2>3. CASE Answering
    BY <2>3, <1>3 DEF Answering, Phase, CardMoves, Executed, CardS, CardBlock
  <2>4. CASE Accepted
    <3>1. cOut.code # "WTX_req"
      BY <2>4, <1>2, <1>3, OwnBlockFacts DEF Accepted
    <3> QED
      BY <2>4, <3>1, <1>3 DEF Accepted, Phase, Executed, Received
  <2>5. CASE Waiting
    <3>1. cOut.code # "WTX_req"
      BY <2>5, <1>2, <1>3, OwnBlockFacts DEF Waiting
    <3> QED
      BY <2>5, <3>1, <1>3 DEF Waiting, Phase, Executed, Received
  <2>6. ~Resyncing
    BY DEF Resyncing
  <2> QED
    BY <2>1, <2>2, <2>3, <2>4, <2>5, <2>6, <1>2 DEF Phase
<1> QED
  BY <1>1, <1>4, <1>5, CardRepeats DEF Kept

\* What the card hears, with what it makes of it.
LEMMA CardHearsCases ==
  ASSUME ExInv, CardHears
  PROVE  /\ CardMoves /\ faults' = faults /\ pc = "xcv" /\ CardKeeps /\ Phase
         /\ CardTakesI \/ CardRefusesI \/ CardHearsR \/ CardHearsS
  BY DEF CardHears, CardMoves, ExInv, Wired, Progress

\* An I-block that is not the last of its chain is taken.
LEMMA CardTakesLink ==
  ASSUME IInv, ExInv, Asked, CardHears, CardTakesI, block.more
  PROVE  Kept
<1>1. /\ CardMoves /\ faults' = faults /\ pc = "xcv" /\ CardKeeps
  BY CardHearsCases
<1>2. /\ block.type = "I" /\ block.seq = ns /\ block.more = more
      /\ block.first = sHead /\ block.len = lastSend
      /\ sHead \in Nat /\ lastSend \in Nat /\ calls \in Nat
  BY <1>1 DEF CardTakesI, IInv, ChainWindow, NumbersOK, CardKeeps
<1>3. /\ cNr' = 1 - cNr /\ cNs' = CardNext /\ cI' = Nothing
      /\ cCmd' = cCmd \o [i \in 1..lastSend |-> <<calls, sHead + i>>]
      /\ cOut' = [CardR EXCEPT !.seq = 1 - cNr]
      /\ UNCHANGED <<cExec, cResp>>
  BY <1>2 DEF CardTakesI, CardNext, Says
<1>4. cOut' = CardR'
  BY <1>3 DEF CardR, CardBlock
<1>5. cNs \in Bit /\ cNr \in Bit /\ cNs' \in Bit /\ cNr' \in Bit
  BY <1>1, <1>3 DEF CardKeeps, CardNext, Bit
<1>6. CardKeeps'
  <2>1. Nothing \in CardBlocks /\ Nothing.type = "none" /\ Nothing' = Nothing
    BY <1>1, CardBlockFacts DEF Nothing, CardBlock
  <2>2. cOut' \in CardBlocks /\ cOut'.type = "R"
    BY <1>4, <1>5 DEF CardR, CardBlock, CardBlocks
  <2> QED
    BY <1>1, <1>3, <1>5, <2>1, <2>2, ReaderWaits DEF CardKeeps
<1>7. Linked'
  <2>1. ns = 1 - cNr' /\ nr = cNs' /\ more
    BY <1>2, <1>3, <1>5 DEF Asked, Bit
  <2>2. Nothing' = Nothing /\ wire' = "toReader"
    BY <1>1 DEF Nothing, CardBlock, CardMoves
  <2> QED
    BY <1>1, <1>2, <1>3, <1>4, <2>1, <2>2, ReaderWaits DEF Linked, Asked
<1>8. cNr' # ns /\ more
  BY <1>2, <1>3, <1>5 DEF Asked, Bit
<1>9. ASSUME WholeInv PROVE WholeInv'
  <2>1. cCmd = Sent(sHead) /\ Fresh
    BY <1>1, <1>9 DEF WholeInv, Asked
  <2>2. cCmd' = Sent(sHead + lastSend)
    BY <1>2, <1>3, <2>1, Piece DEF Sent
  <2>3. Sent(sHead + lastSend)' = Sent(sHead + lastSend) /\ Fresh'
    BY <1>1, <1>3, <2>1, ReaderWaits DEF Sent, Fresh
  <2>4. pc' = "xcv" /\ state' = "SENDING" /\ cNr' # ns' /\ more'
    BY <1>1, <1>8, ReaderWaits DEF Asked
  <2>5. CommandsWhole' /\ (\A k \in DOMAIN cExec : cExec[k].call <= calls)'
    BY <1>1, <1>3, <1>9, ReaderWaits DEF WholeInv, CommandsWhole
  <2> QED
    BY <2>2, <2>3, <2>4, <2>5 DEF WholeInv
<1>10. RetryInv => RetryInv'
  <2>1. ~Owed'
    BY <1>1, <1>8, ReaderWaits DEF Owed, Asked
  <2> QED
    BY <1>1, <2>1, ReaderWaits DEF RetryInv
<1> QED
  BY <1>6, <1>7, <1>9, <1>10 DEF Kept, Phase

\* The last I-block of a chain is taken and the command executed.
LEMMA CardExecutes ==
  ASSUME IInv, ExInv, Asked, CardHears, CardTakesI, ~block.more
  PROVE  Kept
<1> DEFINE bytes == cCmd \o [i \in 1..block.len |-> <<calls, block.first + i>>]
           e     == [call |-> calls, whole |-> bytes = [i \in 1..sLen |-> <<calls, i>>]]
<1>1. /\ CardMoves /\ faults' = faults /\ pc = "xcv" /\ CardKeeps
  BY CardHearsCases
<1>2. /\ block.type = "I" /\ block.seq = ns /\ block.more = more
      /\ block.first = sHead /\ block.len = lastSend
      /\ sHead \in Nat /\ lastSend \in Nat /\ sLen \in Nat /\ calls \in Nat
      /\ sHead + lastSend <= sLen /\ (more <=> sHead + lastSend < sLen)
  BY <1>1 DEF CardTakesI, IInv, ChainWindow, NumbersOK, CardKeeps
<1>3. /\ cNr' = 1 - cNr /\ cNs' = CardNext /\ cCmd' = <<>>
      /\ cExec' = Append(cExec, e)
      /\ cResp' \in RespSizes /\ cI' = CardI(cResp', 0, CardNext)
      /\ cOut' = cI' \/ cOut' = CardS("WTX_req")
  BY DEF CardTakesI, CardNext, Says
<1>4. cNs \in Bit /\ cNr \in Bit /\ cNs' \in Bit /\ cNr' \in Bit /\ CardNext \in Bit
  BY <1>1, <1>3 DEF CardKeeps, CardNext, Bit
<1>5. cResp' \in Nat /\ 0 < cResp'
  BY <1>3, CardAssumption
<1>6. e.call = calls /\ e.whole = (bytes = [i \in 1..sLen |-> <<calls, i>>])
      /\ e \in [call: Nat, whole: BOOLEAN]
  BY <1>2
<1> HIDE DEF e
<1>7. /\ cI' \in CardBlocks /\ cI'.type = "I" /\ cI'.first = 0
      /\ cI' = CardI(cResp', cI'.first, cNs')
  BY <1>3, <1>4, <1>5, CardIFacts
<1>8. CardKeeps'
  <2>1. CardS("WTX_req") \in CardBlocks /\ CardS("WTX_req").type = "S"
    BY <1>1, CardBlockFacts
  <2>2. cOut' \in CardBlocks /\ (cOut'.type = "I" => cOut' = cI')
    BY <1>3, <1>7, <2>1
  <2>3. cExec' \in Seq([call: Nat, whole: BOOLEAN])
    BY <1>1, <1>3, <1>6 DEF CardKeeps
  <2>4. (CardI(cResp, cI.first, cNs))' = CardI(cResp', cI'.first, cNs')
    BY DEF CardI, CardBlock
  <2> QED
    BY <1>1, <1>4, <1>5, <1>7, <2>2, <2>3, <2>4, ReaderWaits DEF CardKeeps
<1>9. /\ Len(cExec') = Len(cExec) + 1 /\ cExec'[Len(cExec')] = e /\ cExec' # <<>>
      /\ DOMAIN cExec' = 1..Len(cExec) + 1
      /\ \A k \in 1..Len(cExec) : cExec'[k] = cExec[k]
      /\ DOMAIN cExec = 1..Len(cExec) /\ Len(cExec) \in Nat
  <2> DEFINE R == [call: Nat, whole: BOOLEAN]
  <2>1. cExec \in Seq(R) /\ e \in R
    BY <1>1, <1>6 DEF CardKeeps
  <2> HIDE DEF R
  <2> QED
    BY <1>3, <2>1
<1>10. Answering'
  <2>1. ns = 1 - cNr' /\ nr = cNs' /\ ~more
    BY <1>2, <1>3, <1>4 DEF Asked, Bit
  <2>2. Executed'
    BY <1>1, <1>6, <1>9, ReaderWaits DEF Executed
  <2>3. (CardS("WTX_req"))' = CardS("WTX_req") /\ wire' = "toReader"
    BY <1>1 DEF CardS, CardBlock, CardMoves
  <2> QED
    BY <1>1, <1>2, <1>3, <1>7, <2>1, <2>2, <2>3, ReaderWaits DEF Answering, Asked
<1>11. cNr' # ns /\ ~more
  BY <1>2, <1>3, <1>4 DEF Asked, Bit
<1>12. ASSUME WholeInv PROVE WholeInv'
  <2>1. cCmd = Sent(sHead) /\ Fresh
    BY <1>1, <1>12 DEF WholeInv, Asked
  <2>2. sHead + lastSend = sLen
    BY <1>2, <1>11
  <2>3. e.whole
    <3>1. bytes = [i \in 1..sHead |-> <<calls, i>>] \o [i \in 1..lastSend |-> <<calls, sHead + i>>]
      BY <1>2, <2>1 DEF Sent
    <3>2. bytes = [i \in 1..(sHead + lastSend) |-> <<calls, i>>]
      BY <1>2, <3>1, Piece, ZenonT(60)
    <3>3. bytes = [i \in 1..sLen |-> <<calls, i>>]
      BY <2>2, <3>2
    <3> HIDE DEF bytes
    <3> QED
      BY <1>6, <3>3, Zenon
  <2>4. CommandsWhole'
    BY <1>9, <1>12, <2>3 DEF WholeInv, CommandsWhole
  <2>5. (\A k \in DOMAIN cExec : cExec[k].call <= calls)'
    BY <1>1, <1>2, <1>6, <1>9, <1>12, ReaderWaits DEF WholeInv
  <2>6. pc' = "xcv" /\ state' = "SENDING" /\ cNr' # ns' /\ ~more' /\ cCmd' = <<>>
    BY <1>1, <1>3, <1>11, ReaderWaits DEF Asked
  <2> QED
    BY <2>4, <2>5, <2>6 DEF WholeInv
<1>13. RetryInv => RetryInv'
  <2>1. cOut'.type # "R"
    BY <1>1, <1>3, <1>7, CardBlockFacts
  <2>2. ~Owed'
    BY <2>1 DEF Owed
  <2> QED
    BY <1>1, <2>2, ReaderWaits DEF RetryInv
<1> QED
  BY <1>8, <1>10, <1>12, <1>13 DEF Kept, Phase

\* An R-block makes the card repeat what it said last while it waits for an I-block.
LEMMA AskedHears ==
  ASSUME IInv, ExInv, Asked, CardHears
  PROVE  Kept
<1>1. /\ CardMoves /\ faults' = faults /\ pc = "xcv" /\ CardKeeps
      /\ CardTakesI \/ CardRefusesI \/ CardHearsR \/ CardHearsS
  BY CardHearsCases
<1>2. CASE CardTakesI
  BY <1>2, CardTakesLink, CardExecutes
<1>3. ~CardRefusesI
  BY <1>1 DEF CardRefusesI, Asked, IInv, ChainWindow
<1>4. CASE CardHearsR
  <2>1. /\ block.type = "R" /\ block.seq = nr /\ cOut = CardR
        /\ ns = cNr /\ nr = CardNext /\ Quiet /\ rTail = 0 /\ state = "SENDING"
    BY <1>4 DEF CardHearsR, Asked
  <2>2. /\ CardR \in CardBlocks /\ CardR.type = "R" /\ CardR.code = "none"
        /\ Nothing.type = "none"
    BY <1>1, CardBlockFacts
  <2>3. Repeats /\ cOut' = CardR
    <3>1. CASE cI = Nothing
      BY <1>4, <2>1, <2>2, <3>1 DEF CardHearsR, Says, Repeats
    <3>2. CASE cI # Nothing
      <4>1. cI.type = "I" /\ ~cI.more
        BY <1>1, <2>1, <3>2 DEF CardKeeps, Quiet
      <4>2. block.seq # cNs
        BY <1>1, <2>1, <4>1 DEF CardNext, CardKeeps, Bit
      <4> QED
        BY <1>4, <2>1, <2>2, <3>2, <4>1, <4>2 DEF CardHearsR, Says, Repeats
    <3> QED
      BY <3>1, <3>2
  <2>4. CardR' = CardR /\ wire' = "toReader"
    BY <1>1, <2>3 DEF CardR, CardBlock, Repeats, CardMoves
  <2>5. Asked'
    BY <1>1, <2>1, <2>2, <2>3, <2>4, ReaderWaits DEF Asked, CardNext, Quiet, Repeats
  <2>6. RetryInv => RetryInv'
    <3>1. ~Owed'
      BY <1>1, <2>1, <2>3, ReaderWaits DEF Owed, Repeats
    <3> QED
      BY <1>1, <3>1, ReaderWaits DEF RetryInv
  <2>7. CardKeeps'
    BY <1>1, <2>2, <2>3, ReaderWaits DEF CardKeeps, Repeats, Nothing, CardI, CardBlock
  <2>8. WholeInv => WholeInv'
    BY <1>1, <2>3, ReaderWaits DEF WholeInv, Repeats, CommandsWhole, Sent, Fresh
  <2> QED
    BY <2>5, <2>6, <2>7, <2>8 DEF Kept, Phase
<1>5. ~CardHearsS
  BY DEF CardHearsS, Asked
<1> QED
  BY <1>1, <1>2, <1>3, <1>4, <1>5

\* The card says something again, other than an R-block.
LEMMA CardSaysAgain ==
  ASSUME IInv, ExInv, CardMoves, Repeats, faults' = faults, cOut'.type # "R",
         cOut' = cI \/ cOut' = CardS("WTX_req"), cI.type = "I"
  PROVE  /\ CardKeeps'
         /\ WholeInv => WholeInv'
         /\ RetryInv => RetryInv'
<1>1. CardKeeps
  BY DEF ExInv
<1>2. cOut' \in CardBlocks /\ (cOut'.type = "I" => cOut' = cI)
  BY <1>1, CardBlockFacts DEF CardKeeps
<1> QED
  BY <1>2, CardRepeats

\* An R-block makes the card repeat its R-block, when that is not known.
LEMMA LinkedHears ==
  ASSUME IInv, ExInv, Linked, CardHears
  PROVE  Kept
<1>1. /\ CardMoves /\ faults' = faults /\ pc = "xcv" /\ CardKeeps
      /\ CardTakesI \/ CardRefusesI \/ CardHearsR \/ CardHearsS
  BY CardHearsCases
<1>2. block.type = "R" /\ cI = Nothing /\ cOut = CardR
  BY <1>1 DEF Linked, CardMoves
<1>3. /\ CardR \in CardBlocks /\ CardR.type = "R" /\ CardR.code = "none"
      /\ Nothing.type = "none"
  BY <1>1, CardBlockFacts
<1>4. CardHearsR
  BY <1>1, <1>2 DEF CardTakesI, CardRefusesI, CardHearsS
<1>5. Repeats /\ cOut' = CardR
  BY <1>2, <1>3, <1>4 DEF CardHearsR, Says, Repeats
<1>6. CardR' = CardR /\ Nothing' = Nothing /\ wire' = "toReader"
  BY <1>1, <1>5 DEF CardR, CardBlock, Repeats, CardMoves, Nothing
<1>7. Linked'
  BY <1>1, <1>2, <1>5, <1>6, ReaderWaits DEF Linked, Repeats
<1>8. RetryInv => RetryInv'
  <2>1. ~Owed'
    BY <1>1, ReaderWaits DEF Owed, Linked
  <2> QED
    BY <1>1, <2>1, ReaderWaits DEF RetryInv
<1>9. CardKeeps'
  BY <1>1, <1>3, <1>5, <1>6, ReaderWaits DEF CardKeeps, Repeats, CardI, CardBlock
<1>10. WholeInv => WholeInv'
  BY <1>1, <1>5, ReaderWaits DEF WholeInv, Repeats, CommandsWhole, Sent, Fresh
<1> QED
  BY <1>7, <1>8, <1>9, <1>10 DEF Kept, Phase

\* While its response is not known to have come, the card repeats it.
LEMMA AnsweringHears ==
  ASSUME IInv, ExInv, Answering, CardHears
  PROVE  Kept
<1>1. /\ CardMoves /\ faults' = faults /\ pc = "xcv" /\ CardKeeps
      /\ CardTakesI \/ CardRefusesI \/ CardHearsR \/ CardHearsS
  BY CardHearsCases
<1>2. /\ block.type = "R" \/ (block.type = "S" /\ block.code = "WTX_resp")
      /\ block.type = "R" => block.seq = cNs
      /\ cI.type = "I" /\ cI # Nothing
  BY <1>1, OwnBlockFacts DEF Answering, CardMoves
<1>3. /\ CardS("WTX_req").type = "S" /\ CardS("WTX_req").code = "WTX_req"
      /\ CardR.code = "none" /\ cI.code = "none"
  BY <1>1, <1>2, CardBlockFacts, OwnBlockFacts
<1>4. Repeats /\ (cOut' = cI \/ cOut' = CardS("WTX_req"))
  <2>1. CASE CardHearsR
    <3>1. CASE cOut.code = "WTX_req"
      <4>1. cOut = CardS("WTX_req")
        BY <1>3, <3>1 DEF Answering
      <4>2. cOut # Nothing
        BY <3>1 DEF Nothing, CardBlock
      <4> QED
        BY <2>1, <3>1, <4>1, <4>2 DEF CardHearsR, Says, Repeats
    <3>2. CASE cOut.code # "WTX_req"
      BY <1>2, <2>1, <3>2 DEF CardHearsR, Says, Repeats
    <3> QED
      BY <3>1, <3>2
  <2>2. CASE CardHearsS
    BY <1>2, <2>2 DEF CardHearsS, Says, Repeats
  <2> QED
    BY <1>1, <1>2, <2>1, <2>2 DEF CardTakesI, CardRefusesI
<1>5. cOut'.type # "R"
  BY <1>2, <1>3, <1>4
<1>6. Answering'
  <2>1. (CardS("WTX_req"))' = CardS("WTX_req") /\ wire' = "toReader"
    BY <1>1 DEF CardS, CardBlock, CardMoves
  <2>2. Executed'
    BY <1>1, <1>4, ReaderWaits DEF Answering, Executed, Repeats
  <2> QED
    BY <1>1, <1>2, <1>4, <2>1, <2>2, ReaderWaits DEF Answering, Repeats
<1> QED
  BY <1>1, <1>2, <1>4, <1>5, <1>6, CardSaysAgain DEF Kept, Phase

\* The card sends the next I-block when the one before is acknowledged.
LEMMA AcceptedHears ==
  ASSUME IInv, ExInv, Accepted, CardHears
  PROVE  Kept
<1>1. /\ CardMoves /\ faults' = faults /\ pc = "xcv" /\ CardKeeps
      /\ CardTakesI \/ CardRefusesI \/ CardHearsR \/ CardHearsS
  BY CardHearsCases
<1>2. block.type = "R" /\ block.seq = 1 - cNs /\ cI.type = "I" /\ cI # Nothing /\ cI.more
  BY <1>1, OwnBlockFacts DEF Accepted
<1>3. CardHearsR
  BY <1>1, <1>2 DEF CardTakesI, CardRefusesI, CardHearsS
<1>4. cOut.code # "WTX_req"
  BY <1>1, <1>2, CardBlockFacts, OwnBlockFacts DEF Accepted
<1>5. cNs \in Bit /\ 1 - cNs \in Bit /\ block.seq # cNs
  BY <1>1, <1>2 DEF CardKeeps, Bit
<1>6. /\ cNs' = 1 - cNs /\ cI' = CardI(cResp, cI.first + cI.len, 1 - cNs) /\ cOut' = cI'
      /\ UNCHANGED <<cNr, cCmd, cExec, cResp>>
  BY <1>2, <1>3, <1>4, <1>5 DEF CardHearsR, Says
<1>7. /\ cI.first + cI.len \in Nat /\ cI.first + cI.len < cResp /\ cResp \in Nat
  BY <1>1, <1>2, OwnBlockFacts DEF CardKeeps
<1>8. cI' \in CardBlocks /\ cI'.type = "I" /\ cI'.first = cI.first + cI.len
  BY <1>5, <1>6, <1>7, CardIFacts
<1>9. CardKeeps'
  <2>1. (CardI(cResp, cI.first, cNs))' = CardI(cResp', cI'.first, cNs')
    BY DEF CardI, CardBlock
  <2>2. cI' = CardI(cResp', cI'.first, cNs') /\ cI'.first < cResp'
    BY <1>6, <1>7, <1>8
  <2>3. cNs' \in Bit /\ cNr' \in Bit /\ cResp' \in Nat /\ faults' \in Nat /\ calls' \in Nat
        /\ cExec' \in Seq([call: Nat, whole: BOOLEAN]) /\ (rTail' = 0 => got' = <<>>)
    BY <1>1, <1>5, <1>6, ReaderWaits DEF CardKeeps
  <2> QED
    BY <1>6, <1>8, <2>1, <2>2, <2>3 DEF CardKeeps
<1>10. Waiting'
  <2>1. Executed' /\ (Received(rTail))' = Received(rTail)
    BY <1>1, <1>6, ReaderWaits DEF Accepted, Executed, Received
  <2> QED
    BY <1>1, <1>2, <1>6, <1>8, <2>1, ReaderWaits DEF Accepted, Waiting
<1>11. RetryInv => RetryInv'
  <2>1. ~Owed'
    BY <1>6, <1>8 DEF Owed
  <2> QED
    BY <1>1, <2>1, ReaderWaits DEF RetryInv
<1>12. WholeInv => WholeInv'
  BY <1>1, <1>6, ReaderWaits DEF WholeInv, CommandsWhole, Sent, Fresh
<1> QED
  BY <1>9, <1>10, <1>11, <1>12 DEF Kept, Phase

\* The card repeats the I-block the reader asks for.
LEMMA WaitingHears ==
  ASSUME IInv, ExInv, Waiting, CardHears
  PROVE  Kept
<1>1. /\ CardMoves /\ faults' = faults /\ pc = "xcv" /\ CardKeeps
      /\ CardTakesI \/ CardRefusesI \/ CardHearsR \/ CardHearsS
  BY CardHearsCases
<1>2. block.type = "R" /\ block.seq = cNs /\ cI.type = "I" /\ cI # Nothing
  BY <1>1, OwnBlockFacts DEF Waiting
<1>3. CardHearsR
  BY <1>1, <1>2 DEF CardTakesI, CardRefusesI, CardHearsS
<1>4. cOut.code # "WTX_req"
  BY <1>1, <1>2, CardBlockFacts, OwnBlockFacts DEF Waiting
<1>5. Repeats /\ cOut' = cI
  BY <1>2, <1>3, <1>4 DEF CardHearsR, Says, Repeats
<1>6. Waiting'
  <2>1. Executed' /\ (Received(rTail))' = Received(rTail)
    BY <1>1, <1>5, ReaderWaits DEF Waiting, Executed, Received, Repeats
  <2> QED
    BY <1>1, <1>2, <1>5, <2>1, ReaderWaits DEF Waiting, Repeats
<1> QED
  BY <1>1, <1>2, <1>5, <1>6, CardSaysAgain DEF Kept, Phase

\* S(RESYNCH request) takes the card back to where it was after the reset.
LEMMA ResyncingHears ==
  ASSUME IInv, ExInv, Resyncing, CardHears
  PROVE  CardKeeps' /\ Phase' /\ (RetryInv => RetryInv')
<1>1. /\ CardMoves /\ faults' = faults /\ pc = "xcv" /\ CardKeeps
      /\ CardTakesI \/ CardRefusesI \/ CardHearsR \/ CardHearsS
  BY CardHearsCases
<1>2. CardReset /\ cOut' = CardS("RESYNC_resp")
  BY <1>1 DEF Resyncing, CardTakesI, CardRefusesI, CardHearsR, CardHearsS, Says
<1>3. /\ Nothing \in CardBlocks /\ Nothing.type = "none" /\ Nothing' = Nothing
      /\ CardS("RESYNC_resp") \in CardBlocks /\ CardS("RESYNC_resp").type = "S"
      /\ (CardS("RESYNC_resp"))' = CardS("RESYNC_resp")
  BY <1>1, CardBlockFacts DEF Nothing, CardS, CardBlock
<1>4. CardKeeps'
  BY <1>1, <1>2, <1>3, ReaderWaits DEF CardKeeps, CardReset, Bit
<1>5. Resyncing'
  BY <1>1, <1>2, <1>3, ReaderWaits DEF Resyncing, CardReset
<1>6. RetryInv => RetryInv'
  BY <1>1, ReaderWaits DEF RetryInv, Resyncing
<1> QED
  BY <1>4, <1>5, <1>6 DEF Phase

-----------------------------------------------------------------------------
(* The reader                                                              *)

ReaderMoves ==
    /\ pc = "xcv" /\ wire = "toReader"
    /\ Store /\ Sends
    /\ faults' \in {faults, faults + 1}
    /\ UNCHANGED <<calls, sLen, cardVars>>

\* What an answer has to show.
Heard ==
    /\ CardKeeps' /\ Wired' /\ Progress'
    /\ state # "RESYNCH" /\ WholeInv => WholeInv'
    /\ RetryInv => RetryInv'

\* The card's variables during a step of the reader.
LEMMA CardWaits ==
  ASSUME ReaderMoves
  PROVE  UNCHANGED <<cNs, cNr, cCmd, cExec, cResp, cI, cOut, calls, sLen>>
  BY DEF ReaderMoves, cardVars

\* What any answer does to the buffer and to the line.
LEMMA ReaderKeeps ==
  ASSUME IInv, ExInv, ReaderMoves, rTail' \in Nat, pc' \in {"idle", "xcv"}
  PROVE  /\ CardKeeps' /\ Wired'
         /\ faults' \in Nat /\ faults' >= faults /\ faults \in Nat
         /\ retries \in Nat /\ rTail \in Nat /\ Retries \in Nat
         /\ rTail' = rTail => got' = got
         /\ pc' = "xcv" => wire' = "toCard"
<1>1. faults' \in Nat /\ faults' >= faults /\ faults \in Nat
  BY DEF ExInv, CardKeeps, ReaderMoves
<1>2. retries \in Nat /\ rTail \in Nat /\ Retries \in Nat
  BY RetryAssumption DEF IInv, NumbersOK
<1>3. rTail' = 0 => got' = <<>>
  BY <1>2 DEF ReaderMoves, Store, ExInv, CardKeeps
<1>4. rTail' = rTail => got' = got
  BY <1>2 DEF ReaderMoves, Store
<1>5. CardKeeps'
  <2>1. Nothing' = Nothing /\ (CardI(cResp, cI.first, cNs))' = CardI(cResp', cI'.first, cNs')
    BY DEF Nothing, CardI, CardBlock
  <2> QED
    BY <1>1, <1>3, <2>1, CardWaits DEF CardKeeps, ExInv
<1>6. Wired' /\ (pc' = "xcv" => wire' = "toCard")
  BY DEF Wired, ReaderMoves, Sends
<1> QED
  BY <1>1, <1>2, <1>4, <1>5, <1>6

\* A call that fails leaves nothing to hold.
LEMMA ReaderGivesUp ==
  ASSUME IInv, ExInv, ReaderMoves, rTail' \in Nat,
         pc' = "idle", state' = "DEAD", result' = "error"
  PROVE  Heard
<1>1. CardKeeps' /\ Wired'
  BY ReaderKeeps
<1>2. Progress'
  BY DEF Progress, ResponseIsOurs
<1>3. WholeInv => WholeInv'
  BY CardWaits DEF WholeInv, CommandsWhole
<1>4. RetryInv'
  BY DEF RetryInv
<1> QED
  BY <1>1, <1>2, <1>3, <1>4 DEF Heard

\* A resynchronisation begins, or is given up.
LEMMA ReaderResyncs ==
  ASSUME IInv, ExInv, ReaderMoves, rTail' \in Nat, NEW acked, Resync(acked),
         RetryInv => faults' >= Retries
  PROVE  Heard
<1>1. CASE Die(acked)
  BY <1>1, ReaderGivesUp DEF Die, Return
<1>2. CASE Continue(SBlock("RESYNC_req", 0), 1, "RESYNCH") /\ ns' = 0 /\ nr' = 0
  <2>1. pc' = "xcv" /\ state' = "RESYNCH" /\ block'.type = "S" /\ block'.code = "RESYNC_req"
    BY <1>2 DEF Continue, SBlock, ReaderMoves
  <2>2. CardKeeps' /\ Wired' /\ wire' = "toCard"
    BY <2>1, ReaderKeeps
  <2>3. Progress'
    BY <1>2, <2>1, <2>2 DEF Progress, Phase, Resyncing, ResponseIsOurs
  <2>4. WholeInv => WholeInv'
    BY <2>1, CardWaits DEF WholeInv, CommandsWhole
  <2>5. RetryInv => RetryInv'
    BY <2>1 DEF RetryInv
  <2> QED
    BY <2>2, <2>3, <2>4, <2>5 DEF Heard
<1> QED
  BY <1>1, <1>2 DEF Resync

\* An R-block that asks again keeps the phase.
LEMMA ReaderAsksAgain ==
  ASSUME IInv, ExInv, ReaderMoves, state # "RESYNCH",
         block'.type = "R", block'.seq = nr,
         UNCHANGED <<state, ns, nr, more, lastSend, sHead, rTail, pc>>,
         RetryInv => retries' + faults' >= Retries
  PROVE  Heard
<1>1. /\ CardKeeps' /\ Wired' /\ faults' \in Nat /\ faults' >= faults /\ faults \in Nat
      /\ got' = got /\ wire' = "toCard" /\ pc = "xcv" /\ pc' = "xcv" /\ Retries \in Nat
  BY ReaderKeeps DEF ReaderMoves, IInv, NumbersOK
<1>2. Phase /\ wire = "toReader"
  BY <1>1 DEF ExInv, Progress, ReaderMoves
<1>3. Phase'
  <2> USE <1>1, <1>2, CardWaits
  <2>1. CardR' = CardR /\ Nothing' = Nothing /\ (CardS("WTX_req"))' = CardS("WTX_req")
    BY DEF CardR, Nothing, CardS, CardBlock
  <2>2. CASE Asked
    BY <2>1, <2>2 DEF Asked, Phase, CardNext, Quiet
  <2>3. CASE Linked
    BY <2>1, <2>3 DEF Linked, Phase
  <2>4. CASE Answering
    BY <2>1, <2>4 DEF Answering, Phase, Executed
  <2>5. CASE Accepted
    BY <2>1, <2>5 DEF Accepted, Phase, Executed, Received
  <2>6. CASE Waiting
    BY <2>1, <2>6 DEF Waiting, Phase, Executed, Received
  <2> QED
    BY <2>2, <2>3, <2>4, <2>5, <2>6 DEF Phase, Resyncing
<1>4. Progress'
  BY <1>1, <1>3 DEF Progress, ResponseIsOurs
<1>5. WholeInv => WholeInv'
  BY <1>1, CardWaits DEF WholeInv, CommandsWhole, Sent, Fresh
<1>6. ASSUME RetryInv PROVE RetryInv'
  <2>1. retries' + faults' >= Retries /\ ~Owed'
    BY <1>1, <1>6 DEF Owed
  <2>2. state = "SENDING" /\ sHead = sLen => faults' >= Retries
    BY <1>1, <1>6 DEF RetryInv
  <2> QED
    BY <1>1, <2>1, <2>2, CardWaits DEF RetryInv
<1> QED
  BY <1>1, <1>4, <1>5, <1>6 DEF Heard

\* An invalid answer costs a retry, for which there is a block lost.
LEMMA ReaderComplains ==
  ASSUME IInv, ExInv, ReaderMoves, state # "RESYNCH", NEW err, Complain(err),
         UNCHANGED <<sHead, rTail>>,
         RetryInv => Left + faults' >= Retries
  PROVE  Heard
<1>1. Left \in Nat /\ rTail' \in Nat
  BY LeftType DEF IInv, NumbersOK
<1>2. faults' \in Nat
  BY DEF ExInv, CardKeeps, ReaderMoves
<1>3. CASE Left = 0 /\ Resync(FALSE)
  <2>1. RetryInv => faults' >= Retries
    BY <1>2, <1>3
  <2>2. Resync(FALSE)
    BY <1>3
  <2> QED
    BY <1>1, <2>1, <2>2, ReaderResyncs
<1>4. CASE block.type = "R" /\ Rebuild
  <2>1. /\ block' = Rebuilt /\ retries' = Left
        /\ UNCHANGED <<state, ns, nr, more, lastSend, pc>>
    BY <1>4 DEF Rebuild, Continue
  <2>2. block'.type = block.type /\ block'.seq = block.seq
    BY <2>1 DEF Rebuilt, IInv, Block
  <2>3. pc = "xcv" /\ Phase
    BY DEF ExInv, Progress, ReaderMoves
  <2>4. block.seq = nr
    BY <1>4, <2>3 DEF Phase, Resyncing, Asked, Linked, Answering, Accepted, Waiting
  <2> QED
    BY <1>4, <2>1, <2>2, <2>4, ReaderAsksAgain
<1>5. CASE SendR(nr, err, Left, state, FALSE)
  <2>1. /\ block' = RBlock(nr, err) /\ retries' = Left
        /\ UNCHANGED <<state, ns, nr, more, lastSend, pc>>
    BY <1>5 DEF SendR, Continue, Ns, Unacked
  <2>2. block'.type = "R" /\ block'.seq = nr
    BY <2>1 DEF RBlock
  <2> QED
    BY <2>1, <2>2, ReaderAsksAgain
<1> QED
  BY <1>3, <1>4, <1>5 DEF Complain

\* What a retry less leaves.
LEMMA LeftCovers ==
  ASSUME IInv, ExInv
  PROVE  /\ Left \in Nat
         /\ \A f \in Nat : retries + f >= Retries + 1 => Left + f >= Retries
         /\ \A f \in Nat : retries + f >= Retries => Left + (f + 1) >= Retries
<1>1. Left \in Nat /\ retries \in Nat /\ Retries \in Nat /\ UintMax \in Nat /\ UintMax > Retries
  BY LeftType, RetryAssumption DEF IInv, NumbersOK
<1>2. CASE retries = 0
  BY <1>1, <1>2 DEF Left
<1>3. CASE retries # 0
  <2>1. Left = retries - 1
    BY <1>3 DEF Left
  <2> QED
    BY <1>1, <2>1
<1> QED
  BY <1>2, <1>3

\* An answer that does not come, or not as it was sent.
LEMMA ReaderMishearsKeeps ==
  ASSUME IInv, ExInv, ReaderMishears, state # "RESYNCH"
  PROVE  Heard
<1>1. ReaderMoves /\ faults' = faults + 1
  BY DEF ReaderMishears, ReaderMoves, Garbles, ExInv, Wired, ReceiveError, LinkFails,
      ParityError, Garbled, XcvGood, XcvError, Xcv
<1>2. UNCHANGED <<sHead, rTail>>
  BY DEF ReaderMishears, ReceiveError, LinkFails, ParityError, Garbled, SameBuffers
<1>3. rTail' \in Nat
  BY <1>2 DEF IInv, NumbersOK
<1>4. RetryInv => Left + faults' >= Retries
  <2>1. RetryInv => retries + faults >= Retries
    BY <1>1 DEF RetryInv, ReaderMoves
  <2>2. faults \in Nat
    BY DEF ExInv, CardKeeps
  <2> QED
    BY <1>1, <2>1, <2>2, LeftCovers
<1>5. CASE Die(FALSE)
  BY <1>1, <1>3, <1>5, ReaderGivesUp DEF Die, Return
<1>6. ASSUME NEW err, Complain(err) PROVE Heard
  BY <1>1, <1>2, <1>4, <1>6, ReaderComplains
<1> QED
  BY <1>5, <1>6 DEF ReaderMishears, ReceiveError, LinkFails, ParityError, Garbled

\* What the reader hears, with what it makes of it.
LEMMA ReaderHearsCases ==
  ASSUME ExInv, ReaderHears
  PROVE  /\ ReaderMoves /\ faults' = faults /\ pc = "xcv" /\ wire = "toReader"
         /\ CardKeeps /\ Phase
         /\ \/ cOut.type = "I" /\ ReceiveI(cOut.seq, cOut.more, cOut.len)
            \/ cOut.type = "R" /\ ReceiveR(cOut.seq, TRUE)
            \/ cOut.code = "RESYNC_resp" /\ (ResynchAnswered \/ SResponseRejected)
            \/ cOut.code = "WTX_req" /\ \E w \in WtxValues : WtxRequest(w)
<1>1. wire = "toReader" /\ pc = "xcv"
  BY DEF ReaderHears, ExInv, Wired
<1>2. sLen' = sLen
  BY DEF ReaderHears, ReceiveI, IBlockOutOfSequence, IBlockAccepted, IBlockOverrun,
      ReceiveR, RBlockRejected, RBlockWhileReceiving, RBlockWhileSending,
      ResynchAnswered, SResponseRejected, WtxRequest, XcvGood, Xcv
<1>3. ReaderMoves /\ faults' = faults
  BY <1>1, <1>2 DEF ReaderHears, ReaderMoves
<1>4. CardKeeps /\ Phase
  BY <1>1 DEF ExInv, Progress
<1> QED
  BY <1>1, <1>3, <1>4 DEF ReaderHears

\* The next I-block of the command, or the same again.
LEMMA ReaderSends ==
  ASSUME IInv, ExInv, ReaderMoves, NEW head, NEW n,
         SendI(head, n, Retries, "SENDING"), sHead' = head, rTail' = 0,
         n = cNr, nr = CardNext, Quiet, cOut.code # "WTX_req",
         state # "RESYNCH" /\ WholeInv => cCmd = Sent(head) /\ Fresh,
         RetryInv /\ head = sLen => faults' >= Retries
  PROVE  Heard
<1>1. /\ block' = IBlock(sLen, head, n) /\ retries' = Retries /\ state' = "SENDING"
      /\ ns' = n /\ nr' = nr /\ pc' = "xcv" /\ sLen' = sLen
  BY CardWaits DEF SendI, Continue, ReaderMoves
<1>2. block'.type = "I"
  BY <1>1 DEF IBlock
<1>3. /\ CardKeeps' /\ Wired' /\ faults' \in Nat /\ wire' = "toCard" /\ Retries \in Nat
  BY <1>1, ReaderKeeps
<1>4. Progress'
  <2>1. Asked'
    BY <1>1, <1>2, <1>3, CardWaits DEF Asked, CardNext, Quiet
  <2> QED
    BY <1>1, <2>1 DEF Progress, Phase, ResponseIsOurs
<1>5. ASSUME state # "RESYNCH", WholeInv PROVE WholeInv'
  <2>1. cCmd' = Sent(head) /\ Sent(head)' = Sent(head) /\ Fresh'
    BY <1>5, CardWaits DEF Sent, Fresh
  <2>2. Sent(sHead)' = Sent(head)'
    BY DEF Sent
  <2> QED
    BY <1>1, <1>5, <2>1, <2>2, CardWaits DEF WholeInv, CommandsWhole
<1>6. ASSUME RetryInv PROVE RetryInv'
  <2>1. ~Owed'
    BY <1>3 DEF Owed
  <2>2. retries' + faults' >= Retries
    <3>1. Retries + faults' >= Retries
      BY <1>3, SumCovers
    <3> QED
      BY <1>1, <3>1
  <2> QED
    BY <1>1, <1>6, <2>1, <2>2 DEF RetryInv
<1> QED
  BY <1>3, <1>4, <1>5, <1>6 DEF Heard

\* The card's R-block asks for the I-block again.
LEMMA AskedTells ==
  ASSUME IInv, ExInv, Asked, ReaderHears
  PROVE  Heard
<1>1. /\ ReaderMoves /\ faults' = faults /\ pc = "xcv" /\ wire = "toReader"
      /\ CardKeeps /\ cOut = CardR
  BY ReaderHearsCases DEF Asked
<1>2. cOut.type = "R" /\ cOut.code = "none" /\ cOut.seq = ns
  BY <1>1, CardBlockFacts DEF Asked
<1>3. RBlockWhileSending(ns, TRUE)
  BY <1>2, ReaderHearsCases DEF ReceiveR, RBlockRejected, RBlockWhileReceiving, Asked
<1>4. HeadAfter(ns # ns) = sHead /\ Ns(ns # ns) = ns
  BY DEF HeadAfter, Ns
<1>5. sHead' = sHead /\ rTail' = 0
  BY <1>3, <1>4 DEF RBlockWhileSending, Asked
<1>6. CASE sHead = sLen /\ Resync(ns # ns)
  <2>1. RetryInv => faults' >= Retries
    BY <1>1, <1>6 DEF RetryInv, Asked
  <2>2. Resync(ns # ns) /\ rTail' \in Nat
    BY <1>5, <1>6
  <2> QED
    BY <1>1, <2>1, <2>2, ReaderResyncs
<1>7. CASE sHead # sLen /\ SendI(sHead, ns, Retries, state)
  <2>1. WholeInv => cCmd = Sent(sHead) /\ Fresh
    BY <1>1 DEF WholeInv, Asked
  <2>2. /\ SendI(sHead, ns, Retries, "SENDING")
        /\ ns = cNr /\ nr = CardNext /\ Quiet /\ cOut.code # "WTX_req"
    BY <1>7 DEF Asked
  <2> QED
    BY <1>1, <1>5, <1>7, <2>1, <2>2, ReaderSends
<1> QED
  BY <1>3, <1>4, <1>6, <1>7 DEF RBlockWhileSending

\* The card's R-block acknowledges a link of the chain.
LEMMA LinkedTells ==
  ASSUME IInv, ExInv, Linked, ReaderHears
  PROVE  Heard
<1>1. /\ ReaderMoves /\ faults' = faults /\ pc = "xcv" /\ wire = "toReader"
      /\ CardKeeps /\ cOut = CardR
  BY ReaderHearsCases DEF Linked
<1>2. cOut.type = "R" /\ cOut.code = "none" /\ cOut.seq = cNr
  BY <1>1, CardBlockFacts
<1>3. cNr \in Bit /\ cNr # ns /\ 1 - ns = cNr /\ more
  BY <1>1 DEF Linked, CardKeeps, Bit
<1>4. RBlockWhileSending(cNr, TRUE)
  BY <1>2, <1>3, ReaderHearsCases DEF ReceiveR, RBlockRejected, RBlockWhileReceiving, Linked
<1>5. HeadAfter(cNr # ns) = sHead + lastSend /\ Ns(cNr # ns) = cNr
  BY <1>3 DEF HeadAfter, Ns
<1>6. sHead + lastSend < sLen /\ sHead + lastSend # sLen
  <2>1. sHead \in Nat /\ lastSend \in Nat /\ sLen \in Nat
    BY DEF IInv, NumbersOK
  <2>2. sHead + lastSend < sLen
    BY <1>1, <1>3 DEF IInv, ChainWindow
  <2> QED
    BY <2>1, <2>2
<1>7. /\ SendI(sHead + lastSend, cNr, Retries, "SENDING")
      /\ sHead' = sHead + lastSend /\ rTail' = 0
  BY <1>4, <1>5, <1>6 DEF RBlockWhileSending, Linked
<1>8. nr = CardNext /\ Quiet /\ cOut.code # "WTX_req"
  BY <1>1, <1>2, CardBlockFacts DEF Linked, CardNext, Quiet
<1>9. WholeInv => cCmd = Sent(sHead + lastSend) /\ Fresh
  BY <1>1, <1>3 DEF WholeInv, Linked
<1> QED
  BY <1>1, <1>6, <1>7, <1>8, <1>9, ReaderSends

\* The reader takes the I-block of the card that it waits for.
LEMMA ReaderTakes ==
  ASSUME IInv, ExInv, ReaderMoves, IBlockAccepted(cNs, cI.more, cI.len),
         cOut = cI, cI.type = "I", nr = cNs, Ns(state = "SENDING") = cNr, Executed,
         rTail = cI.first, got = Received(rTail),
         WholeInv => cCmd = <<>>
  PROVE  Heard
<1>1. /\ CardKeeps /\ calls \in Nat /\ faults' \in Nat /\ Retries \in Nat
      /\ Len(cExec) \in Nat /\ cNs \in Bit
  BY RetryAssumption DEF ExInv, CardKeeps, ReaderMoves
<1>2. /\ cI.first \in Nat /\ cI.len \in Nat /\ cI.len > 0 /\ cI.first + cI.len <= cResp
      /\ cI.more <=> cI.first + cI.len < cResp
      /\ cI.code = "none" /\ cI.more \in BOOLEAN /\ cResp \in Nat
  BY <1>1, OwnBlockFacts DEF CardKeeps
<1>3. /\ rTail' = cI.first + cI.len /\ rTail' \in Nat /\ rTail' > rTail
  BY <1>2 DEF IBlockAccepted
<1>4. pc' \in {"idle", "xcv"} /\ state' = "RECEIVING" /\ ns' = cNr /\ nr' = 1 - cNs
  BY DEF IBlockAccepted, SendR, Continue, Return, ReaderMoves
<1>5. /\ CardKeeps' /\ Wired' /\ (pc' = "xcv" => wire' = "toCard")
  BY <1>3, <1>4, ReaderKeeps
<1>6. got' = Received(cI.first + cI.len)
  <2>1. got' = got \o [i \in 1..cI.len |-> <<Len(cExec), cI.first + i>>]
    BY <1>3 DEF ReaderMoves, Store
  <2>2. got = [i \in 1..cI.first |-> <<Len(cExec), i>>]
    BY DEF Received
  <2>3. got' = [i \in 1..(cI.first + cI.len) |-> <<Len(cExec), i>>]
    <3>1. Len(cExec) \in Nat /\ cI.first \in Nat /\ cI.len \in Nat
      BY <1>1, <1>2
    <3>2. [i \in 1..cI.first |-> <<Len(cExec), i>>] \o [i \in 1..cI.len |-> <<Len(cExec), cI.first + i>>]
            = [i \in 1..(cI.first + cI.len) |-> <<Len(cExec), i>>]
      BY <3>1, Piece
    <3> QED
      BY <2>1, <2>2, <3>2
  <2> QED
    BY <2>3 DEF Received
<1>7. Executed' /\ (Received(rTail))' = Received(cI.first + cI.len)
  BY <1>3, CardWaits DEF Executed, Received
<1>8. CASE cI.more /\ SendR(1 - nr, "none", Retries, "RECEIVING", state = "SENDING")
  <2>1. /\ block' = RBlock(1 - cNs, "none") /\ retries' = Retries /\ pc' = "xcv"
    BY <1>8 DEF SendR, Continue, ReaderMoves
  <2>2. block'.type = "R" /\ block'.seq = 1 - cNs
    BY <2>1 DEF RBlock
  <2>3. Accepted'
    BY <1>3, <1>4, <1>5, <1>6, <1>7, <1>8, <2>1, <2>2, CardWaits DEF Accepted
  <2>4. Progress'
    BY <2>1, <2>3 DEF Progress, Phase, ResponseIsOurs
  <2>5. WholeInv => WholeInv'
    BY <1>4, <2>1, CardWaits DEF WholeInv, CommandsWhole
  <2>6. RetryInv'
    <3>1. ~Owed'
      BY <1>5, <2>1 DEF Owed
    <3>2. retries' + faults' >= Retries
      <4>1. Retries + faults' >= Retries
        BY <1>1, SumCovers
      <4> QED
        BY <2>1, <4>1
    <3> QED
      BY <1>4, <3>1, <3>2 DEF RetryInv
  <2> QED
    BY <1>5, <2>4, <2>5, <2>6 DEF Heard
<1>9. CASE ~cI.more /\ Return("ok")
  <2>1. pc' = "idle" /\ cI.first + cI.len = cResp
    BY <1>2, <1>9 DEF Return
  <2>2. Ready'
    BY <1>2, <1>4, <1>9, CardWaits DEF Ready, CardNext, Quiet
  <2>3. ResponseIsOurs'
    <3>1. got' = [i \in 1..cResp |-> <<Len(cExec), i>>]
      BY <1>6, <2>1 DEF Received
    <3> QED
      BY <1>7, <3>1, CardWaits DEF ResponseIsOurs, Executed
  <2>4. Progress'
    BY <2>1, <2>2, <2>3 DEF Progress
  <2>5. WholeInv => WholeInv'
    BY <1>4, <2>1, CardWaits DEF WholeInv, CommandsWhole
  <2>6. RetryInv'
    BY <2>1 DEF RetryInv
  <2> QED
    BY <1>5, <2>4, <2>5, <2>6 DEF Heard
<1> QED
  BY <1>8, <1>9 DEF IBlockAccepted

\* An I-block longer than the room left ends the call.
LEMMA ReaderOverruns ==
  ASSUME IInv, ExInv, ReaderMoves, NEW seq, NEW len, IBlockOverrun(seq, len)
  PROVE  Heard
<1>1. rTail' \in Nat
  BY DEF IBlockOverrun, IInv, NumbersOK
<1> QED
  BY <1>1, ReaderGivesUp DEF IBlockOverrun, Return

\* The card's R-block that comes instead of its I-block is a complaint of its own.
LEMMA OwedComplaint ==
  ASSUME IInv, ExInv, ReaderMoves, faults' = faults, state # "RESYNCH",
         Complain("other"), UNCHANGED <<sHead, rTail>>,
         cOut.type = "R", state = "RECEIVING" \/ (cNr # ns /\ ~more)
  PROVE  Heard
<1>1. RetryInv => Left + faults' >= Retries
  <2>1. RetryInv => retries + faults >= Retries + 1
    BY DEF RetryInv, Owed, ReaderMoves
  <2>2. faults \in Nat
    BY DEF ExInv, CardKeeps
  <2> QED
    BY <2>1, <2>2, LeftCovers
<1> QED
  BY <1>1, ReaderComplains

\* The response begins, the card asks for time, or for the command it has already.
LEMMA AnsweringTells ==
  ASSUME IInv, ExInv, Answering, ReaderHears
  PROVE  Heard
<1>1. /\ ReaderMoves /\ faults' = faults /\ pc = "xcv" /\ wire = "toReader"
      /\ CardKeeps /\ cI.type = "I" /\ cOut \in {cI, CardR, CardS("WTX_req")}
  BY ReaderHearsCases DEF Answering
<1>2. /\ cI.code = "none" /\ cI.seq = cNs /\ cNr \in Bit /\ cNr # ns /\ 1 - ns = cNr
      /\ CardR.type = "R" /\ CardR.code = "none" /\ CardR.seq = cNr
      /\ CardS("WTX_req").type = "S" /\ CardS("WTX_req").code = "WTX_req"
  BY <1>1, OwnBlockFacts, CardBlockFacts DEF Answering, CardKeeps, Bit
<1>3. CASE cOut = cI
  <2>1. ReceiveI(cNs, cI.more, cI.len)
    BY <1>1, <1>2, <1>3, ReaderHearsCases
  <2>2. CASE IBlockAccepted(cNs, cI.more, cI.len)
    <3>1. Ns(state = "SENDING") = cNr
      BY <1>2 DEF Ns, Answering
    <3>2. got = Received(rTail)
      BY <1>1 DEF CardKeeps, Received, Answering
    <3>3. WholeInv => cCmd = <<>>
      BY <1>1, <1>2 DEF WholeInv, Answering
    <3> QED
      BY <1>1, <1>3, <2>2, <3>1, <3>2, <3>3, ReaderTakes DEF Answering
  <2> QED
    BY <1>1, <2>1, <2>2, ReaderOverruns DEF ReceiveI, IBlockOutOfSequence, Answering
<1>4. CASE cOut = CardR
  <2>1. ReceiveR(cNr, TRUE)
    BY <1>2, <1>4, ReaderHearsCases
  <2>2. RBlockRejected(cNr, TRUE)
    BY <1>2, <2>1 DEF ReceiveR, RBlockWhileReceiving, RBlockWhileSending, Answering
  <2> QED
    BY <1>1, <1>2, <1>4, <2>2, OwedComplaint DEF RBlockRejected, SameBuffers, Answering
<1>5. CASE cOut = CardS("WTX_req")
  <2>1. PICK w \in WtxValues : WtxRequest(w)
    BY <1>2, <1>5, ReaderHearsCases
  <2>2. /\ block' = SBlock("WTX_resp", 1) /\ retries' = Retries
        /\ UNCHANGED <<state, pc, sHead, rTail, ns, nr, more, lastSend>>
    BY <2>1 DEF WtxRequest, AnswerS, Continue
  <2>3. block'.type = "S" /\ block'.code = "WTX_resp"
    BY <2>2 DEF SBlock
  <2>4. rTail' \in Nat /\ pc' = "xcv"
    BY <1>1, <2>2 DEF IInv, NumbersOK
  <2>5. /\ CardKeeps' /\ Wired' /\ wire' = "toCard" /\ faults' \in Nat /\ Retries \in Nat
    BY <1>1, <2>4, ReaderKeeps
  <2>6. Progress'
    <3>1. (CardS("WTX_req"))' = CardS("WTX_req")
      BY DEF CardS, CardBlock
    <3>2. Answering'
      BY <1>1, <1>5, <2>2, <2>3, <3>1, CardWaits DEF Answering, Executed
    <3> QED
      BY <2>4, <3>2 DEF Progress, Phase, ResponseIsOurs
  <2>7. WholeInv => WholeInv'
    BY <1>1, <2>2, CardWaits DEF WholeInv, CommandsWhole, Sent, Fresh
  <2>8. RetryInv => RetryInv'
    <3>1. ~Owed'
      BY <2>5 DEF Owed
    <3>2. retries' + faults' >= Retries
      <4>1. Retries + faults' >= Retries
        BY <2>5, SumCovers
      <4> QED
        BY <2>2, <4>1
    <3> QED
      BY <1>1, <2>2, <3>1, <3>2, CardWaits DEF RetryInv, Answering
  <2> QED
    BY <2>5, <2>6, <2>7, <2>8 DEF Heard
<1> QED
  BY <1>1, <1>3, <1>4, <1>5

\* While the response is received the card's R-block is answered with the same R-block.
LEMMA ReceivingHearsR ==
  ASSUME IInv, ExInv, ReaderMoves, faults' = faults, state = "RECEIVING",
         ns = cNr, block.type = "R", cOut = CardR, ReceiveR(cNr, TRUE)
  PROVE  Heard
<1>1. cOut.type = "R"
  BY CardBlockFacts DEF ExInv
<1>2. RBlockWhileReceiving(cNr, TRUE)
  BY DEF ReceiveR, RBlockRejected, RBlockWhileSending
<1>3. Complain("other") /\ UNCHANGED <<sHead, rTail>>
  BY <1>2 DEF RBlockWhileReceiving, Complain, SameBuffers
<1> QED
  BY <1>1, <1>3, OwedComplaint

\* The card asks for the R-block that was lost.
LEMMA AcceptedTells ==
  ASSUME IInv, ExInv, Accepted, ReaderHears
  PROVE  Heard
<1>1. /\ ReaderMoves /\ faults' = faults /\ CardKeeps /\ cOut = CardR
  BY ReaderHearsCases DEF Accepted
<1>2. CardR.type = "R" /\ CardR.code = "none" /\ CardR.seq = cNr
  BY <1>1, CardBlockFacts
<1>3. ReceiveR(cNr, TRUE)
  BY <1>1, <1>2, ReaderHearsCases
<1> QED
  BY <1>1, <1>3, ReceivingHearsR DEF Accepted

\* The next part of the response comes, or the card asks for the R-block that was lost.
LEMMA WaitingTells ==
  ASSUME IInv, ExInv, Waiting, ReaderHears
  PROVE  Heard
<1>1. /\ ReaderMoves /\ faults' = faults /\ pc = "xcv" /\ wire = "toReader"
      /\ CardKeeps /\ cI.type = "I" /\ cOut \in {cI, CardR}
  BY ReaderHearsCases DEF Waiting
<1>2. /\ cI.code = "none" /\ cI.seq = cNs
      /\ CardR.type = "R" /\ CardR.code = "none" /\ CardR.seq = cNr
  BY <1>1, OwnBlockFacts, CardBlockFacts
<1>3. CASE cOut = cI
  <2>1. ReceiveI(cNs, cI.more, cI.len)
    BY <1>1, <1>2, <1>3, ReaderHearsCases
  <2>2. CASE IBlockAccepted(cNs, cI.more, cI.len)
    <3>1. Ns(state = "SENDING") = cNr
      BY DEF Ns, Waiting
    <3>2. WholeInv => cCmd = <<>>
      BY <1>1 DEF WholeInv, Waiting
    <3> QED
      BY <1>1, <1>3, <2>2, <3>1, <3>2, ReaderTakes DEF Waiting
  <2> QED
    BY <1>1, <2>1, <2>2, ReaderOverruns DEF ReceiveI, IBlockOutOfSequence, Waiting
<1>4. CASE cOut = CardR
  <2>1. ReceiveR(cNr, TRUE)
    BY <1>2, <1>4, ReaderHearsCases
  <2> QED
    BY <1>1, <1>4, <2>1, ReceivingHearsR DEF Waiting
<1> QED
  BY <1>1, <1>3, <1>4

\* The command starts again where the send buffer stands.
LEMMA ResyncingTells ==
  ASSUME IInv, ExInv, Resyncing, ReaderHears
  PROVE  Heard
<1>1. /\ ReaderMoves /\ faults' = faults /\ pc = "xcv" /\ CardKeeps
      /\ cOut = CardS("RESYNC_resp") /\ cNs = 0 /\ cNr = 0 /\ cI = Nothing
  BY ReaderHearsCases DEF Resyncing
<1>2. /\ CardS("RESYNC_resp").type = "S" /\ CardS("RESYNC_resp").code = "RESYNC_resp"
      /\ Nothing.type = "none"
  BY <1>1, CardBlockFacts
<1>3. ResynchAnswered
  BY <1>1, <1>2, ReaderHearsCases DEF SResponseRejected, Resyncing
<1>4. SendI(sHead, ns, Retries, "SENDING") /\ sHead' = sHead /\ rTail' = 0
  BY <1>3 DEF ResynchAnswered
<1>5. ns = cNr /\ nr = CardNext /\ Quiet /\ cOut.code # "WTX_req"
  BY <1>1, <1>2 DEF Resyncing, CardNext, Quiet
<1>6. RetryInv => faults' >= Retries
  BY <1>1 DEF RetryInv, Resyncing
<1> QED
  BY <1>1, <1>4, <1>5, <1>6, ReaderSends DEF Resyncing

-----------------------------------------------------------------------------
(* Every step                                                              *)

\* A block of the exchange, heard or not.
LEMMA ExchangeKeeps ==
  ASSUME IInv, ExInv, Exchange, state = "RESYNCH" => faults' = faults
  PROVE  Heard
<1>1. ASSUME CardMoves, CardKeeps', Phase',
             state # "RESYNCH" /\ WholeInv => WholeInv', RetryInv => RetryInv'
      PROVE  Heard
  <2>1. pc' = "xcv" /\ wire' = "toReader"
    BY <1>1, ReaderWaits DEF CardMoves
  <2>2. Wired' /\ Progress'
    BY <1>1, <2>1 DEF Wired, Progress, ResponseIsOurs
  <2> QED
    BY <1>1, <2>2 DEF Heard
<1>2. CASE CardHears
  <2>1. CardMoves /\ Phase
    BY <1>2, CardHearsCases
  <2>2. CASE Resyncing
    BY <1>1, <1>2, <2>1, <2>2, ResyncingHears DEF Resyncing
  <2>3. CASE ~Resyncing
    <3>1. Kept
      BY <1>2, <2>1, <2>3, AskedHears, LinkedHears, AnsweringHears, AcceptedHears,
          WaitingHears DEF Phase
    <3> QED
      BY <1>1, <2>1, <3>1 DEF Kept
  <2> QED
    BY <2>2, <2>3
<1>3. CASE CardMishears
  <2>1. CardMoves
    BY <1>3 DEF CardMishears, CardMoves, ExInv, Wired
  <2>2. state # "RESYNCH"
    BY <1>3 DEF CardMishears, Garbles, ExInv, CardKeeps
  <2>3. Kept
    BY <1>3, <2>2, CardMishearsKeeps
  <2> QED
    BY <1>1, <2>1, <2>3 DEF Kept
<1>4. CASE ReaderHears
  <2>1. Phase
    BY <1>4, ReaderHearsCases
  <2> QED
    BY <1>4, <2>1, ResyncingTells, AskedTells, LinkedTells, AnsweringTells,
        AcceptedTells, WaitingTells DEF Phase
<1>5. CASE ReaderMishears
  <2>1. state # "RESYNCH"
    BY <1>5 DEF ReaderMishears, Garbles, ExInv, CardKeeps
  <2> QED
    BY <1>5, <2>1, ReaderMishearsKeeps
<1> QED
  BY <1>2, <1>3, <1>4, <1>5 DEF Exchange

\* A call begins with the numbers in step.
LEMMA StartKeeps ==
  ASSUME IInv, ExInv, StartCall
  PROVE  Heard
<1>1. PICK n \in SendSizes \ {0} :
        /\ sLen' = n /\ sHead' = 0 /\ rTail' = 0 /\ block' = IBlock(n, 0, ns)
  BY DEF StartCall, Transceive
<1>2. /\ pc = "idle" /\ state # "DEAD" /\ state' = "SENDING" /\ pc' = "xcv"
      /\ result' = "none" /\ retries' = Retries /\ ns' = ns /\ nr' = nr
      /\ calls' = calls + 1 /\ got' = <<>> /\ wire' = "toCard" /\ faults' = faults
      /\ UNCHANGED <<cNs, cNr, cCmd, cExec, cResp, cI, cOut>>
  BY DEF StartCall, Transceive, Sends, cardVars
<1>3. Ready /\ CardKeeps /\ calls \in Nat /\ calls + 1 \in Nat /\ faults \in Nat
  BY <1>2 DEF ExInv, Progress, CardKeeps
<1>4. block'.type = "I"
  BY <1>1 DEF IBlock
<1>5. CardKeeps'
  <2>1. Nothing' = Nothing /\ (CardI(cResp, cI.first, cNs))' = CardI(cResp', cI'.first, cNs')
    BY DEF Nothing, CardI, CardBlock
  <2> QED
    BY <1>2, <1>3, <2>1 DEF CardKeeps
<1>6. Wired'
  BY <1>2 DEF Wired
<1>7. Progress'
  <2>1. Asked'
    BY <1>1, <1>2, <1>3, <1>4 DEF Asked, Ready, CardNext, Quiet
  <2> QED
    BY <1>2, <2>1 DEF Progress, Phase, ResponseIsOurs
<1>8. ASSUME WholeInv PROVE WholeInv'
  <2>1. cCmd = <<>> /\ cNr' = ns'
    BY <1>2, <1>3, <1>8 DEF WholeInv, Ready
  <2>2. Sent(sHead)' = <<>>
    BY <1>1 DEF Sent
  <2>3. \A k \in DOMAIN cExec : cExec[k].call \in Nat /\ cExec[k].call <= calls
    <3> DEFINE R == [call: Nat, whole: BOOLEAN]
    <3>1. cExec \in Seq(R)
      BY <1>3 DEF CardKeeps
    <3>2. \A e \in R : e.call \in Nat
      OBVIOUS
    <3> HIDE DEF R
    <3>3. \A k \in DOMAIN cExec : cExec[k] \in R
      BY <3>1
    <3> QED
      BY <1>8, <3>2, <3>3 DEF WholeInv
  <2>4. (\A k \in DOMAIN cExec : cExec[k].call <= calls)' /\ Fresh'
    <3>1. \A k \in DOMAIN cExec : cExec[k].call <= calls + 1 /\ cExec[k].call # calls + 1
      BY <1>3, <2>3
    <3> QED
      BY <1>2, <3>1 DEF Fresh
  <2>5. CommandsWhole'
    BY <1>2, <1>8 DEF WholeInv, CommandsWhole
  <2> QED
    BY <1>2, <2>1, <2>2, <2>4, <2>5 DEF WholeInv
<1>9. RetryInv'
  <2>1. ~Owed' /\ sHead' # sLen'
    BY <1>1, <1>2 DEF Owed
  <2>2. Retries + faults >= Retries
    BY <1>3, SumCovers, RetryAssumption
  <2>3. retries' + faults' >= Retries
    BY <1>2, <2>2
  <2> QED
    BY <1>2, <2>1, <2>3 DEF RetryInv
<1> QED
  BY <1>5, <1>6, <1>7, <1>8, <1>9 DEF Heard

\* A call refused sends nothing.
LEMMA RefusedKeeps ==
  ASSUME IInv, ExInv, RefuseCall
  PROVE  Heard
<1>1. /\ pc = "idle" /\ result' = "error"
      /\ UNCHANGED <<state, ns, nr, pc, rTail, calls, wire, faults, got,
                     cNs, cNr, cCmd, cExec, cResp, cI, cOut>>
  BY DEF RefuseCall, Refuse, t1Vars, recvVars, cardVars
<1>2. CardKeeps'
  <2>1. Nothing' = Nothing /\ (CardI(cResp, cI.first, cNs))' = CardI(cResp', cI'.first, cNs')
    BY DEF Nothing, CardI, CardBlock
  <2> QED
    BY <1>1, <2>1 DEF ExInv, CardKeeps
<1>3. Wired'
  BY <1>1 DEF ExInv, Wired
<1>4. Progress'
  BY <1>1 DEF ExInv, Progress, ResponseIsOurs, Ready, CardNext, Quiet
<1>5. WholeInv => WholeInv'
  BY <1>1 DEF WholeInv, CommandsWhole
<1>6. RetryInv'
  BY <1>1 DEF RetryInv
<1> QED
  BY <1>2, <1>3, <1>4, <1>5, <1>6 DEF Heard

\* A power up puts both sides back to 0.
LEMMA PowerUpKeeps ==
  ASSUME IInv, ExInv, PowerUp
  PROVE  Heard
<1>1. /\ pc = "idle" /\ state' = "SENDING" /\ ns' = 0 /\ nr' = 0
      /\ cNs' = 0 /\ cNr' = 0 /\ cCmd' = <<>> /\ cI' = Nothing /\ cOut' = Nothing
      /\ UNCHANGED <<pc, result, rTail, calls, wire, faults, got, cExec, cResp>>
  BY DEF PowerUp, T1Init, CardReset, recvVars, loopVars
<1>2. Nothing \in CardBlocks /\ Nothing.type = "none" /\ Nothing.code = "none" /\ Nothing' = Nothing
  BY CardBlockFacts DEF ExInv, Nothing, CardBlock
<1>3. CardKeeps'
  BY <1>1, <1>2 DEF ExInv, CardKeeps, Bit
<1>4. Wired'
  BY <1>1 DEF ExInv, Wired
<1>5. Progress'
  BY <1>1, <1>2 DEF ExInv, Progress, ResponseIsOurs, Ready, CardNext, Quiet
<1>6. WholeInv => WholeInv'
  BY <1>1 DEF WholeInv, CommandsWhole
<1>7. RetryInv'
  BY <1>1 DEF RetryInv
<1> QED
  BY <1>3, <1>4, <1>5, <1>6, <1>7 DEF Heard

\* A stuttering step changes nothing.
LEMMA StutterKeeps ==
  ASSUME IInv, ExInv, UNCHANGED exVars
  PROVE  Heard
<1>1. UNCHANGED <<state, ns, nr, more, block, pc, result, sLen, sHead, lastSend, rTail, retries,
                  calls, wire, faults, got, cNs, cNr, cCmd, cExec, cResp, cI, cOut>>
  BY DEF exVars, vars, t1Vars, sendVars, recvVars, loopVars, cardVars
<1>2. CardKeeps'
  <2>1. Nothing' = Nothing /\ (CardI(cResp, cI.first, cNs))' = CardI(cResp', cI'.first, cNs')
    BY DEF Nothing, CardI, CardBlock
  <2> QED
    BY <1>1, <2>1 DEF ExInv, CardKeeps
<1>3. Wired'
  BY <1>1 DEF ExInv, Wired
<1>4. Progress'
  <2>1. Phase => Phase'
    <3>1. CardR' = CardR /\ Nothing' = Nothing /\ (CardS("WTX_req"))' = CardS("WTX_req")
          /\ (CardS("RESYNC_resp"))' = CardS("RESYNC_resp")
      BY <1>1 DEF CardR, Nothing, CardS, CardBlock
    <3> QED
      BY <1>1, <3>1 DEF Phase, Resyncing, Asked, Linked, Answering, Accepted, Waiting,
          CardNext, Quiet, Executed, Received
  <2> QED
    BY <1>1, <2>1 DEF ExInv, Progress, ResponseIsOurs, Ready, CardNext, Quiet
<1>5. WholeInv => WholeInv'
  BY <1>1 DEF WholeInv, CommandsWhole, Sent, Fresh
<1>6. RetryInv => RetryInv'
  BY <1>1 DEF RetryInv, Owed
<1> QED
  BY <1>2, <1>3, <1>4, <1>5, <1>6 DEF Heard

\* The reader's side keeps its own invariant.
LEMMA ReaderInv ==
  ASSUME IInv, ExInv, [ExNext]_exVars
  PROVE  IInv'
<1>1. CASE UNCHANGED vars
  BY <1>1, StutterInv
<1>2. CASE StartCall \/ RefuseCall \/ PowerUp
  BY <1>2, TransceiveInv, RefuseInv, T1InitInv DEF StartCall, RefuseCall, PowerUp
<1>3. CASE ReaderHears
  <2>1. cOut.seq \in Bit /\ cOut.more \in BOOLEAN /\ cOut.len \in Nat
    BY DEF ExInv, CardKeeps, CardBlocks
  <2>2. CASE ReceiveI(cOut.seq, cOut.more, cOut.len)
    BY <2>1, <2>2, ReceiveIInv
  <2>3. CASE ReceiveR(cOut.seq, TRUE)
    BY <2>1, <2>3, ReceiveRInv
  <2>4. CASE ResynchAnswered \/ SResponseRejected \/ \E w \in WtxValues : WtxRequest(w)
    BY <2>4, ReceiveSInv DEF ReceiveS
  <2> QED
    BY <1>3, <2>2, <2>3, <2>4 DEF ReaderHears
<1>4. CASE ReaderMishears
  BY <1>4, ReceiveErrorInv DEF ReaderMishears
<1>5. CASE CardHears \/ CardMishears
  BY <1>1, <1>5 DEF CardHears, CardMishears
<1> QED
  BY <1>1, <1>2, <1>3, <1>4, <1>5 DEF ExNext, Exchange, exVars

\* What every step of the exchange keeps.
LEMMA StepKeeps ==
  ASSUME IInv, ExInv, [ExNext]_exVars, [state = "RESYNCH" => faults' = faults]_exVars
  PROVE  IInv' /\ ExInv' /\ Heard
<1>1. IInv'
  BY ReaderInv
<1>2. Heard
  <2>1. CASE UNCHANGED exVars
    BY <2>1, StutterKeeps
  <2>2. CASE ExNext /\ (state = "RESYNCH" => faults' = faults)
    BY <2>2, ExchangeKeeps, StartKeeps, RefusedKeeps, PowerUpKeeps DEF ExNext
  <2>3. UNCHANGED exVars => faults' = faults
    BY DEF exVars
  <2> QED
    BY <2>1, <2>2, <2>3
<1> QED
  BY <1>1, <1>2 DEF Heard, ExInv

\* The first state.
LEMMA ExInitKeeps ==
  ASSUME ExInit
  PROVE  IInv /\ ExInv /\ WholeInv /\ RetryInv /\ faults <= MaxFaults
<1>1. IInv
  BY InitInv DEF ExInit
<1>2. /\ pc = "idle" /\ state = "SENDING" /\ ns = 0 /\ nr = 0 /\ rTail = 0 /\ result = "none"
      /\ cNs = 0 /\ cNr = 0 /\ cCmd = <<>> /\ cExec = <<>> /\ cResp = 0
      /\ cI = Nothing /\ cOut = Nothing
      /\ calls = 0 /\ wire = "none" /\ faults = 0 /\ got = <<>>
  BY DEF ExInit, Init, CardInit
<1>3. Nothing \in CardBlocks /\ Nothing.type = "none" /\ Nothing.code = "none"
  BY DEF Nothing, CardBlock, CardBlocks, Bit
<1>4. CardKeeps
  <2>1. cExec \in Seq([call: Nat, whole: BOOLEAN])
    BY <1>2
  <2> QED
    BY <1>2, <1>3, <2>1 DEF CardKeeps, Bit
<1>5. Wired
  BY <1>2 DEF Wired
<1>6. Progress
  BY <1>2, <1>3 DEF Progress, Ready, CardNext, Quiet, ResponseIsOurs
<1>7. WholeInv
  BY <1>2 DEF WholeInv, CommandsWhole
<1>8. RetryInv
  BY <1>2 DEF RetryInv
<1>9. faults <= MaxFaults
  BY <1>2, CardAssumption
<1> QED
  BY <1>1, <1>4, <1>5, <1>6, <1>7, <1>8, <1>9 DEF ExInv

-----------------------------------------------------------------------------
(* Theorems                                                                *)

\* No block is lost while a resynchronisation is under way.
Undisturbed == [][state = "RESYNCH" => faults' = faults]_exVars

\* The faults of a run are bounded.
LEMMA FaultsBounded == ExSpec => [](faults <= MaxFaults)
<1> DEFINE Inv == faults \in Nat /\ faults <= MaxFaults
<1>1. ExInit => Inv
  BY CardAssumption DEF ExInit
<1>2. Inv /\ [ExNext]_exVars => Inv'
  <2> SUFFICES ASSUME Inv, [ExNext]_exVars PROVE Inv'
    OBVIOUS
  <2>1. CASE faults' = faults
    BY <2>1
  <2>2. CASE Garbles
    <3>1. faults \in Nat /\ MaxFaults \in Nat /\ faults < MaxFaults /\ faults' = faults + 1
      BY <2>2, CardAssumption DEF Garbles
    <3>2. faults + 1 \in Nat /\ faults + 1 <= MaxFaults
      BY <3>1
    <3> QED
      BY <3>1, <3>2
  <2> QED
    BY <2>1, <2>2 DEF ExNext, Exchange, StartCall, RefuseCall, PowerUp, CardHears,
        CardMishears, ReaderHears, ReaderMishears, exVars
<1>3. Inv => faults <= MaxFaults
  OBVIOUS
<1> QED
  BY <1>1, <1>2, <1>3, PTL DEF ExSpec

\* In every state of a run in which no block is lost during a resynchronisation, a
\* call is in one of the six phases and between calls the numbers are in step.
THEOREM ExchangeInvariance == ExSpec /\ Undisturbed => [](IInv /\ ExInv)
<1>1. ExInit => IInv /\ ExInv
  BY ExInitKeeps
<1>2. IInv /\ ExInv /\ [ExNext]_exVars /\ [state = "RESYNCH" => faults' = faults]_exVars
        => IInv' /\ ExInv'
  BY StepKeeps
<1> QED
  BY <1>1, <1>2, PTL DEF ExSpec, Undisturbed

\* A resynchronisation begins when as many blocks are lost as a call has retries.
LEMMA RetriesExplained ==
  MaxFaults <= Retries => (ExSpec => [](IInv /\ ExInv /\ RetryInv) /\ Undisturbed)
<1> SUFFICES ASSUME MaxFaults <= Retries
             PROVE  ExSpec => [](IInv /\ ExInv /\ RetryInv) /\ Undisturbed
  OBVIOUS
<1>1. ExInit => IInv /\ ExInv /\ RetryInv
  BY ExInitKeeps
<1>2. IInv /\ ExInv /\ RetryInv /\ [ExNext]_exVars
        => [state = "RESYNCH" => faults' = faults]_exVars
  <2> SUFFICES ASSUME IInv, ExInv, RetryInv, ExNext, state = "RESYNCH"
               PROVE  faults' = faults
    OBVIOUS
  <2>1. faults >= Retries /\ faults \in Nat
    BY DEF IInv, BlockShape, RetryInv, ExInv, CardKeeps
  <2>2. ~(faults < MaxFaults)
    BY <2>1, RetryAssumption, CardAssumption
  <2> QED
    BY <2>2 DEF ExNext, Exchange, StartCall, RefuseCall, PowerUp, CardHears,
        CardMishears, ReaderHears, ReaderMishears, Garbles
<1>3. IInv /\ ExInv /\ RetryInv /\ [ExNext]_exVars
          /\ [state = "RESYNCH" => faults' = faults]_exVars
        => IInv' /\ ExInv' /\ RetryInv'
  BY StepKeeps DEF Heard
<1> QED
  BY <1>1, <1>2, <1>3, PTL DEF ExSpec, Undisturbed

\* A call that succeeds returns the response to its own command, complete and in
\* order, provided no block is lost during a resynchronisation; with as many
\* faults as there are retries that is so of itself.
THEOREM ResponsesAreOurs ==
  /\ ExSpec /\ Undisturbed => []ResponseIsOurs
  /\ MaxFaults <= Retries => (ExSpec => []ResponseIsOurs)
<1>1. ExInv => ResponseIsOurs
  BY DEF ExInv, Progress
<1>2. ExSpec /\ Undisturbed => []ResponseIsOurs
  BY <1>1, ExchangeInvariance, PTL
<1>3. MaxFaults <= Retries => (ExSpec => []ResponseIsOurs)
  BY <1>1, RetriesExplained, PTL
<1> QED
  BY <1>2, <1>3

\* A call that succeeds leaves the numbers of reader and card in step, under the
\* same conditions.
THEOREM NumbersInStep ==
  /\ ExSpec /\ Undisturbed => []InStep
  /\ MaxFaults <= Retries => (ExSpec => []InStep)
<1>1. IInv /\ ExInv => InStep
  <2> SUFFICES ASSUME ExInv, pc = "idle", state = "RECEIVING" PROVE ns = cNr /\ nr = 1 - cNs
    BY DEF InStep
  <2> QED
    BY DEF ExInv, Progress, Ready, CardNext
<1>2. ExSpec /\ Undisturbed => []InStep
  BY <1>1, ExchangeInvariance, PTL
<1>3. MaxFaults <= Retries => (ExSpec => []InStep)
  BY <1>1, RetriesExplained, PTL
<1> QED
  BY <1>2, <1>3

\* With fewer faults than retries no call needs a resynchronisation.
THEOREM NeverResyncs == MaxFaults < Retries => (ExSpec => [](state # "RESYNCH"))
<1> SUFFICES ASSUME MaxFaults < Retries PROVE ExSpec => [](state # "RESYNCH")
  OBVIOUS
<1>1. MaxFaults <= Retries
  BY RetryAssumption, CardAssumption
<1>2. IInv /\ ExInv /\ RetryInv /\ faults <= MaxFaults => state # "RESYNCH"
  <2> SUFFICES ASSUME IInv, ExInv, RetryInv, faults <= MaxFaults, state = "RESYNCH"
               PROVE  FALSE
    OBVIOUS
  <2>1. faults >= Retries /\ faults \in Nat
    BY DEF IInv, BlockShape, RetryInv, ExInv, CardKeeps
  <2> QED
    BY <2>1, RetryAssumption, CardAssumption
<1> QED
  BY <1>1, <1>2, RetriesExplained, FaultsBounded, PTL

\* What holds besides as long as no resynchronisation begins.
LEMMA NoResyncInvariance == ExSpec /\ [](state # "RESYNCH") => [](IInv /\ ExInv /\ WholeInv)
<1>1. ExInit => IInv /\ ExInv /\ WholeInv
  BY ExInitKeeps
<1>2. IInv /\ ExInv /\ WholeInv /\ state # "RESYNCH" /\ [ExNext]_exVars
        => IInv' /\ ExInv' /\ WholeInv'
  BY StepKeeps DEF Heard
<1> QED
  BY <1>1, <1>2, PTL DEF ExSpec

\* The card executes whole commands only, as long as no resynchronisation begins;
\* with fewer faults than retries that is so of itself.
THEOREM CommandsStayWhole ==
  /\ ExSpec /\ [](state # "RESYNCH") => []CommandsWhole
  /\ MaxFaults < Retries => (ExSpec => []CommandsWhole)
<1>1. WholeInv => CommandsWhole
  BY DEF WholeInv
<1>2. ExSpec /\ [](state # "RESYNCH") => []CommandsWhole
  BY <1>1, NoResyncInvariance, PTL
<1>3. MaxFaults < Retries => (ExSpec => []CommandsWhole)
  BY <1>2, NeverResyncs, PTL
<1> QED
  BY <1>2, <1>3

-----------------------------------------------------------------------------
(* The implementation of ApduExchange                                      *)

\* The log of ApduExchange.
Log == [k \in DOMAIN cExec |-> IF cExec[k].whole THEN cExec[k].call ELSE 0]

\* A step that leaves the call, its outcome and the log alone is a stutter.
LEMMA Stutters ==
  ASSUME UNCHANGED <<pc, result, calls, cExec>>
  PROVE  UNCHANGED Abs!absVars
  BY DEF Abs!absVars

\* A step of the card executes a command at most.
LEMMA CardImplements ==
  ASSUME IInv, ExInv, WholeInv, WholeInv', state # "RESYNCH", CardHears
  PROVE  [Abs!AbsNext]_(Abs!absVars)
<1>1. /\ CardMoves /\ pc = "xcv" /\ CardKeeps /\ Phase
      /\ CardTakesI \/ CardRefusesI \/ CardHearsR \/ CardHearsS
  BY CardHearsCases
<1>2. UNCHANGED <<pc, result, calls>>
  BY <1>1, ReaderWaits
<1>3. CASE UNCHANGED cExec
  BY <1>2, <1>3, Stutters
<1>4. CASE CardTakesI /\ ~block.more
  <2>1. block.type = "I" /\ block.seq = cNr /\ wire = "toCard"
    BY <1>1, <1>4 DEF CardTakesI, CardMoves
  <2>2. Asked
    BY <1>1, <2>1 DEF Phase, Resyncing, Linked, Answering, Accepted, Waiting
  <2>3. Fresh
    BY <1>1, <2>2 DEF WholeInv, Asked
  <2>4. PICK e : cExec' = Append(cExec, e) /\ e \in [call: Nat, whole: BOOLEAN] /\ e.call = calls
    <3> DEFINE bytes == cCmd \o [i \in 1..block.len |-> <<calls, block.first + i>>]
               e     == [call |-> calls, whole |-> bytes = [i \in 1..sLen |-> <<calls, i>>]]
    <3>1. cExec' = Append(cExec, e)
      BY <1>4 DEF CardTakesI
    <3>2. e \in [call: Nat, whole: BOOLEAN] /\ e.call = calls
      BY <1>1 DEF CardKeeps
    <3> QED
      BY <3>1, <3>2
  <2> DEFINE R == [call: Nat, whole: BOOLEAN]
  <2>5. cExec \in Seq(R) /\ e \in R
    BY <1>1, <2>4 DEF CardKeeps
  <2> HIDE DEF R
  <2>6. /\ Len(cExec) \in Nat /\ DOMAIN cExec = 1..Len(cExec)
        /\ DOMAIN cExec' = 1..Len(cExec) + 1
        /\ \A k \in 1..Len(cExec) : cExec'[k] = cExec[k]
        /\ cExec'[Len(cExec) + 1] = e
    BY <2>4, <2>5
  <2>7. \A k \in DOMAIN cExec' : cExec'[k].whole
    BY DEF WholeInv, CommandsWhole
  <2>8. /\ Log = [k \in 1..Len(cExec) |-> cExec[k].call]
        /\ Log' = [k \in 1..Len(cExec) + 1 |-> cExec'[k].call]
    BY <2>6, <2>7 DEF WholeInv, CommandsWhole, Log
  <2>9. Log' = Append(Log, calls)
    <3>1. \A k \in 1..Len(cExec) : cExec[k].call \in Nat
      <4>1. \A k \in 1..Len(cExec) : cExec[k] \in R
        BY <2>5
      <4> QED
        BY <4>1 DEF R
    <3>2. Log \in [1..Len(cExec) -> Nat]
      BY <2>8, <3>1
    <3>3. Log \in Seq(Nat) /\ Len(Log) = Len(cExec)
      BY <2>6, <3>2, FunctionIsSequence
    <3>4. \A k \in 1..Len(cExec) + 1 :
             Log'[k] = IF k = Len(cExec) + 1 THEN calls ELSE Log[k]
      BY <2>4, <2>6, <2>8
    <3>5. Log' \in [1..Len(cExec) + 1 -> Nat]
      <4>1. \A k \in 1..Len(cExec) + 1 : cExec'[k].call \in Nat
        BY <1>1, <2>4, <2>6, <3>1 DEF CardKeeps
      <4> QED
        BY <2>8, <4>1
    <3>6. Log' \in Seq(Nat) /\ Len(Log') = Len(cExec) + 1
      BY <2>6, <3>5, FunctionIsSequence
    <3>7. calls \in Nat
      BY <1>1 DEF CardKeeps
    <3> HIDE DEF Log
    <3>8. /\ Append(Log, calls) \in Seq(Nat) /\ Len(Append(Log, calls)) = Len(cExec) + 1
          /\ \A k \in 1..Len(cExec) + 1 :
                Append(Log, calls)[k] = IF k = Len(cExec) + 1 THEN calls ELSE Log[k]
      BY <2>6, <3>3, <3>7, AppendProperties
    <3> QED
      BY <3>4, <3>6, <3>8
  <2>10. ~Abs!Executed
    <3>1. \A k \in 1..Len(cExec) : Log[k] # calls
      BY <2>3, <2>6, <2>8 DEF Fresh
    <3>2. DOMAIN Log = 1..Len(cExec)
      BY <2>8
    <3> QED
      BY <3>1, <3>2 DEF Abs!Executed, Log
  <2> QED
    BY <1>1, <1>2, <2>9, <2>10 DEF Abs!AbsNext, Abs!Execute, Log
<1>5. CASE CardTakesI /\ block.more
  BY <1>3, <1>5 DEF CardTakesI
<1> QED
  BY <1>1, <1>3, <1>4, <1>5 DEF CardRefusesI, CardHearsR, CardHearsS, CardReset

\* A pass of the loop goes on or returns.
LEMMA PassEnds ==
  ASSUME ReaderHears \/ ReaderMishears
  PROVE  /\ UNCHANGED <<calls, cExec>> /\ pc = "xcv"
         /\ \/ UNCHANGED <<pc, result>>
            \/ pc' = "idle" /\ result' \in {"ok", "error"}
<1>1. UNCHANGED <<calls, cExec>>
  BY DEF ReaderHears, ReaderMishears, cardVars
<1>2. CASE ReaderHears
  BY <1>1, <1>2 DEF ReaderHears, ReceiveI, IBlockOutOfSequence, IBlockAccepted, IBlockOverrun,
      ReceiveR, RBlockRejected, RBlockWhileReceiving, RBlockWhileSending,
      ResynchAnswered, SResponseRejected, WtxRequest, XcvGood, Xcv,
      Complain, Resync, Rebuild, SendR, SendI, AnswerS, Continue, Die, Return
<1>3. CASE ReaderMishears
  BY <1>1, <1>3 DEF ReaderMishears, ReceiveError, LinkFails, ParityError, Garbled,
      XcvGood, XcvError, Xcv,
      Complain, Resync, Rebuild, SendR, Continue, Die, Return
<1> QED
  BY <1>2, <1>3

\* A call returns a response only after the execution of its command.
LEMMA ReaderImplements ==
  ASSUME ExInv', WholeInv, ReaderHears \/ ReaderMishears
  PROVE  [Abs!AbsNext]_(Abs!absVars)
<1>1. /\ UNCHANGED <<calls, cExec>> /\ pc = "xcv"
      /\ \/ UNCHANGED <<pc, result>>
         \/ pc' = "idle" /\ result' \in {"ok", "error"}
  BY PassEnds
<1>2. CASE UNCHANGED <<pc, result>>
  BY <1>1, <1>2, Stutters
<1>3. CASE pc' = "idle" /\ result' = "error"
  BY <1>1, <1>3 DEF Abs!AbsNext, Abs!Fail
<1>4. CASE pc' = "idle" /\ result' = "ok"
  <2>1. cExec' # <<>> /\ cExec'[Len(cExec')].call = calls' /\ CardKeeps'
    BY <1>4 DEF ExInv, Progress, ResponseIsOurs
  <2>2. cExec # <<>> /\ cExec[Len(cExec)].call = calls
    BY <1>1, <2>1
  <2>3. Len(cExec) \in DOMAIN cExec
    <3> DEFINE R == [call: Nat, whole: BOOLEAN]
    <3>1. cExec \in Seq(R)
      BY <1>1, <2>1 DEF CardKeeps
    <3> HIDE DEF R
    <3> QED
      BY <2>2, <3>1
  <2>4. Log[Len(cExec)] = calls /\ DOMAIN Log = DOMAIN cExec
    BY <2>2, <2>3 DEF Log, WholeInv, CommandsWhole
  <2>5. Abs!Executed
    BY <2>3, <2>4 DEF Abs!Executed, Log
  <2> QED
    BY <1>1, <1>4, <2>5 DEF Abs!AbsNext, Abs!Succeed
<1> QED
  BY <1>1, <1>2, <1>3, <1>4

\* Every step is a step of ApduExchange or a stutter.
LEMMA StepImplements ==
  ASSUME IInv, ExInv, ExInv', WholeInv, WholeInv', state # "RESYNCH", [ExNext]_exVars
  PROVE  [Abs!AbsNext]_(Abs!absVars)
<1>1. CASE UNCHANGED exVars
  BY <1>1, Stutters DEF exVars, vars, loopVars, cardVars
<1>2. CASE StartCall
  BY <1>2 DEF StartCall, Transceive, cardVars, Abs!AbsNext, Abs!Call
<1>3. CASE RefuseCall
  BY <1>3 DEF RefuseCall, Refuse, cardVars, Abs!AbsNext, Abs!CallRefused
<1>4. CASE PowerUp
  BY <1>4, Stutters DEF PowerUp, T1Init, CardReset, loopVars
<1>5. CASE CardHears
  BY <1>5, CardImplements
<1>6. CASE CardMishears
  BY <1>6, Stutters DEF CardMishears, vars, loopVars
<1>7. CASE ReaderHears \/ ReaderMishears
  BY <1>7, ReaderImplements
<1> QED
  BY <1>1, <1>2, <1>3, <1>4, <1>5, <1>6, <1>7 DEF ExNext, Exchange

\* As long as no resynchronisation begins the exchange of blocks keeps the promise
\* of ApduExchange: a command is executed at most once, whole, and before its call
\* succeeds; with fewer faults than retries that is so of itself.
THEOREM ExchangeImplements ==
  /\ ExSpec /\ [](state # "RESYNCH") => Abs!AbsSafety
  /\ MaxFaults < Retries => (ExSpec => Abs!AbsSafety)
<1>1. ExInit => Abs!AbsInit
  BY DEF ExInit, Init, CardInit, Abs!AbsInit
<1>2. IInv /\ ExInv /\ ExInv' /\ WholeInv /\ WholeInv' /\ state # "RESYNCH" /\ [ExNext]_exVars
        => [Abs!AbsNext]_(Abs!absVars)
  BY StepImplements
<1>3. ExSpec /\ [](state # "RESYNCH") => Abs!AbsSafety
  BY <1>1, <1>2, NoResyncInvariance, PTL DEF ExSpec, Abs!AbsSafety
<1>4. MaxFaults < Retries => (ExSpec => Abs!AbsSafety)
  BY <1>3, NeverResyncs, PTL
<1> QED
  BY <1>3, <1>4

-----------------------------------------------------------------------------
(* The exchange as a behaviour of the reader                               *)

\* The types of the card's variables; bytes of the response are left behind an
\* I-block with the more bit.
CardTyped ==
    /\ cNs \in Bit /\ cNr \in Bit /\ cResp \in Nat
    /\ cI \in CardBlocks /\ cOut \in CardBlocks
    /\ cI.len <= CardIfsd /\ cOut.len <= CardIfsd
    /\ cI.more => cI.first + cI.len < cResp

\* A block without data has the type of a block.
LEMMA EmptyBlock ==
  ASSUME NEW type \in {"none", "R", "S"}, NEW code \in {"none", "WTX_req", "RESYNC_resp"}, NEW seq \in Bit
  PROVE  LET b == CardBlock(type, code, seq, 0, 0, FALSE)
         IN  b \in CardBlocks /\ b.len <= CardIfsd /\ ~b.more
  BY CardAssumption DEF CardBlock, CardBlocks

\* A block with another number is still a block, of the same length.
LEMMA RenumberedBlock ==
  ASSUME NEW b \in CardBlocks, NEW seq \in Bit
  PROVE  /\ [b EXCEPT !.seq = seq] \in CardBlocks
         /\ [b EXCEPT !.seq = seq].len = b.len
  BY DEF CardBlocks

\* The card's blocks without data, of any numbers.
LEMMA EmptyBlocks ==
  ASSUME cNr \in Bit
  PROVE  /\ Nothing \in CardBlocks /\ Nothing.len <= CardIfsd /\ ~Nothing.more
         /\ CardR \in CardBlocks /\ CardR.len <= CardIfsd
         /\ [CardR EXCEPT !.seq = 1 - cNr] \in CardBlocks
         /\ [CardR EXCEPT !.seq = 1 - cNr].len <= CardIfsd
         /\ CardS("WTX_req") \in CardBlocks /\ CardS("WTX_req").len <= CardIfsd
         /\ CardS("RESYNC_resp") \in CardBlocks /\ CardS("RESYNC_resp").len <= CardIfsd
<1>1. 0 \in Bit /\ 1 - cNr \in Bit
  BY DEF Bit
<1>2. CardR \in CardBlocks /\ CardR.len <= CardIfsd
  BY EmptyBlock DEF CardR
<1>3. /\ [CardR EXCEPT !.seq = 1 - cNr] \in CardBlocks
      /\ [CardR EXCEPT !.seq = 1 - cNr].len <= CardIfsd
  BY <1>1, <1>2, RenumberedBlock
<1> QED
  BY <1>1, <1>2, <1>3, EmptyBlock DEF Nothing, CardS

\* A new I-block of the card has the type of a block and fits the reader.
LEMMA NewBlock ==
  ASSUME NEW r \in Nat, NEW first \in Nat, first < r, NEW seq \in Bit
  PROVE  LET b == CardI(r, first, seq)
         IN  b \in CardBlocks /\ b.len <= CardIfsd /\ (b.more => b.first + b.len < r)
<1>1. AtMost(r - first, CardIfsd) <= CardIfsd
  BY CardAssumption DEF AtMost
<1>2. CardI(r, first, seq).len = AtMost(r - first, CardIfsd)
  BY DEF CardI, CardBlock
<1> QED
  BY <1>1, <1>2, CardIFacts

\* The card keeps to its types, whatever it hears.
LEMMA CardTypes ==
  ASSUME CardTyped, [ExNext]_exVars
  PROVE  CardTyped'
<1>1. CASE UNCHANGED cardVars
  BY <1>1 DEF CardTyped, cardVars
<1>2. CASE CardReset /\ cOut' \in {Nothing, CardS("RESYNC_resp")}
  BY <1>2, EmptyBlocks DEF CardTyped, CardReset, Bit
<1>3. CASE cOut' \in {cOut, cI, CardR} /\ UNCHANGED <<cNs, cNr, cResp, cI>>
  BY <1>3, EmptyBlocks DEF CardTyped
<1>4. CASE CardTakesI
  <2>1. cNr' = 1 - cNr /\ cNs' = CardNext /\ cNr' \in Bit /\ cNs' \in Bit
    BY <1>4 DEF CardTakesI, CardNext, CardTyped, Bit
  <2>2. CASE /\ cI' = Nothing /\ cResp' = cResp
             /\ cOut' = [CardR EXCEPT !.seq = 1 - cNr]
    BY <2>1, <2>2, EmptyBlocks DEF CardTyped
  <2>3. CASE /\ cResp' \in RespSizes /\ cI' = CardI(cResp', 0, CardNext)
             /\ cOut' = cI' \/ cOut' = CardS("WTX_req")
    <3>1. cResp' \in Nat /\ 0 < cResp'
      BY <2>3, CardAssumption
    <3>2. cI' \in CardBlocks /\ cI'.len <= CardIfsd /\ (cI'.more => cI'.first + cI'.len < cResp')
      BY <2>1, <2>3, <3>1, NewBlock
    <3> QED
      BY <2>1, <2>3, <3>1, <3>2, EmptyBlocks DEF CardTyped
  <2> QED
    BY <1>4, <2>2, <2>3 DEF CardTakesI, CardNext, Says
<1>5. CASE cI.more /\ cI' = CardI(cResp, cI.first + cI.len, 1 - cNs) /\ cOut' = cI'
           /\ cNs' = 1 - cNs /\ UNCHANGED <<cNr, cResp>>
  <2>1. /\ cI.first + cI.len \in Nat /\ cI.first + cI.len < cResp /\ cResp \in Nat
        /\ 1 - cNs \in Bit
    BY <1>5 DEF CardTyped, CardBlocks, Bit
  <2>2. cI' \in CardBlocks /\ cI'.len <= CardIfsd /\ (cI'.more => cI'.first + cI'.len < cResp)
    BY <1>5, <2>1, NewBlock
  <2> QED
    BY <1>5, <2>1, <2>2 DEF CardTyped
<1>6. CASE CardHearsR
  BY <1>3, <1>5, <1>6 DEF CardHearsR, Says
<1>7. CASE CardHearsS
  BY <1>2, <1>3, <1>7 DEF CardHearsS, Says
<1>8. CASE CardRefusesI
  BY <1>3, <1>8 DEF CardRefusesI, Says
<1>9. CASE CardMishears
  BY <1>3, <1>9 DEF CardMishears, Says
<1> QED
  BY <1>1, <1>2, <1>4, <1>6, <1>7, <1>8, <1>9 DEF ExNext, Exchange, StartCall, RefuseCall,
      PowerUp, CardHears, ReaderHears, ReaderMishears, exVars

\* With any card and any line the reader behaves as T1Transceive says, so the theorems
\* about T1Transceive hold in the exchange without a condition on the faults.
THEOREM ExchangeIsTransceive == 0..CardIfsd \subseteq InfSizes => (ExSpec => Spec)
<1> SUFFICES ASSUME 0..CardIfsd \subseteq InfSizes PROVE ExSpec => Spec
  OBVIOUS
<1>1. ExInit => Init /\ CardTyped
  <2>1. cNr = 0 => cNr \in Bit
    BY DEF Bit
  <2> QED
    BY <2>1, EmptyBlocks DEF ExInit, CardInit, CardTyped, Bit
<1>2. CardTyped /\ [ExNext]_exVars => CardTyped'
  BY CardTypes
<1>3. CardTyped /\ [ExNext]_exVars => [Next]_vars
  <2> SUFFICES ASSUME CardTyped, ExNext PROVE [Next]_vars
    BY DEF exVars
  <2>1. CASE StartCall \/ RefuseCall \/ PowerUp
    BY <2>1 DEF StartCall, RefuseCall, PowerUp, Next, BetweenCalls
  <2>2. CASE ReaderMishears
    BY <2>2 DEF ReaderMishears, Next
  <2>3. CASE ReaderHears
    <3>1. cOut.seq \in Bit /\ cOut.more \in BOOLEAN /\ cOut.len \in InfSizes
      <4>1. cOut.seq \in Bit /\ cOut.more \in BOOLEAN /\ cOut.len \in Nat /\ cOut.len <= CardIfsd
        BY DEF CardTyped, CardBlocks
      <4> QED
        BY <4>1, CardAssumption
    <3>2. CASE ReceiveI(cOut.seq, cOut.more, cOut.len)
      BY <3>1, <3>2 DEF Next
    <3>3. CASE ReceiveR(cOut.seq, TRUE)
      BY <3>1, <3>3 DEF Next
    <3>4. CASE ResynchAnswered \/ SResponseRejected \/ \E w \in WtxValues : WtxRequest(w)
      BY <3>4 DEF Next, ReceiveS
    <3> QED
      BY <2>3, <3>2, <3>3, <3>4 DEF ReaderHears
  <2>4. CASE CardHears \/ CardMishears
    BY <2>4 DEF CardHears, CardMishears
  <2> QED
    BY <2>1, <2>2, <2>3, <2>4 DEF ExNext, Exchange
<1> QED
  BY <1>1, <1>2, <1>3, PTL DEF ExSpec, Spec

=============================================================================
