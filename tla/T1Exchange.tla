----------------------------- MODULE T1Exchange -----------------------------
(***************************************************************************)
(* The T=1 state machine of the driver (T1Transceive), a card that follows *)
(* ISO 7816-3 and a line that garbles blocks.  The card is not under src/: *)
(* it is modelled from the rules the comments of proto-t1.c name and from  *)
(* what the driver expects it to answer.                                   *)
(*                                                                         *)
(* The k-th byte of the command of call c is <<c, k>>; the k-th byte of    *)
(* the response to the e-th command executed is <<e, k>>.                  *)
(***************************************************************************)
EXTENDS T1Transceive, Sequences, FiniteSets

CONSTANTS
    CardIfsd,       \* data bytes per I-block of the card (the IFSD agreed on)
    RespSizes,      \* lengths of the responses
    MaxCalls,       \* bound on the calls to t1_transceive
    MaxFaults,      \* bound on the blocks the line garbles or swallows
    MaxExecs        \* bound on the length of the log cExec

ASSUME CardAssumption ==
    /\ CardIfsd \in Nat \ {0}
    /\ RespSizes \subseteq Nat \ {0}
    /\ MaxCalls \in Nat /\ MaxFaults \in Nat /\ MaxExecs \in Nat

VARIABLES
    calls,          \* calls made so far
    wire,           \* where the block on the line is going, if there is one
    faults,         \* blocks garbled or swallowed so far
    got,            \* contents of the receive buffer (rbuf) of the call
    cNs, cNr,       \* the card's own number and the one it expects
    cCmd,           \* the chained command received so far
    cExec,          \* the commands executed: [call, whole]
    cResp,          \* length of the response to the last of them
    cI,             \* the card's I-block that is not yet acknowledged
    cOut            \* the block the card sent last

cardVars == <<cNs, cNr, cCmd, cExec, cResp, cI, cOut>>
exVars   == <<vars, calls, wire, faults, got, cardVars>>

CardBlock(type, code, seq, first, len, m) ==
    [type |-> type, code |-> code, seq |-> seq, first |-> first, len |-> len, more |-> m]

Nothing   == CardBlock("none", "none", 0, 0, 0, FALSE)
CardR     == CardBlock("R", "none", cNr, 0, 0, FALSE)
CardS(c)  == CardBlock("S", c, 0, 0, 0, FALSE)

\* The I-block with the bytes of an r-byte response from `first' on.
CardI(r, first, seq) ==
    CardBlock("I", "none", seq, first, AtMost(r - first, CardIfsd), r - first > CardIfsd)

-----------------------------------------------------------------------------
(* The card                                                                *)

CardInit ==
    /\ cNs = 0 /\ cNr = 0 /\ cCmd = <<>> /\ cExec = <<>> /\ cResp = 0
    /\ cI = Nothing /\ cOut = Nothing

CardReset ==
    /\ cNs' = 0 /\ cNr' = 0 /\ cCmd' = <<>> /\ cI' = Nothing
    /\ UNCHANGED <<cExec, cResp>>

Says(b) == cOut' = b

\* A new I-block acknowledges the card's own last one.
CardTakesI ==
    LET n     == IF cI.type = "I" THEN 1 - cNs ELSE cNs
        bytes == cCmd \o [i \in 1..block.len |-> <<calls, block.first + i>>]
    IN  /\ block.type = "I" /\ block.seq = cNr
        /\ cNr' = 1 - cNr /\ cNs' = n
        /\ \/ /\ block.more
              /\ cCmd' = bytes /\ cI' = Nothing
              /\ Says([CardR EXCEPT !.seq = 1 - cNr])
              /\ UNCHANGED <<cExec, cResp>>
           \/ /\ ~block.more /\ Len(cExec) < MaxExecs
              /\ cCmd' = <<>>
              /\ cExec' = Append(cExec, [call |-> calls,
                                        whole |-> bytes = [i \in 1..sLen |-> <<calls, i>>]])
              /\ cResp' \in RespSizes
              /\ cI' = CardI(cResp', 0, n)
              /\ Says(cI') \/ Says(CardS("WTX_req"))

CardRefusesI ==
    /\ block.type = "I" /\ block.seq # cNr
    /\ Says(CardR)
    /\ UNCHANGED <<cNs, cNr, cCmd, cExec, cResp, cI>>

\* Any R-block or garbled block makes the card repeat its S-request.  Else an
\* R-block asks for its I-block again or for the next one of the chain, and
\* when it has no I-block outstanding for the block it sent last.
CardHearsR ==
    /\ block.type = "R"
    /\ UNCHANGED <<cNr, cCmd, cExec, cResp>>
    /\ IF cOut.code = "WTX_req" \/ cI = Nothing
         THEN Says(IF cOut = Nothing THEN CardR ELSE cOut) /\ UNCHANGED <<cNs, cI>>
       ELSE IF block.seq = cNs
         THEN Says(cI) /\ UNCHANGED <<cNs, cI>>
       ELSE IF cI.more
         THEN /\ cNs' = 1 - cNs
              /\ cI' = CardI(cResp, cI.first + cI.len, 1 - cNs)
              /\ Says(cI')
       ELSE Says(CardR) /\ UNCHANGED <<cNs, cI>>

CardHearsS ==
    /\ block.type = "S"
    /\ \/ block.code = "RESYNC_req" /\ CardReset /\ Says(CardS("RESYNC_resp"))
       \/ /\ block.code = "WTX_resp"
          /\ Says(IF cI = Nothing THEN CardR ELSE cI)
          /\ UNCHANGED <<cNs, cNr, cCmd, cExec, cResp, cI>>

\* The line garbles the block.
Garbles == faults < MaxFaults /\ faults' = faults + 1

CardHears ==
    /\ wire = "toCard" /\ wire' = "toReader"
    /\ CardTakesI \/ CardRefusesI \/ CardHearsR \/ CardHearsS
    /\ UNCHANGED <<vars, calls, faults, got>>

CardMishears ==
    /\ wire = "toCard" /\ wire' = "toReader"
    /\ Garbles
    /\ Says(IF cOut.code = "WTX_req" THEN cOut ELSE CardR)
    /\ UNCHANGED <<vars, calls, got, cNs, cNr, cCmd, cExec, cResp, cI>>

-----------------------------------------------------------------------------
(* The reader                                                              *)

\* What rbuf holds after the answer: the block's bytes put at its end, or
\* nothing after ct_buf_init.
Store ==
    got' = IF rTail' > rTail
             THEN got \o [i \in 1..cOut.len |-> <<Len(cExec), cOut.first + i>>]
           ELSE IF rTail' < rTail THEN <<>> ELSE got

Sends == wire' = IF pc' = "xcv" THEN "toCard" ELSE "none"

ReaderHears ==
    /\ wire = "toReader"
    /\ \/ cOut.type = "I" /\ ReceiveI(cOut.seq, cOut.more, cOut.len)
       \/ cOut.type = "R" /\ ReceiveR(cOut.seq, TRUE)
       \/ cOut.code = "RESYNC_resp" /\ (ResynchAnswered \/ SResponseRejected)
       \/ cOut.code = "WTX_req" /\ \E w \in WtxValues : WtxRequest(w)
    /\ Store /\ Sends
    /\ UNCHANGED <<calls, faults, cardVars>>

\* The answer is garbled, has a parity error, or does not come.
ReaderMishears ==
    /\ wire = "toReader"
    /\ Garbles
    /\ ReceiveError
    /\ Store /\ Sends
    /\ UNCHANGED <<calls, cardVars>>

StartCall ==
    /\ calls < MaxCalls /\ calls' = calls + 1
    /\ Transceive
    /\ got' = <<>> /\ Sends
    /\ UNCHANGED <<faults, cardVars>>

RefuseCall ==
    Refuse /\ UNCHANGED <<calls, wire, faults, got, cardVars>>

\* IFDHPowerICC(IFD_POWER_UP or IFD_RESET): the card is reset and t1_init run.
PowerUp ==
    /\ T1Init
    /\ CardReset /\ cOut' = Nothing
    /\ UNCHANGED <<calls, wire, faults, got>>

-----------------------------------------------------------------------------

ExInit == Init /\ CardInit /\ calls = 0 /\ wire = "none" /\ faults = 0 /\ got = <<>>

Exchange == CardHears \/ CardMishears \/ ReaderHears \/ ReaderMishears

ExNext == StartCall \/ RefuseCall \/ PowerUp \/ Exchange

ExSpec == ExInit /\ [][ExNext]_exVars

\* The loop of t1_transceive goes on as long as CCID_Receive returns, which
\* its timeout ensures.
ExFairSpec == ExSpec /\ WF_exVars(Exchange)

-----------------------------------------------------------------------------
(* Properties                                                              *)

\* The card executes the command it was sent, all of it: never the tail of a
\* chain, an empty command, or bytes of two calls.
CommandsWhole == \A k \in DOMAIN cExec : cExec[k].whole

\* A call that succeeds returns the response, complete and in order, to the
\* command of this very call.
ResponseIsOurs ==
    pc = "idle" /\ result = "ok" =>
        /\ cExec # <<>> /\ cExec[Len(cExec)].call = calls
        /\ got = [i \in 1..cResp |-> <<Len(cExec), i>>]

\* ns and nr survive the call and are in step with the card's numbers when it
\* succeeds: the next call does not begin with a lost block.
InStep ==
    pc = "idle" /\ state = "RECEIVING" => ns = cNr /\ nr = 1 - cNs

\* "the number or resyncs is limited, too": a call makes three resynchronisations at
\* most, so the card executes its command four times at most.  Not so, for each
\* answer to S(RESYNCH request) restores the limit: see README.
ResyncsLimited ==
    \A c \in 1..calls : Cardinality({k \in DOMAIN cExec : cExec[k].call = c}) <= 4

\* Every call returns.
CallReturns == pc = "xcv" ~> pc = "idle"

Abs == INSTANCE ApduExchange WITH
    phase   <- IF pc = "xcv" THEN "busy" ELSE "idle",
    call    <- calls,
    log     <- [k \in DOMAIN cExec |-> IF cExec[k].whole THEN cExec[k].call ELSE 0],
    outcome <- result

\* The exchange of blocks implements ApduExchange.
Implements == Abs!AbsSpec

=============================================================================
