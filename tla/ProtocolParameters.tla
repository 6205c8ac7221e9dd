------------------------- MODULE ProtocolParameters -------------------------
(***************************************************************************)
(* IFDHSetProtocolParameters (ifdhandler.c) after a power-up: the driver   *)
(* reads the ATR, agrees on a rate and a protocol with the card (PPS,      *)
(* towitoko/pps.c), tells the reader (SetParameters) and sets up T=1.      *)
(*                                                                         *)
(* The card is external.  It behaves as ISO 7816-3 asks: it runs at the    *)
(* default rate until a PPS says otherwise, or in specific mode (TA2) at   *)
(* the rate of TA1 at once, and takes one PPS, right after its ATR.        *)
(* No reader on a serial line makes the PPS from the ATR alone             *)
(* (AUTO_PPS_PROP) or negotiates the IFSD; those branches are left out.    *)
(* So are PTS2 and PTS3, which no caller asks for.                         *)
(***************************************************************************)
EXTENDS Atr

CONSTANTS
    Readers,        \* names of readers, subset of the domain of Described
    Cards,          \* the levels of interface bytes of the cards there are
    CallerPts1      \* values of PTS1 a caller asks for; it may ask for none

ASSUME ParametersAssumption ==
    /\ Readers \subseteq {"GemPCTwin", "GemCoreSIMPro", "SEC1210"}
    /\ CallerPts1 \subseteq 0..255
    /\ \A c \in Cards : IsoLevels(c)

VARIABLES
    reader,     \* [kind, fidi, crc, ifsc, kept]: what it uses; `kept': it refused to change
    card,       \* the card in the slot
    slot,       \* CcidSlots: whose ATR it is, <<>> for none; its T=1 context t1
    desc,       \* the descriptor: cardProtocol, readTimeout
    pc,         \* the exchange that comes next: "pps", "params", "ifsd"; "idle" outside
    pps,        \* the call's protocol and PTS1
    retries,    \* of t1_negotiate_ifsd
    ret         \* what the call returned, "" before it has

vars == <<reader, card, slot, desc, pc, pps, retries, ret>>

DefaultRate == 17       \* 0x11
MaxIfsd     == 254      \* dwMaxIFSD

\* The data rates of ISO 7816-3 at 4 MHz (ISO_DATA_RATES).
IsoDataRates ==
    {10753, 14337, 15625, 17204, 20833, 21505, 23438, 25806, 28674, 31250, 32258, 34409,
     39063, 41667, 43011, 46875, 52083, 53763, 57348, 62500, 64516, 68817, 71685, 78125,
     83333, 86022, 93750, 104167, 107527, 114695, 125000, 129032, 143369, 156250, 166667,
     172043, 215054, 229391, 250000, 344086}

\* What set_ccid_descriptor says of each reader.  No rates: NULL, no table.
Described(k) ==
    CASE k = "SEC1210" ->
           [autoPps |-> TRUE, clock |-> 4800, max |-> 826000, rates |-> {}]
      [] k = "GemCoreSIMPro" ->
           [autoPps |-> FALSE, clock |-> 4000, max |-> 500000, rates |-> IsoDataRates \cup {500000}]
      [] OTHER ->
           [autoPps |-> FALSE, clock |-> 4000, max |-> 344086, rates |-> IsoDataRates]

-----------------------------------------------------------------------------
(* The rate                                                                *)

\* F and D of a TA1; those of the default where it has none.
Factors(ta1) == IF FOf(ta1) = 0 \/ DOf(ta1) = 0 THEN <<372, 1>> ELSE <<FOf(ta1), DOf(ta1)>>
BaudRate(k, ta1) == (1000 * Described(k).clock * Factors(ta1)[2]) \div Factors(ta1)[1]

FindBaudRate(k, baud) ==
    \E known \in Described(k).rates : baud \in known - 1..known + 1

Supports(k, ta1) ==
    IF Described(k).rates = {} THEN BaudRate(k, ta1) <= Described(k).max
                               ELSE FindBaudRate(k, BaudRate(k, ta1))

Faster(k, ta1) == /\ BaudRate(k, ta1) > BaudRate(k, DefaultRate)
                  /\ BaudRate(k, ta1) <= Described(k).max

\* For a card too fast for the reader: the next TA1 below that it can do.
Adapted(k, ta1) ==
    LET lower == {t \in 148..ta1 - 1 : Supports(k, t)}
    IN IF BaudRate(k, ta1) > Described(k).max + 2 /\ ta1 <= 151 /\ lower # {}
       THEN Max(lower) ELSE Absent

\* The PTS1 the driver asks for when its caller does not.
Pts1Of(k, ta1) ==
    IF ~Present(ta1) THEN Absent
    ELSE IF Faster(k, ta1) THEN IF Supports(k, ta1) THEN ta1 ELSE Absent
    ELSE Adapted(k, ta1)

\* "Reject the card."
Rejected(k, a) ==
    /\ Specific(a) /\ Present(a.ib[1].ta)
    /\ Faster(k, a.ib[1].ta) /\ ~Supports(k, a.ib[1].ta)

-----------------------------------------------------------------------------
(* The read timeout, in whole ms                                           *)

\* T1_card_timeout; the second for the host is part of it.
T1Timeout(fd, tc1, wait, clock) ==
    LET chars == 260 * (12 + tc1) + 11 + 260 * (11 + 2^LowBits(wait))
    IN (chars * fd[1]) \div (fd[2] * clock) + (2^HighBits(wait) * 960 * 372) \div clock + 1000

\* T0_card_timeout
T0Timeout(fd, tc1, tc2, clock) ==
    LET egt == ((12 + tc1) * fd[1]) \div (fd[2] * clock)
        wwt == (960 * tc2 * fd[1]) \div clock
    IN Max({3000, 261 * egt + 6 * wwt, 5 * egt + 260 * wwt})

Or(v, default) == IF Present(v) THEN v ELSE default

Timeout(k, a, protocol) ==
    LET ta1 == a.ib[1].ta
        tc1 == Or(a.ib[1].tc, 0)
        clock == Described(k).clock
    IN IF FOf(ta1) = 0 \/ DOf(ta1) = 0 THEN 60000
       ELSE IF protocol = 1
            THEN T1Timeout(Factors(ta1), tc1, Or(FirstOf(a, LAMBDA l : l.tb), 77), clock)
            ELSE T0Timeout(Factors(ta1), tc1, Or(a.ib[2].tc, 10), clock)

-----------------------------------------------------------------------------
(* The card                                                                *)

Encoded(c) == Encode(59, c, 3)
\* The protocols it can be asked for, the first one unasked; T=15 is none.
Offers(c) == {c[i].td : i \in 1..Len(c)} \ {Absent, 15}
FirstProtocol(c) == IF Present(c[1].td) THEN c[1].td ELSE 0
CardIsSpecific(c) == Len(c) > 1 /\ Present(c[2].ta)
CardIfsc(c) ==
    LET ta == {i \in 3..Len(c) : Present(c[i].ta) /\ c[i - 1].td = 1}
    IN IF ta = {} THEN 32 ELSE Min({c[Min(ta)].ta, 254})
CardUsesCrc(c) ==
    LET tc == {i \in 3..Len(c) : Present(c[i].tc)} IN tc # {} /\ c[Min(tc)].tc = 1

Inserted(c) == [ib |-> c, powered |-> FALSE, rate |-> DefaultRate,
                protocol |-> 0, negotiable |-> FALSE, ifsd |-> 32]
Activated(c) ==
    IF CardIsSpecific(c)
    THEN [Inserted(c) EXCEPT !.powered = TRUE, !.rate = Or(c[1].ta, DefaultRate),
                             !.protocol = LowBits(c[2].ta)]
    ELSE [Inserted(c) EXCEPT !.powered = TRUE, !.negotiable = TRUE,
                             !.protocol = FirstProtocol(c)]

\* What a PPS makes of the card: it may not take up the PTS1.
Agreed(c, protocol, pts1) ==
    {[c EXCEPT !.negotiable = FALSE, !.protocol = protocol, !.rate = r] :
       r \in {DefaultRate, Or(pts1, DefaultRate)}}
Answers(c, protocol) == c.powered /\ c.negotiable /\ protocol \in Offers(c.ib) \cup {c.protocol}

-----------------------------------------------------------------------------
(* Between the calls                                                       *)

\* t1_init.
NewT1 == [crc |-> FALSE, ifsc |-> 32, ifsd |-> 32, dead |-> FALSE]

NoPps == [protocol |-> 0, pts1 |-> Absent]
Return(code) == pc' = "idle" /\ pps' = NoPps /\ retries' = 0 /\ ret' = code

Init ==
    /\ reader \in {[kind |-> k, fidi |-> DefaultRate, crc |-> FALSE, ifsc |-> 32, kept |-> FALSE] :
                      k \in Readers}
    /\ card \in {Inserted(c) : c \in Cards}
    /\ slot = [atr |-> <<>>, t1 |-> NewT1]
    /\ desc = [protocol |-> Absent, timeout |-> 3000]
    /\ pc = "idle" /\ pps = NoPps
    /\ retries = 0 /\ ret = ""

\* Another card is put into the slot.  The driver has the ATR of the old one
\* until it powers up the new one.
ReplaceCard(c) ==
    /\ pc = "idle"
    /\ card' = Inserted(c)
    /\ UNCHANGED <<reader, slot, desc, pc, pps, retries, ret>>

\* (Mutant of PowerUp: t1_init is left out.)
PowerUpKeepsT1 ==
    /\ pc = "idle"
    /\ card' = Activated(card.ib)
    /\ slot' = [slot EXCEPT !.atr = card.ib]
    /\ reader' = [reader EXCEPT !.fidi = DefaultRate, !.crc = FALSE, !.ifsc = 32, !.kept = FALSE]
    /\ ret' = ""
    /\ UNCHANGED <<desc, pc, pps, retries>>

\* IFDHPowerICC, IFD_POWER_UP.  The reader activates the card with the defaults.
PowerUp ==
    /\ pc = "idle"
    /\ card' = Activated(card.ib)
    /\ slot' = [atr |-> card.ib, t1 |-> NewT1]
    /\ reader' = [reader EXCEPT !.fidi = DefaultRate, !.crc = FALSE, !.ifsc = 32, !.kept = FALSE]
    /\ ret' = ""
    /\ UNCHANGED <<desc, pc, pps, retries>>

-----------------------------------------------------------------------------
(* The call                                                                *)

\* What the driver reads in the ATR it has stored.
Parsed == [c \in Cards |-> InitFromArray(Encoded(c))]
A == IF slot.atr = <<>> THEN Malformed ELSE Parsed[slot.atr]
Kind == Described(reader.kind)

\* TCi (i > 2): 0 for LRC, 1 for CRC; anything else changes nothing.
ChecksumByte(a) == FirstOf(a, LAMBDA l : l.tc)
WithChecksum(t1, protocol) ==
    LET tc == ChecksumByte(A)
    IN IF protocol = 1 /\ tc \in {0, 1} THEN [t1 EXCEPT !.crc = (tc = 1)] ELSE t1

\* The IFSC for the reader: the default if the ATR says none.
Ifsc == IF GetIFSC(A) > 0 THEN GetIFSC(A) ELSE 32

\* TA2 with b5: the rate is the card's own affair.
Implicit(a) == Specific(a) /\ Says(a.ib[2].ta, 4)

\* (Mutant of PpsDue: only a rate is worth a PPS.)
PpsDueForRate(protocol, pts1) == ~Kind.autoPps /\ ~Specific(A) /\ Present(pts1)

\* A PPS is due in negotiable mode, unless the reader makes it.
PpsDue(protocol, pts1) ==
    /\ ~Kind.autoPps /\ ~Specific(A)
    /\ protocol # GetDefaultProtocol(A) \/ Present(pts1)

\* Just before SetParameters the driver sets its timeout.
ToParams == pc' = "params" /\ UNCHANGED ret
WaitFor(protocol) == desc' = [desc EXCEPT !.timeout = Timeout(reader.kind, A, protocol)]

\* Up to the PPS, or without one up to SetParameters.  PC/SC makes one call
\* after each power-up, and one after a power-up that failed.
SetProtocolParameters(protocol, pts1) ==
    LET asked == IF Present(pts1) THEN pts1 ELSE Pts1Of(reader.kind, A.ib[1].ta) IN
    /\ pc = "idle" /\ ret = ""
    /\ UNCHANGED <<reader, card>>
    /\ \/ /\ ~A.ok \/ (Specific(A) /\ LowBits(A.ib[2].ta) # protocol)
          /\ Return("NOT_SUPPORTED") /\ UNCHANGED <<slot, desc>>
       \/ /\ A.ok /\ (Specific(A) => LowBits(A.ib[2].ta) = protocol)
          /\ slot' = [slot EXCEPT !.t1 = WithChecksum(@, protocol)]
          /\ \/ /\ (~Present(pts1) /\ Rejected(reader.kind, A)) \/ Implicit(A)
                /\ Return("COMMUNICATION_ERROR") /\ UNCHANGED desc
             \/ /\ Present(pts1) \/ ~Rejected(reader.kind, A)
                /\ ~Implicit(A)
                /\ pps' = [protocol |-> protocol, pts1 |-> asked] /\ UNCHANGED retries
                /\ IF PpsDue(protocol, asked)
                   THEN pc' = "pps" /\ UNCHANGED <<desc, ret>>
                   ELSE ToParams /\ WaitFor(protocol)

\* (Mutant of Confirmed: the answer's lack of a PTS1 is not noticed.)
ConfirmedAsAsked(answer) == pps

\* PPS_Exchange: what the call goes on with is the card's answer.
Confirmed(answer) == [pps EXCEPT !.pts1 = answer]

\* The card confirms; if it leaves out the PTS1, it stays at the default rate.
PpsConfirmed ==
    /\ pc = "pps" /\ Answers(card, pps.protocol)
    /\ \E c \in Agreed(card, pps.protocol, pps.pts1) :
         /\ card' = c
         /\ pps' = Confirmed(IF c.rate = pps.pts1 THEN pps.pts1 ELSE Absent)
    /\ ToParams /\ WaitFor(pps.protocol)
    /\ UNCHANGED <<reader, slot, retries>>

\* The exchange fails, or PPS_Match finds another answer: the card may have
\* taken up what was asked, or not.
PpsFailed ==
    /\ pc = "pps"
    /\ card' \in {[card EXCEPT !.negotiable = FALSE]}
                 \cup (IF Answers(card, pps.protocol)
                       THEN Agreed(card, pps.protocol, pps.pts1) ELSE {})
    /\ Return("PTS_FAILURE")
    /\ UNCHANGED <<reader, slot, desc>>

\* (Mutant of FiDi: the default is forgotten.)
FiDiAsAsked == pps.pts1

\* The rate the reader is told: the one agreed on, or the default.
FiDi == Or(pps.pts1, DefaultRate)

\* What follows SetParameters, when it has not failed.
AfterParams ==
    IF pps.protocol = 1
    THEN /\ slot' = [slot EXCEPT !.t1.ifsc = IF GetIFSC(A) > 0 THEN GetIFSC(A) ELSE @]
         /\ pc' = "ifsd" /\ retries' = 3 /\ UNCHANGED <<desc, pps, ret>>
    ELSE /\ desc' = [desc EXCEPT !.protocol = pps.protocol]
         /\ Return("SUCCESS") /\ UNCHANGED slot

\* The reader does as told; one with AUTO_PPS_CUR agrees with the card first.
ParamsTaken ==
    /\ pc = "params"
    /\ reader' = [reader EXCEPT !.fidi = FiDi, !.crc = slot.t1.crc, !.ifsc = Ifsc]
    /\ IF Kind.autoPps /\ card.negotiable
       THEN /\ Answers(card, pps.protocol)
            /\ card' \in {c \in Agreed(card, pps.protocol, pps.pts1) : c.rate = FiDi}
       ELSE UNCHANGED card
    /\ AfterParams

\* "a parameter is not changeable" counts as success.
ParamsKept ==
    /\ pc = "params"
    /\ reader' = [reader EXCEPT !.kept = TRUE]
    /\ AfterParams
    /\ UNCHANGED card

ParamsFailed(code) ==
    /\ pc = "params"
    /\ Return(code)
    /\ UNCHANGED <<reader, card, slot, desc>>

\* (Mutant of IfsdGood: any answer will do.)
IfsdGoodAny(heard) == TRUE

\* The card has answered with the size it was asked for.
IfsdGood(heard) == heard = MaxIfsd

\* t1_negotiate_ifsd, one pass of the loop: `heard' is the size in the answer,
\* Absent when there is none.  The last answer comes too late, whatever it is.
NegotiateIfsd(heard, took) ==
    /\ pc = "ifsd"
    /\ took => /\ card.powered /\ card.protocol = 1
               /\ card.rate = reader.fidi /\ slot.t1.crc = CardUsesCrc(card.ib)
    /\ heard = MaxIfsd => took
    /\ card' = [card EXCEPT !.ifsd = IF took THEN MaxIfsd ELSE @]
    /\ UNCHANGED reader
    /\ \/ /\ retries = 1 \/ ~Present(heard)
          /\ slot' = [slot EXCEPT !.t1.dead = TRUE]
          /\ Return("COMMUNICATION_ERROR") /\ UNCHANGED desc
       \/ /\ retries > 1 /\ Present(heard) /\ IfsdGood(heard)
          /\ slot' = [slot EXCEPT !.t1.ifsd = MaxIfsd]
          /\ desc' = [desc EXCEPT !.protocol = 1]
          /\ Return("SUCCESS")
       \/ /\ retries > 1 /\ Present(heard) /\ ~IfsdGood(heard)
          /\ retries' = retries - 1
          /\ UNCHANGED <<slot, desc, pc, pps, ret>>

Next ==
    \/ \E c \in Cards : ReplaceCard(c)
    \/ PowerUp
    \/ \E protocol \in {0, 1}, pts1 \in CallerPts1 \cup {Absent} : SetProtocolParameters(protocol, pts1)
    \/ PpsConfirmed \/ PpsFailed
    \/ ParamsTaken \/ ParamsKept
    \/ \E code \in {"NOT_SUPPORTED", "COMMUNICATION_ERROR"} : ParamsFailed(code)
    \/ \E heard \in {Absent, 0, MaxIfsd}, took \in BOOLEAN : NegotiateIfsd(heard, took)

Spec == Init /\ [][Next]_vars

-----------------------------------------------------------------------------
(* Properties                                                              *)

\* The call has got past SetParameters, and the reader did as it was told; the
\* card in the slot is the one it was for.
Told ==
    /\ pc = "ifsd" \/ (pc = "idle" /\ ret = "SUCCESS")
    /\ card.powered /\ ~reader.kept
Protocol == IF pc = "ifsd" THEN 1 ELSE desc.protocol

TypeOK ==
    /\ reader.kind \in Readers /\ reader.fidi \in 0..255 /\ reader.ifsc \in 1..254
    /\ card.ib \in Cards /\ card.rate \in 0..255 /\ card.ifsd \in {32, MaxIfsd}
    /\ slot.atr \in {<<>>} \cup Cards
    /\ slot.t1.ifsc \in 1..254 /\ slot.t1.ifsd \in {32, MaxIfsd} /\ slot.t1.dead \in BOOLEAN
    /\ desc.protocol \in {Absent, 0, 1} /\ desc.timeout \in Nat
    /\ pc \in {"idle", "pps", "params", "ifsd"} /\ retries \in 0..3
    /\ ret \in {"", "SUCCESS", "NOT_SUPPORTED", "PTS_FAILURE", "COMMUNICATION_ERROR"}

\* Driver and card draw the same conclusions from the ATR of card c.
Understood(c) ==
    LET a == Parsed[c] IN
    /\ Specific(a) = CardIsSpecific(c)
    /\ CardIsSpecific(c) => a.ib[2].ta = c[2].ta
    /\ GetDefaultProtocol(a) = Activated(c).protocol
    /\ (ChecksumByte(a) = 1) = CardUsesCrc(c)
    /\ (IF GetIFSC(a) > 0 THEN GetIFSC(a) ELSE 32) = CardIfsc(c)

\* ATR_InitFromArray gets back what the card sent, level by level, and takes no
\* part of it for the whole; and what the driver concludes from it about mode,
\* protocol, checksum and block size is what the card means.
ReadBack ==
    [c \in Cards |->
       /\ Understood(c)
       /\ Parsed[c].ok /\ Parsed[c].length = Len(Encoded(c))
       /\ SubSeq(Parsed[c].ib, 1, Len(c)) = Complete(c)
       /\ \A n \in 0..Len(Encoded(c)) - 1 : ~InitFromArray(SubSeq(Encoded(c), 1, n)).ok]
AtrRead == slot.atr # <<>> => ReadBack[slot.atr]

\* The reader is told to talk at the rate the card talks at: the rate both agreed
\* on, or the default if the card would not have another.  Not claimed of a card that
\* has a rate of its own (SpecificRate), nor of a reader that kept its parameters.
RatesAgree == Told /\ ~CardIsSpecific(card.ib) => reader.fidi = card.rate

\* The protocol the driver goes on with is the one the card is in.
ProtocolAgrees == Told => Protocol = card.protocol

\* Driver, reader and card use the same checksum, whatever card was in the slot
\* before.
ChecksumAgrees ==
    Told /\ Protocol = 1 => slot.t1.crc = CardUsesCrc(card.ib) /\ reader.crc = slot.t1.crc

\* No block is longer than the other side can take: driver and reader keep to the
\* card's IFSC, and the card has been told of the IFSD the driver goes on with.
SizesAgree ==
    /\ Told /\ Protocol = 1 => slot.t1.ifsc = CardIfsc(card.ib) /\ reader.ifsc = slot.t1.ifsc
    /\ pc = "idle" /\ ret = "SUCCESS" /\ desc.protocol = 1 /\ card.powered =>
         slot.t1.ifsd = card.ifsd

\* "so we get the error from the reader": the driver waits longer than the reader
\* can take with the parameters it was given.  Not so with a TA1 other than the
\* card's: see README.
ErrorFromReader ==
    Told /\ Protocol = 1 =>
      desc.timeout >= T1Timeout(Factors(reader.fidi), Or(card.ib[1].tc, 0),
                                Or(FirstOf(A, LAMBDA l : l.tb), 77), Kind.clock) - 1000

\* "the card is supporting only the baud rate specified in TA1 but reader does
\* not support this value. Reject the card."  Not so for a card that is too fast
\* for the reader: see README.
SpecificRate == Told => reader.fidi = card.rate
=============================================================================
