-------------------------------- MODULE Atr --------------------------------
(***************************************************************************)
(* The answer to reset of a card as the driver reads it (towitoko/atr.c,   *)
(* and get_IFSC of ifdhandler.c), and what ISO 7816-3 says a card sends.   *)
(*                                                                         *)
(* A byte is a number.  The interface bytes are a sequence of levels, one  *)
(* for each i of TAi, TBi, TCi, TDi; a byte that is not there is Absent.   *)
(***************************************************************************)
EXTENDS Integers, Sequences, FiniteSets, FiniteSetsExt, SequencesExt

Absent       == -1
MaxProtocols == 7       \* ATR_MAX_PROTOCOLS

Present(v)  == v # Absent
HighBits(v) == v \div 16
LowBits(v)  == v % 16
\* Bit 4..7 of TDi, or of T0, says that the next level has a TA, TB, TC, TD.
Says(td, bit) == (td \div 2^bit) % 2 = 1
NumIb(td)     == Cardinality({bit \in 4..7 : Says(td, bit)})    \* atr_num_ib_table

NoLevel == [ta |-> Absent, tb |-> Absent, tc |-> Absent, td |-> Absent]

-----------------------------------------------------------------------------
(* ATR_InitFromArray                                                       *)

Malformed == [ok |-> FALSE, ib |-> [i \in 1..MaxProtocols |-> NoLevel],
              hbn |-> 0, hasTCK |-> FALSE, length |-> 0]

\* The level announced by `td' that begins after `read' bytes of `b'.
ReadLevel(b, td, read) ==
    LET Byte(bit) == IF Says(td, bit)
                     THEN b[read + Cardinality({k \in 4..bit : Says(td, k)})]
                     ELSE Absent
    IN [ta |-> Byte(4), tb |-> Byte(5), tc |-> Byte(6), td |-> Byte(7)]

\* One pass of the loop, for level n: the level must be within `b', and no TDi may
\* announce another after the last one.
NextLevel(b, s, n) ==
    IF ~s.good \/ ~Present(s.td) THEN s
    ELSE IF s.read + NumIb(s.td) > Len(b) THEN [s EXCEPT !.good = FALSE]
    ELSE LET l == ReadLevel(b, s.td, s.read) IN
         [ib |-> Append(s.ib, l), td |-> l.td, read |-> s.read + NumIb(s.td),
          good |-> ~(Present(l.td) /\ n = MaxProtocols)]

\* The loop over the levels: at most MaxProtocols of them.
LevelsAfter(b) ==
    LET After[n \in 0..MaxProtocols] ==
          IF n = 0 THEN [ib |-> <<>>, td |-> b[2], read |-> 2, good |-> TRUE]
                   ELSE NextLevel(b, After[n - 1], n)
    IN After
Levels(b) == LevelsAfter(b)[MaxProtocols]

TdLevels(ib) == {i \in 1..Len(ib) : Present(ib[i].td)}

\* (Mutant of HasTCK: the first TDi decides.)
HasTCKFirst(ib) == TdLevels(ib) # {} /\ LowBits(ib[1].td) # 0

\* The last TDi decides whether a TCK follows the historical bytes.
HasTCK(ib) == TdLevels(ib) # {} /\ LowBits(ib[Max(TdLevels(ib))].td) # 0

InitFromArray(b) ==
    IF Len(b) < 2 THEN Malformed
    ELSE LET s      == Levels(b)
             hbn    == LowBits(b[2])
             hasTCK == HasTCK(s.ib)
             length == s.read + hbn + (IF hasTCK THEN 1 ELSE 0)
         IN IF ~s.good \/ length > Len(b) THEN Malformed
            ELSE [ok |-> TRUE,
                  ib |-> [i \in 1..MaxProtocols |-> IF i <= Len(s.ib) THEN s.ib[i] ELSE NoLevel],
                  hbn |-> hbn, hasTCK |-> hasTCK, length |-> length]

-----------------------------------------------------------------------------
(* What the driver asks of a parsed ATR                                    *)

FTable == <<372, 372, 558, 744, 1116, 1488, 1860, 0, 0, 512, 768, 1024, 1536, 2048, 0, 0>>
DTable == <<0, 1, 2, 4, 8, 16, 32, 64, 12, 20, 0, 0, 0, 0, 0, 0>>

\* ATR_GetParameter for F and D of a TA1.
FOf(ta1) == IF Present(ta1) THEN FTable[HighBits(ta1) + 1] ELSE 372
DOf(ta1) == IF Present(ta1) THEN DTable[LowBits(ta1) + 1] ELSE 1

\* TA2: the card is in specific mode, its protocol and rate are not negotiable.
Specific(a) == Present(a.ib[2].ta)

\* In specific mode that of TA2, otherwise the one the first TDi names.
GetDefaultProtocol(a) ==
    LET named == TdLevels(a.ib)
    IN IF Specific(a) THEN LowBits(a.ib[2].ta)
       ELSE IF named = {} THEN 0 ELSE LowBits(a.ib[Min(named)].td)

\* The first byte `Of' a level i > 2, Absent if there is none.
FirstOf(a, Of(_)) ==
    LET there == {i \in 3..MaxProtocols : Present(Of(a.ib[i]))}
    IN IF there = {} THEN Absent ELSE Of(a.ib[Min(there)])

\* The first TAi, i > 2, that a TD(i-1) with T=1 announces; `protocol' in the code
\* is that of the last TD before level i.
AnnouncedIFSC(a) ==
    LET LastTd(i) == {k \in 1..i - 1 : Present(a.ib[k].td)}
        there == {i \in 3..MaxProtocols :
                    /\ Present(a.ib[i].ta)
                    /\ LastTd(i) # {} /\ LowBits(a.ib[Max(LastTd(i))].td) = 1}
    IN IF there = {} THEN Absent ELSE a.ib[Min(there)].ta

\* get_IFSC
GetIFSC(a) == Min({AnnouncedIFSC(a), 254})

-----------------------------------------------------------------------------
(* The card's side: the bytes of an ATR with the levels `ib', `hbn'        *)
(* historical bytes (here 0) and a TCK that is right or wrong.             *)

IfPresent(v, some, none) == IF Present(v) THEN some ELSE none

\* A level as it is sent, and the bits that announce it.
BytesOf(l) == IfPresent(l.ta, <<l.ta>>, <<>>) \o IfPresent(l.tb, <<l.tb>>, <<>>)
              \o IfPresent(l.tc, <<l.tc>>, <<>>) \o IfPresent(l.td, <<l.td>>, <<>>)
PresenceBits(l) == IfPresent(l.ta, 16, 0) + IfPresent(l.tb, 32, 0)
                   + IfPresent(l.tc, 64, 0) + IfPresent(l.td, 128, 0)

\* What a card may have: no more levels than the driver keeps, each but the last with
\* a TDi; these name protocols in ascending order; no IFSC of 0.
MaybeByte == {Absent} \cup 0..255
IsoLevels(ib) ==
    /\ Len(ib) \in 1..MaxProtocols
    /\ ib \in Seq([ta: MaybeByte, tb: MaybeByte, tc: MaybeByte, td: {Absent} \cup 0..15])
    /\ \A i \in 1..Len(ib) : Present(ib[i].td) <=> i < Len(ib)
    /\ \A i, j \in 1..Len(ib) - 1 : i < j => ib[i].td <= ib[j].td
    /\ \A i \in 3..Len(ib) : ib[i - 1].td = 1 => ib[i].ta # 0

\* The levels a card sends: each TDi, given as the protocol it names, also says
\* which bytes the next level has.
Complete(ib) ==
    [i \in 1..Len(ib) |->
       IF Present(ib[i].td) THEN [ib[i] EXCEPT !.td = @ + PresenceBits(ib[i + 1])] ELSE ib[i]]

\* T=0 alone has no TCK.
NeedsTCK(ib) == \E i \in 1..Len(ib) : Present(ib[i].td) /\ ib[i].td # 0

\* `ib' names a protocol with each level that has another after it.
Encode(ts, ib, hbn) ==
    <<ts, hbn + PresenceBits(ib[1])>>
    \o FlattenSeq([i \in 1..Len(ib) |-> BytesOf(Complete(ib)[i])])
    \o [i \in 1..hbn |-> 0]
    \o (IF NeedsTCK(ib) THEN <<0>> ELSE <<>>)
=============================================================================
