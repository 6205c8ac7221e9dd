------------------------- MODULE PsamSessionProofs --------------------------
(***************************************************************************)
(* Proofs about PsamSession: no reader is left open by a session that does *)
(* not know it, a T=1 context is used only with the activation of the card *)
(* it was made for, and no block is read from beyond the data.             *)
(***************************************************************************)
EXTENDS PsamSession, TLAPS

Labels == {"idle", "create", "presence", "powerup", "params", "enable", "data"}

\* The steps that talk to a reader that has been found open.
Talking == {"powerup", "params", "enable", "data"}

\* The slot: the power flags tell whether the T=1 context was initialised, and
\* a context exists only in an open channel in which a card was seen.
SlotOK ==
    /\ pc \in Labels /\ t1 \in {"zero", "ready", "dead"}
    /\ bPowerFlags = (IF t1 = "zero" THEN {} ELSE {"PUP"})
    /\ t1 # "zero" => channel /\ is_card_presence
    /\ channel => is_reader_init
    /\ pc \in Talking => channel /\ is_card_presence
    /\ pc = "create" => ~is_reader_init
    /\ pc = "powerup" => t1 = "zero"
    /\ pc = "params" => t1 # "zero"

\* The card: a context that exists belongs to the activation of the card, if
\* that is active; and it is, unless it was removed since the presence check.
CardOK ==
    /\ card \in {"absent", "inactive", "active"}
    /\ t1 # "zero" /\ card = "active" => fresh
    /\ pc \in Talking /\ t1 # "zero" /\ ~moved => card = "active"

IInv == SlotOK /\ CardOK

\* The step of pc at the end of a block stays among the labels.
LEMMA EndBlockLabel ==
    ASSUME NEW r, NEW fails, EndBlock(r, fails)
    PROVE  pc' \in {"idle", "presence", "create"} /\ (pc' = "create" => ~is_reader_init')
BY DEF EndBlock, CheckPresence

\* IInv holds in the initial states.
LEMMA InitOK == Init => IInv
BY DEF Init, IInv, SlotOK, CardOK, Labels, Talking

\* Closing a channel leaves the slot clear and no channel.
LEMMA CloseChannelClears ==
    ASSUME IInv, NEW fails, CloseChannel(fails)
    PROVE  ~channel' /\ bPowerFlags' = {} /\ t1' = "zero"
           /\ card' \in {"absent", "inactive", "active"}
BY DEF IInv, SlotOK, CardOK, CloseChannel, CmdPowerOff, CardOff, FreeChannel, slotVars, cardVars

\* Every step preserves IInv.
LEMMA StepOK == IInv /\ [Next]_vars => IInv'
<1> SUFFICES ASSUME IInv, [Next]_vars PROVE IInv'
    OBVIOUS
<1> USE DEF IInv
<1>1. CASE Decrypt
    BY <1>1 DEF Decrypt, SlotOK, CardOK, Labels, Talking, CheckPresence,
                flagVars, slotVars, cardVars
<1>2. CASE Create
    <2>1. CASE ~channel /\ channel' = TRUE /\ is_reader_init' = TRUE /\ Goto("presence", FALSE)
        BY <1>2, <2>1 DEF Create, Goto, SlotOK, CardOK, Labels, Talking, cardVars
    <2>2. CASE /\ UNCHANGED <<channel, is_reader_init, decrypted>>
               /\ \E fails \in BOOLEAN : (fails \/ channel) /\ EndBlock(-2, fails)
        <3>1. pc' \in {"idle", "presence", "create"} /\ (pc' = "create" => ~is_reader_init')
            BY <2>2, EndBlockLabel
        <3>2. QED
            BY <1>2, <2>2, <3>1 DEF Create, SlotOK, CardOK, Labels, Talking, cardVars
    <2>3. QED BY <1>2, <2>1, <2>2 DEF Create
<1>3. CASE FindCard
    <2>1. SlotOK /\ CardOK /\ channel /\ Present /\ is_card_presence'
        BY <1>3 DEF FindCard
    <2>2. UNCHANGED <<is_reader_init, channel, bPowerFlags, t1, card, fresh>>
        BY <1>3 DEF FindCard, slotVars
    <2>3. pc' = IF is_card_presence THEN "enable" ELSE "powerup"
        BY <1>3 DEF FindCard, Goto
    <2>4. t1 # "zero" => card = "active"
        BY <2>1 DEF Present, Swapped, SlotOK, CardOK
    <2>5. SlotOK'
        <3>1. pc' = "powerup" => t1 = "zero"
            BY <2>1, <2>3 DEF SlotOK
        <3>2. pc' \in {"enable", "powerup"}
            BY <2>3
        <3>3. QED
            BY <2>1, <2>2, <3>1, <3>2 DEF SlotOK, Labels, Talking
    <2>6. CardOK'
        BY <2>1, <2>2, <2>4 DEF CardOK
    <2>7. QED BY <2>5, <2>6
<1>4. CASE MissCard
    <2>1. PICK fails \in BOOLEAN : CloseChannel(fails) /\ EndBlock(-2, fails)
        BY <1>4 DEF MissCard
    <2>2. pc' \in {"idle", "presence", "create"} /\ (pc' = "create" => ~is_reader_init')
        BY <2>1, EndBlockLabel
    <2>3. QED
        BY <2>1, <2>2, CloseChannelClears DEF SlotOK, CardOK, Labels, Talking
<1>5. CASE PowerUp
    BY <1>5 DEF PowerUp, Goto, SlotOK, CardOK, Labels, Talking, flagVars
<1>6. CASE PowerUpFails
    BY <1>6 DEF PowerUpFails, Goto, SlotOK, CardOK, Labels, Talking, flagVars, slotVars
<1>7. CASE SetParameters
    BY <1>7 DEF SetParameters, Goto, SlotOK, CardOK, Labels, Talking, flagVars, cardVars
<1>8. ASSUME NEW r \in {0, -4, -5}, Answered(r) PROVE IInv'
    <2>1. pc' = "data" \/ (pc' \in {"idle", "presence", "create"} /\ (pc' = "create" => ~is_reader_init'))
        BY <1>8, EndBlockLabel DEF Answered, Goto
    <2>2. QED
        BY <1>8, <2>1 DEF Answered, SlotOK, CardOK, Labels, Talking, flagVars, slotVars, cardVars
<1>9. CASE ExchangeFails
    <2>1. pc' \in {"idle", "presence", "create"} /\ (pc' = "create" => ~is_reader_init')
        BY <1>9, EndBlockLabel DEF ExchangeFails
    <2>2. QED
        BY <1>9, <2>1 DEF ExchangeFails, SlotOK, CardOK, Labels, Talking, flagVars, cardVars
<1>10. CASE Refused
    <2>1. pc' \in {"idle", "presence", "create"} /\ (pc' = "create" => ~is_reader_init')
        BY <1>10, EndBlockLabel DEF Refused
    <2>2. QED
        BY <1>10, <2>1 DEF Refused, SlotOK, CardOK, Labels, Talking, flagVars, slotVars, cardVars
<1>11. CASE Crash \/ Kill \/ PowerUpRefused
    BY <1>11 DEF Crash, Kill, PowerUpRefused, ProcessDies, FreeChannel, SlotOK, CardOK, Labels, Talking
<1>12. CASE Close
    <2>1. \E fails \in BOOLEAN : CloseChannel(fails)
        BY <1>12 DEF Close
    <2>2. QED
        BY <1>12, <2>1, CloseChannelClears DEF Close, SlotOK, CardOK, Labels, Talking, flagVars
<1>13. CASE Remove \/ Insert
    BY <1>13 DEF Remove, Insert, SlotOK, CardOK, Labels, Talking, flagVars, slotVars
<1>14. CASE UNCHANGED vars
    BY <1>14 DEF vars, SlotOK, CardOK, flagVars, slotVars, cardVars
<1>15. QED
    BY <1>1, <1>2, <1>3, <1>4, <1>5, <1>6, <1>7, <1>8, <1>9, <1>10, <1>11, <1>12, <1>13, <1>14
    DEF Next

\* IInv is an invariant of the session, whatever the lengths of the data.
THEOREM SessionInvariance == Spec => []IInv
<1>1. QED BY InitOK, StepOK, PTL DEF Spec

\* A reader left open is known to the session (check_card_presence,
\* cainiao_disable_crypto): it is never lost to the sessions that follow.
THEOREM NoReaderLeaked == Spec => []ChannelOwned
<1>1. IInv => ChannelOwned
    BY DEF IInv, SlotOK, ChannelOwned
<1>2. QED BY <1>1, SessionInvariance, PTL

\* A T=1 context is used only with the card activation it was made for, unless
\* the card is removed under the very call (IFDHICCPresence's power flags).
THEOREM ContextIsFresh == Spec => []FreshContext
<1>1. IInv => FreshContext
    BY DEF IInv, SlotOK, CardOK, FreshContext, Talking
<1>2. QED BY <1>1, SessionInvariance, PTL

-----------------------------------------------------------------------------
(* Types, and the place of the block in the data                           *)

\* The parts of TypeOK that a step of the session changes together.
SlotTypes ==
    /\ is_reader_init \in BOOLEAN /\ is_card_presence \in BOOLEAN
    /\ channel \in BOOLEAN /\ bPowerFlags \subseteq {"PUP", "PDWN"}
    /\ t1 \in {"zero", "ready", "dead"}
CardTypes  == card \in {"absent", "inactive", "active"} /\ calm \in -1..2
BlockTypes ==
    /\ pc \in Labels /\ i \in Nat /\ len \in Nat
    /\ pc # "idle" => i + 8 <= 8 * len

TypeInv == SlotTypes /\ CardTypes /\ BlockTypes

\* The bound of the loop counts blocks and its step bytes, so it stops too early,
\* but never too late.
LEMMA NextBlockFits ==
    ASSUME BlockTypes, CardTypes, NEW r, NEW fails \in BOOLEAN, EndBlock(r, fails)
    PROVE  BlockTypes' /\ calm' \in -1..2
<1>1. i' = i + 8 /\ len' = len /\ i \in Nat /\ len \in Nat
    BY DEF EndBlock, BlockTypes
<1>2. pc' \in Labels /\ (pc' # "idle" => i + 8 < len)
    BY <1>1 DEF EndBlock, CheckPresence, More, Labels
<1>3. pc' # "idle" => i' + 8 <= 8 * len'
    BY <1>1, <1>2
<1>4. calm' \in -1..2
    BY DEF EndBlock, CardTypes
<1>5. QED BY <1>1, <1>2, <1>3, <1>4 DEF BlockTypes

LEMMA TypeStep == TypeInv /\ [Next]_vars => TypeInv'
<1> SUFFICES ASSUME TypeInv, [Next]_vars PROVE TypeInv'
    OBVIOUS
<1>1. SlotTypes /\ CardTypes /\ BlockTypes
    BY DEF TypeInv
<1>2. SlotTypes' /\ card' \in {"absent", "inactive", "active"}
    BY <1>1 DEF SlotTypes, CardTypes, Next, vars, flagVars, slotVars, cardVars, Decrypt, Create,
        FindCard, MissCard, Forget, CloseChannel, CmdPowerOff, CardOff, FreeChannel, PowerUp,
        PowerUpFails, PowerUpRefused, SetParameters, Answered, ExchangeFails, Refused, Crash,
        ProcessDies, Close, Remove, Insert, Kill
<1>3. BlockTypes' /\ calm' \in -1..2
    <2> USE <1>1
    <2>1. CASE \E r \in {0, -2, -3, -4, -5}, fails \in BOOLEAN : EndBlock(r, fails)
        BY <2>1, NextBlockFits
    <2>2. CASE pc # "idle" /\ \E label \in Labels, fails \in BOOLEAN : Goto(label, fails)
        BY <2>2 DEF Goto, blockVars, BlockTypes, CardTypes
    <2>3. CASE ProcessDies
        BY <2>3 DEF ProcessDies, BlockTypes, Labels
    <2>4. CASE Decrypt
        BY <2>4, BlocksAssumption DEF Decrypt, CheckPresence, BlockTypes, CardTypes, Labels
    <2>5. CASE UNCHANGED <<pc, i, len>> /\ calm' \in {calm, 0, -1}
        BY <2>5 DEF BlockTypes, CardTypes
    <2>6. CASE Create \/ FindCard \/ MissCard
        BY <2>6, <2>1, <2>2 DEF Create, FindCard, MissCard, Labels
    <2>7. CASE PowerUp \/ PowerUpFails \/ PowerUpRefused \/ SetParameters
        BY <2>7, <2>2, <2>3 DEF PowerUp, PowerUpFails, PowerUpRefused, SetParameters, Labels
    <2>8. CASE \E r \in {0, -4, -5} : Answered(r)
        BY <2>8, <2>1, <2>2 DEF Answered, Labels
    <2>9. CASE ExchangeFails \/ Refused \/ Crash
        BY <2>9, <2>1, <2>3 DEF ExchangeFails, Refused, Crash
    <2>10. CASE Close \/ Remove \/ Insert \/ Kill
        BY <2>10, <2>3, <2>5 DEF Close, Remove, Insert, Kill, Disturbed, blockVars
    <2>11. CASE UNCHANGED vars
        BY <2>11, <2>5 DEF vars, blockVars
    <2>12. QED BY <2>4, <2>6, <2>7, <2>8, <2>9, <2>10, <2>11 DEF Next
<1>4. QED BY <1>2, <1>3 DEF TypeInv, CardTypes

\* cainiao_data_decrypt: whatever fails and whatever the lengths of the data, the
\* variables keep their types, and the block at i lies inside the data, though the
\* loop mixes up blocks and bytes.
THEOREM SessionTypes == Spec => []TypeOK
<1>1. Init => TypeInv
    <2>1. Init => SlotTypes
        BY DEF Init, SlotTypes
    <2>2. Init => CardTypes
        <3>1. 0 \in -1..2
            OBVIOUS
        <3>2. QED BY <3>1, Zenon DEF Init, CardTypes
    <2>3. Init => BlockTypes
        <3>1. 0 \in Nat
            OBVIOUS
        <3>2. QED BY <3>1, Zenon DEF Init, BlockTypes, Labels
    <2>4. QED BY <2>1, <2>2, <2>3 DEF TypeInv
<1>2. TypeInv => TypeOK
    BY DEF TypeInv, SlotTypes, CardTypes, BlockTypes, Labels, TypeOK
<1>3. QED BY <1>1, <1>2, TypeStep, PTL DEF Spec

-----------------------------------------------------------------------------
(* The second block after a disturbance                                    *)

\* What a block that was not disturbed leaves behind: the session works, or it
\* has been closed and will be opened anew; in between the reader is open and
\* its card not yet looked at.
Working == is_reader_init /\ is_card_presence /\ channel /\ card = "active" /\ fresh /\ t1 # "zero"
Closed  == ~is_reader_init /\ ~is_card_presence
Opened  == is_reader_init /\ ~is_card_presence /\ channel

\* A block that has not been disturbed since its presence check works with the
\* card that was found.
FoundOK ==
    calm \in {0, 1, 2} /\ pc \in Talking =>
        /\ ~moved
        /\ card \in {"inactive", "active"}
        /\ pc = "params" => Working

\* From the second block on the first one has left a session that works, or none.
SettledOK ==
    calm \in {1, 2} =>
        /\ pc = "idle" => Working \/ Closed
        /\ pc = "create" => Closed
        /\ pc = "presence" => Working \/ Opened
        /\ pc = "powerup" => channel /\ is_reader_init
        /\ pc \in {"params", "enable", "data"} => Working

CalmInv ==
    /\ calm \in {-1, 0, 1, 2}
    /\ pc = "idle" => calm # -1
    /\ FoundOK
    /\ SettledOK
    /\ SecondSucceeds

\* EndBlock counts the blocks that nothing disturbed.
LEMMA EndBlockCounts ==
    ASSUME calm \in {-1, 0, 1, 2}, NEW r, NEW fails \in BOOLEAN, EndBlock(r, fails)
    PROVE  /\ ret' = r
           /\ pc' \in {"idle", "presence", "create"}
           /\ pc' = "create" => ~is_reader_init'
           /\ pc' = "presence" => is_reader_init'
           /\ calm' \in {0, 1, 2}
           /\ calm' # 0 => ~fails /\ calm \in {0, 1, 2}
           /\ calm' = 2 => calm \in {1, 2}
<1>1. calm' = IF fails \/ calm < 0 THEN 0 ELSE IF calm = 2 THEN 2 ELSE calm + 1
    BY DEF EndBlock
<1>2. calm' \in {0, 1, 2} /\ (calm' = 2 => calm \in {1, 2})
    <2>1. CASE fails \/ calm < 0
        BY <2>1, <1>1
    <2>2. CASE ~(fails \/ calm < 0) /\ calm = 2
        BY <2>2, <1>1
    <2>3. CASE ~(fails \/ calm < 0) /\ calm # 2
        <3>1. calm' = calm + 1 /\ calm \in {0, 1}
            BY <2>3, <1>1
        <3>2. QED BY <3>1
    <2>4. QED BY <2>1, <2>2, <2>3
<1>3. calm' # 0 => ~fails /\ calm \in {0, 1, 2}
    BY <1>1
<1>4. QED BY <1>2, <1>3 DEF EndBlock, CheckPresence

\* A block that ends calmly, when what it leaves behind works or is closed, and
\* has not failed for the transmission where it is the second.
LEMMA EndsCalm ==
    ASSUME CalmInv, NEW r, NEW fails \in BOOLEAN, EndBlock(r, fails),
           ~fails /\ calm \in {0, 1, 2} =>
              /\ Working' \/ Closed'
              /\ calm \in {1, 2} /\ card' # "absent" /\ t1' # "dead" => r \notin {-2, -3}
    PROVE  CalmInv'
<1>1. calm \in {-1, 0, 1, 2}
    BY DEF CalmInv
<1>2. /\ ret' = r /\ pc' \in {"idle", "presence", "create"}
      /\ pc' = "create" => ~is_reader_init'
      /\ pc' = "presence" => is_reader_init'
      /\ calm' \in {0, 1, 2}
      /\ calm' # 0 => ~fails /\ calm \in {0, 1, 2}
      /\ calm' = 2 => calm \in {1, 2}
    BY <1>1, EndBlockCounts
<1>3. FoundOK'
    BY <1>2, Zenon DEF FoundOK, Talking
<1>4. SettledOK'
    <2>1. SUFFICES ASSUME calm' \in {1, 2} PROVE SettledOK'
        BY DEF SettledOK
    <2>2. calm' # 0
        BY <2>1
    <2>3. Working' \/ Closed'
        BY <2>2, <1>2
    <2>4. QED BY <1>2, <2>3 DEF SettledOK, Working, Closed
<1>5. SecondSucceeds'
    <2>1. SUFFICES ASSUME calm' = 2, card' # "absent", t1' # "dead" PROVE ret' \notin {-2, -3}
        BY DEF SecondSucceeds
    <2>2. calm' # 0
        BY <2>1
    <2>3. calm \in {1, 2} /\ ~fails /\ calm \in {0, 1, 2}
        BY <2>1, <2>2, <1>2
    <2>4. QED BY <2>1, <2>3, <1>2
<1>6. calm' \in {-1, 0, 1, 2} /\ (pc' = "idle" => calm' # -1)
    BY <1>2
<1>7. QED BY <1>3, <1>4, <1>5, <1>6 DEF CalmInv

\* The next exchange of a block.
LEMMA GoesOnCalm ==
    ASSUME CalmInv, NEW label \in Labels \ {"idle"}, NEW fails \in BOOLEAN, Goto(label, fails),
           ~fails => /\ (calm \in {0, 1, 2} => FoundOK')
                     /\ (calm \in {1, 2} => SettledOK')
    PROVE  CalmInv'
<1>1. pc' # "idle" /\ calm' \in {-1, calm} /\ (calm' # -1 => ~fails /\ calm' = calm)
    BY DEF Goto, Labels
<1>2. calm \in {-1, 0, 1, 2}
    BY DEF CalmInv
<1>3. FoundOK'
    <2>1. CASE calm' = -1
        BY <2>1 DEF FoundOK
    <2>2. CASE calm' # -1
        BY <2>2, <1>1, <1>2
    <2>3. QED BY <2>1, <2>2
<1>4. SettledOK'
    <2>1. CASE calm' \in {1, 2}
        BY <2>1, <1>1
    <2>2. CASE calm' \notin {1, 2}
        BY <2>2 DEF SettledOK
    <2>3. QED BY <2>1, <2>2
<1>5. QED BY <1>1, <1>2, <1>3, <1>4 DEF CalmInv, SecondSucceeds

\* After a disturbance nothing is claimed.
LEMMA DisturbedCalm ==
    ASSUME calm' \in {-1, 0}, pc' = "idle" => calm' = 0, calm' = 0 => pc' = "idle"
    PROVE  CalmInv'
<1>1. calm' \in {-1, 0, 1, 2} /\ calm' \notin {1, 2} /\ calm' # 2 /\ (pc' = "idle" => calm' # -1)
    OBVIOUS
<1>2. FoundOK'
    BY DEF FoundOK, Talking
<1>3. SettledOK' /\ SecondSucceeds'
    BY <1>1 DEF SettledOK, SecondSucceeds
<1>4. QED BY <1>1, <1>2, <1>3 DEF CalmInv

LEMMA CalmStep == IInv /\ CalmInv /\ [Next]_vars => CalmInv'
<1> SUFFICES ASSUME IInv, CalmInv, [Next]_vars PROVE CalmInv'
    OBVIOUS
<1>0. SlotOK /\ CardOK /\ FoundOK /\ SettledOK /\ SecondSucceeds
      /\ calm \in {-1, 0, 1, 2} /\ (pc = "idle" => calm # -1)
    BY DEF IInv, CalmInv
<1>1. CASE Decrypt
    <2>1. calm' = calm /\ ret' = 0 /\ pc = "idle" /\ pc' \in {"idle", "presence", "create"}
        BY <1>1 DEF Decrypt, CheckPresence
    <2>2. pc' # "idle" => pc' = IF is_reader_init THEN "presence" ELSE "create"
        BY <1>1 DEF Decrypt, CheckPresence, flagVars
    <2>3. FoundOK' /\ SecondSucceeds' /\ calm' # -1
        BY <1>0, <2>1 DEF FoundOK, SecondSucceeds, Talking
    <2>4. UNCHANGED <<is_reader_init, is_card_presence, channel, card, fresh, t1>>
        BY <1>1 DEF Decrypt, flagVars, slotVars, cardVars
    <2>5. SettledOK'
        BY <1>0, <2>1, <2>2, <2>4 DEF SettledOK, Working, Closed
    <2>6. QED BY <1>0, <2>1, <2>3, <2>5 DEF CalmInv
<1>2. CASE Create
    <2>1. CASE ~channel /\ channel' = TRUE /\ is_reader_init' = TRUE /\ Goto("presence", FALSE)
        <3>1. FoundOK'
            BY <2>1 DEF Goto, FoundOK, Talking
        <3>2. calm \in {1, 2} => SettledOK'
            BY <1>2, <2>1, <1>0 DEF Create, Goto, SettledOK, Closed, Opened
        <3>3. QED BY <2>1, <3>1, <3>2, GoesOnCalm DEF Labels
    <2>2. ASSUME UNCHANGED <<channel, is_reader_init, decrypted>>,
                 NEW fails \in BOOLEAN, (fails \/ channel) /\ EndBlock(-2, fails)
          PROVE  CalmInv'
        <3>1. fails
            BY <1>2, <2>2, <1>0 DEF Create, SlotOK
        <3>2. QED BY <2>2, <3>1, EndsCalm
    <2>3. QED BY <1>2, <2>1, <2>2 DEF Create
<1>3. CASE FindCard
    <2>1. pc' = (IF is_card_presence THEN "enable" ELSE "powerup") /\ Goto(pc', FALSE)
        BY <1>3 DEF FindCard, Goto
    <2>2. /\ moved' = FALSE /\ is_card_presence' /\ channel /\ card # "absent"
          /\ UNCHANGED <<is_reader_init, channel, t1, card, fresh>>
        BY <1>3 DEF FindCard, Present, slotVars
    <2>3. FoundOK'
        BY <1>0, <2>1, <2>2 DEF FoundOK, CardOK
    <2>4. calm \in {1, 2} => SettledOK'
        BY <1>0, <1>3, <2>1, <2>2 DEF FindCard, SettledOK, SlotOK, Working, Opened
    <2>5. QED BY <2>1, <2>3, <2>4, GoesOnCalm DEF Labels
<1>4. CASE MissCard
    <2>1. PICK fails \in BOOLEAN :
            /\ IF channel THEN fails \/ ~Present ELSE ~fails
            /\ CloseChannel(fails) /\ EndBlock(-2, fails)
        BY <1>4 DEF MissCard
    <2>2. Closed' /\ pc = "presence"
        BY <1>4 DEF MissCard, Forget, Closed
    <2>3. ASSUME ~fails, calm \in {1, 2} PROVE card' = "absent"
        <3>1. channel /\ ~Present
            BY <1>0, <2>1, <2>2, <2>3 DEF SettledOK, Working, Opened
        <3>2. card = "absent"
            BY <1>0, <2>2, <2>3, <3>1 DEF SettledOK, Working, Opened, SlotOK, Present, Swapped
        <3>3. QED BY <2>1, <3>2 DEF CloseChannel, CmdPowerOff, CardOff, cardVars
    <2>4. QED BY <2>1, <2>2, <2>3, EndsCalm
<1>5. CASE PowerUp
    <2>1. Goto("params", FALSE) /\ pc = "powerup" /\ is_reader_init' /\ Working'
          /\ moved' = moved /\ card' = "active"
        BY <1>5, <1>0 DEF PowerUp, SlotOK, Talking, Working, flagVars
    <2>2. calm \in {0, 1, 2} => FoundOK'
        BY <1>0, <2>1 DEF FoundOK, Talking
    <2>3. calm \in {1, 2} => SettledOK'
        BY <2>1 DEF SettledOK, Goto
    <2>4. QED BY <2>1, <2>2, <2>3, GoesOnCalm DEF Labels
<1>6. CASE PowerUpFails
    BY <1>6, GoesOnCalm DEF PowerUpFails, Labels
<1>7. CASE SetParameters
    <2>1. CASE card = "active" /\ UNCHANGED t1 /\ Goto("enable", FALSE)
        <3>1. /\ pc = "params" /\ pc' = "enable" /\ calm' = calm
              /\ UNCHANGED <<is_reader_init, is_card_presence, channel, card, fresh, t1, moved>>
            BY <1>7, <2>1 DEF SetParameters, Goto, flagVars, cardVars
        <3>2. calm \in {0, 1, 2} => FoundOK'
            BY <1>0, <2>1, <3>1 DEF FoundOK, Talking
        <3>3. calm \in {1, 2} => SettledOK'
            BY <1>0, <3>1 DEF SettledOK, Working
        <3>4. QED BY <2>1, <3>2, <3>3, GoesOnCalm DEF Labels
    <2>2. CASE Goto("enable", TRUE)
        BY <2>2, GoesOnCalm DEF Labels
    <2>3. QED BY <1>7, <2>1, <2>2 DEF SetParameters
<1>8. ASSUME NEW r \in {0, -4, -5}, Answered(r) PROVE CalmInv'
    <2>1. /\ pc \in {"enable", "data"} /\ t1 = "ready" /\ card = "active" /\ fresh
          /\ UNCHANGED <<is_reader_init, is_card_presence, channel, card, fresh, t1, moved>>
        BY <1>8 DEF Answered, flagVars, slotVars, cardVars
    <2>2. Working /\ Working'
        BY <1>0, <2>1 DEF SlotOK, Talking, Working
    <2>3. CASE EndBlock(r, FALSE)
        <3>1. r \notin {-2, -3}
            OBVIOUS
        <3>2. QED BY <2>2, <2>3, <3>1, EndsCalm
    <2>4. CASE Goto("data", FALSE)
        <3>1. calm \in {0, 1, 2} => FoundOK'
            BY <1>0, <2>1, <2>2, <2>4 DEF FoundOK, Talking, Goto
        <3>2. calm \in {1, 2} => SettledOK'
            BY <2>2, <2>4 DEF SettledOK, Goto
        <3>3. QED BY <2>4, <3>1, <3>2, GoesOnCalm DEF Labels
    <2>5. QED BY <1>8, <2>3, <2>4 DEF Answered
<1>9. CASE ExchangeFails
    <2>1. PICK fails \in BOOLEAN : (fails \/ card # "active" \/ ~fresh) /\ EndBlock(-3, fails)
        BY <1>9 DEF ExchangeFails
    <2>2. calm \in {0, 1, 2} => fails
        BY <1>0, <1>9, <2>1 DEF ExchangeFails, FoundOK, CardOK, Talking
    <2>3. QED BY <2>1, <2>2, EndsCalm
<1>10. CASE Refused
    <2>1. /\ pc \in {"enable", "data"} /\ t1 = "dead" /\ EndBlock(-3, FALSE)
          /\ UNCHANGED <<is_reader_init, is_card_presence, channel, card, fresh, t1>>
        BY <1>10 DEF Refused, flagVars, slotVars, cardVars
    <2>2. calm \in {0, 1, 2} => Working'
        BY <1>0, <2>1 DEF FoundOK, CardOK, SlotOK, Talking, Working
    <2>3. QED BY <2>1, <2>2, EndsCalm
<1>11. CASE Crash \/ Kill \/ PowerUpRefused
    BY <1>11, DisturbedCalm DEF Crash, Kill, PowerUpRefused, ProcessDies
<1>12. CASE Close
    BY <1>12, DisturbedCalm DEF Close
<1>13. CASE Remove \/ Insert
    BY <1>13, DisturbedCalm DEF Remove, Insert, Disturbed
<1>14. CASE UNCHANGED vars
    <2>1. FoundOK' /\ SettledOK'
        BY <1>0, <1>14 DEF vars, flagVars, slotVars, cardVars, FoundOK, SettledOK, Working, Closed, Opened
    <2>2. SecondSucceeds' /\ calm' = calm /\ pc' = pc
        BY <1>0, <1>14 DEF vars, slotVars, blockVars, cardVars, SecondSucceeds
    <2>3. QED BY <1>0, <2>1, <2>2 DEF CalmInv
<1>15. QED
    BY <1>1, <1>2, <1>3, <1>4, <1>5, <1>6, <1>7, <1>8, <1>9, <1>10, <1>11, <1>12, <1>13, <1>14
    DEF Next

\* check_card_presence and cainiao_data_decrypt: whatever is removed, inserted,
\* closed or killed, and whatever fails, one block may be lost for it; the next
\* one that is left alone is not lost for the transmission, with the card in its
\* slot and a T=1 context that lives.  What the card answers (-4, -5) is left open.
THEOREM SecondBlockSucceeds == Spec => []SecondSucceeds
<1>1. Init => CalmInv
    <2>1. Init => calm = 0 /\ pc = "idle"
        BY DEF Init
    <2>2. Init => calm \in {-1, 0, 1, 2} /\ calm # -1 /\ calm \notin {1, 2} /\ calm # 2
        BY <2>1
    <2>3. QED BY <2>1, <2>2 DEF CalmInv, FoundOK, SettledOK, SecondSucceeds, Talking
<1>2. CalmInv => SecondSucceeds
    BY DEF CalmInv
<1>3. QED BY <1>1, <1>2, CalmStep, SessionInvariance, PTL DEF Spec

=============================================================================
