----------------------------- MODULE PsamSession -----------------------------
(***************************************************************************)
(* The session between the application and the card in the PSAM slot:      *)
(* SCTool.decrypt and SCTool.close (cainiao_crypto.c) and the functions of *)
(* the IFD handler they call (ifdhandler.c).                               *)
(*                                                                         *)
(* Both are called on the user interface thread, so calls never overlap;   *)
(* but the card comes and goes between any two exchanges with the reader,  *)
(* exchanges fail, and the process may be killed.  A step is one exchange  *)
(* with the reader and the code up to the next.  The T=1 exchange itself   *)
(* is module T1Transceive; here it succeeds or fails as a whole.           *)
(***************************************************************************)
EXTENDS Integers

CONSTANT Blocks     \* lengths of the data to decrypt, in blocks of 8 bytes

ASSUME BlocksAssumption == Blocks \subseteq Nat

VARIABLES
    is_reader_init, is_card_presence,
    channel,    \* the reader has an index and its port is open
    bPowerFlags,
    t1,         \* the T=1 context: "zero" (never initialised), "ready", "dead"
    \* the call of cainiao_data_decrypt in progress, or the last one
    pc, len, i, ret,
    de_len,
    decrypted,  \* the offsets whose block has been written to de_data
    \* the card, and what the properties need to know of the past
    card,       \* "absent", "inactive", "active"
    fresh,      \* the T=1 context was initialised for this activation
    moved,      \* the card was removed since this block's presence check
    calm        \* blocks processed since the last disturbance or close, up to 2;
                \* -1 if there was one while the block in progress is processed

flagVars  == <<is_reader_init, is_card_presence>>
slotVars  == <<channel, bPowerFlags, t1>>
blockVars == <<len, i, ret, de_len, decrypted>>
cardVars  == <<card, fresh, moved>>
vars      == <<flagVars, slotVars, pc, blockVars, cardVars, calm>>

\* In ret: cainiao_data_decrypt did not return.
Crashed   == 1
Undefined == 2

Disturbed == calm' = IF pc = "idle" THEN 0 ELSE -1

-----------------------------------------------------------------------------
(* The IFD handler                                                         *)

\* FreeChannel clears the slot, the T=1 context included.
FreeChannel == channel' = FALSE /\ bPowerFlags' = {} /\ t1' = "zero"

\* CmdPowerOff: the card loses its power, unless the command is lost.
CardOff ==
    /\ card' = IF card = "absent" THEN "absent" ELSE "inactive"
    /\ fresh' = FALSE
    /\ UNCHANGED moved

CmdPowerOff(fails) == CardOff \/ (fails /\ UNCHANGED cardVars)

\* (Mutant of CloseChannel: it gives up when CmdPowerOff fails.)
CloseGivesUp(fails) ==
    \/ channel /\ CmdPowerOff(fails) /\ ~fails /\ FreeChannel
    \/ channel /\ CmdPowerOff(fails) /\ fails /\ UNCHANGED slotVars
    \/ ~channel /\ UNCHANGED <<slotVars, cardVars>>

\* IFDHPowerICC(IFD_POWER_DOWN) and IFDHCloseChannel: the results of the two
\* CmdPowerOff are not looked at.  Without a channel both return at once.
CloseChannel(fails) ==
    \/ channel /\ CmdPowerOff(fails) /\ FreeChannel
    \/ ~channel /\ UNCHANGED <<slotVars, cardVars>>

\* (Mutant of Swapped: the power flags are not looked at.)
SwapUnnoticed == FALSE

\* An inactive card that was powered up and not down: it has been removed and
\* one inserted since the last IFDHICCPresence.
Swapped == card = "inactive" /\ bPowerFlags # {} /\ "PDWN" \notin bPowerFlags

\* A good answer to GetSlotStatus means IFD_ICC_PRESENT.
Present == card # "absent" /\ ~Swapped

-----------------------------------------------------------------------------
(* The loop of cainiao_data_decrypt                                        *)

\* (Mutant of More: `i <= en_len'.)
MoreBytes(k) == k <= 8 * len

\* The bound of the loop is the number of blocks, its step that of bytes.
More(k) == k < len

\* check_card_presence first opens the reader if that has not been done.
CheckPresence == IF is_reader_init' THEN "presence" ELSE "create"

\* _decrypt returns r for the block at i, and with 0 the loop ends.
EndBlock(r, fails) ==
    /\ ret' = r /\ de_len' = de_len + 8 /\ i' = i + 8
    /\ pc' = IF r # 0 /\ More(i + 8) THEN CheckPresence ELSE "idle"
    /\ calm' = IF fails \/ calm < 0 THEN 0 ELSE IF calm = 2 THEN 2 ELSE calm + 1
    /\ UNCHANGED len

\* The next exchange for the same block.
Goto(label, fails) ==
    /\ pc' = label
    /\ calm' = IF fails THEN -1 ELSE calm
    /\ UNCHANGED blockVars

Decrypt ==
    /\ pc = "idle"
    /\ \E n \in Blocks : len' = n
    /\ i' = 0 /\ de_len' = 0 /\ decrypted' = {} /\ ret' = 0
    /\ UNCHANGED <<flagVars, slotVars, cardVars, calm>>
    /\ pc' = IF 0 < len' THEN CheckPresence ELSE "idle"

\* IFDHCreateChannelByName.  When it fails, because the index is taken ("Lun:
\* %d is already used") or the reader does not answer, whatever was opened is
\* closed again and check_card_presence returns 0.
Create ==
    /\ pc = "create"
    /\ UNCHANGED <<is_card_presence, bPowerFlags, t1, cardVars>>
    /\ \/ /\ ~channel
          /\ channel' = TRUE /\ is_reader_init' = TRUE
          /\ Goto("presence", FALSE)
       \/ /\ UNCHANGED <<channel, is_reader_init, decrypted>>
          /\ \E fails \in BOOLEAN : (fails \/ channel) /\ EndBlock(-2, fails)

\* IFDHICCPresence finds the card: one that is new is powered up.
FindCard ==
    /\ pc = "presence" /\ channel /\ Present
    /\ moved' = FALSE
    /\ is_card_presence' = TRUE
    /\ Goto(IF is_card_presence THEN "enable" ELSE "powerup", FALSE)
    /\ UNCHANGED <<is_reader_init, slotVars, card, fresh>>

\* (Mutant of Forget: is_reader_init is not reset.)
ForgetCard == is_card_presence' = FALSE /\ UNCHANGED is_reader_init

Forget == is_reader_init' = FALSE /\ is_card_presence' = FALSE

\* It does not, or fails: everything is closed.
MissCard ==
    /\ pc = "presence"
    /\ Forget
    /\ \E fails \in BOOLEAN :
         /\ IF channel THEN fails \/ ~Present ELSE ~fails
         /\ CloseChannel(fails)
         /\ EndBlock(-2, fails)
    /\ UNCHANGED decrypted

\* IFDHPowerICC(IFD_POWER_UP).
PowerUp ==
    /\ pc = "powerup" /\ card # "absent"
    /\ card' = "active" /\ fresh' = TRUE /\ t1' = "ready"
    /\ bPowerFlags' = (bPowerFlags \cup {"PUP"}) \ {"PDWN"}
    /\ Goto("params", FALSE)
    /\ UNCHANGED <<flagVars, channel, moved>>

\* The exchange fails, whether or not the card has been activated; the result
\* of IFDHPowerICC is not looked at, and without an ATR
\* IFDHSetProtocolParameters does nothing.
PowerUpFails ==
    /\ pc = "powerup"
    /\ card' \in {card, IF card = "absent" THEN "absent" ELSE "active"}
    /\ fresh' = FALSE
    /\ Goto("enable", TRUE)
    /\ UNCHANGED <<flagVars, slotVars, moved>>

\* IFDHSetProtocolParameters: t1_negotiate_ifsd succeeds, or fails, or is not
\* reached.  The result is not looked at.
SetParameters ==
    /\ pc = "params"
    /\ \/ card = "active" /\ UNCHANGED t1 /\ Goto("enable", FALSE)
       \/ t1' \in {"dead", t1} /\ Goto("enable", TRUE)
    /\ UNCHANGED <<flagVars, channel, bPowerFlags, cardVars>>

-----------------------------------------------------------------------------
(* _decrypt: the two commands                                              *)

\* A card that is active answers; r is 0, or the code for a refusal.
Answered(r) ==
    /\ t1 = "ready" /\ card = "active" /\ fresh
    /\ UNCHANGED <<flagVars, slotVars, cardVars>>
    /\ \/ /\ pc = "enable" /\ r = 0
          /\ Goto("data", FALSE)
       \/ /\ pc = "enable" /\ r = -4
          /\ EndBlock(r, FALSE) /\ UNCHANGED decrypted
       \/ /\ pc = "data" /\ r = 0
          /\ EndBlock(r, FALSE) /\ decrypted' = decrypted \cup {i}
       \/ /\ pc = "data" /\ r = -5
          /\ EndBlock(r, FALSE) /\ UNCHANGED decrypted

\* The exchange fails, for the card's sake or the line's: T1Transceive!Die.
\* A context that is not that of the card's activation fails, too.
ExchangeFails ==
    /\ pc \in {"enable", "data"}
    /\ t1 = "ready" /\ t1' = "dead"
    /\ UNCHANGED <<flagVars, channel, bPowerFlags, cardVars, decrypted>>
    /\ \E fails \in BOOLEAN :
         /\ fails \/ card # "active" \/ ~fresh
         /\ EndBlock(-3, fails)

\* T1Transceive!Refuse: "Reset the card first."
Refused ==
    /\ pc \in {"enable", "data"}
    /\ t1 = "dead"
    /\ UNCHANGED <<flagVars, slotVars, cardVars, decrypted>>
    /\ EndBlock(-3, FALSE)

\* What the process kept is gone; the reader keeps the card as it is.
ProcessDies ==
    /\ is_reader_init' = FALSE /\ is_card_presence' = FALSE
    /\ FreeChannel
    /\ pc' = "idle" /\ len' = 0 /\ i' = 0 /\ de_len' = 0 /\ decrypted' = {}
    /\ fresh' = FALSE /\ moved' = FALSE /\ calm' = 0
    /\ UNCHANGED card

\* t1_build calls the checksum of a context that was never initialised.
Crash ==
    /\ pc \in {"enable", "data"}
    /\ t1 = "zero"
    /\ ProcessDies /\ ret' = Crashed

Kill == ProcessDies /\ ret' = 0

\* When the reader answers that it cannot power the card up, CmdPowerOn goes on
\* with the next lower voltage, from -1 (module CcidCommands): either it asks
\* again, with no end, or it does not survive the read of voltage_code[-1].
PowerUpRefused ==
    /\ pc = "powerup"
    /\ ProcessDies /\ ret' = Undefined

-----------------------------------------------------------------------------

\* cainiao_disable_crypto: the flags stay set.  (Without is_reader_init there is
\* no channel to close.)
Close ==
    /\ pc = "idle"
    /\ \E fails \in BOOLEAN :
         /\ fails => channel
         /\ CloseChannel(fails)
    /\ calm' = 0
    /\ UNCHANGED <<flagVars, pc, blockVars>>

Remove ==
    /\ card # "absent"
    /\ card' = "absent" /\ fresh' = FALSE /\ moved' = TRUE
    /\ Disturbed
    /\ UNCHANGED <<flagVars, slotVars, pc, blockVars>>

Insert ==
    /\ card = "absent"
    /\ card' = "inactive"
    /\ Disturbed
    /\ UNCHANGED <<flagVars, slotVars, pc, blockVars, fresh, moved>>

Init ==
    /\ is_reader_init = FALSE /\ is_card_presence = FALSE
    /\ channel = FALSE /\ bPowerFlags = {} /\ t1 = "zero"
    /\ pc = "idle" /\ len = 0 /\ i = 0 /\ ret = 0 /\ de_len = 0 /\ decrypted = {}
    /\ card \in {"absent", "inactive"} /\ fresh = FALSE /\ moved = FALSE /\ calm = 0

Next ==
    \/ Decrypt \/ Create \/ FindCard \/ MissCard
    \/ PowerUp \/ PowerUpFails \/ PowerUpRefused \/ SetParameters
    \/ \E r \in {0, -4, -5} : Answered(r)
    \/ ExchangeFails \/ Refused \/ Crash
    \/ Close
    \/ Remove \/ Insert \/ Kill

Spec == Init /\ [][Next]_vars

-----------------------------------------------------------------------------
(* Properties                                                              *)

\* Every variable has its type, and the block at i lies inside the data.
TypeOK ==
    /\ is_reader_init \in BOOLEAN /\ is_card_presence \in BOOLEAN
    /\ channel \in BOOLEAN /\ bPowerFlags \subseteq {"PUP", "PDWN"}
    /\ t1 \in {"zero", "ready", "dead"}
    /\ pc \in {"idle", "create", "presence", "powerup", "params", "enable", "data"}
    /\ pc # "idle" => i + 8 <= 8 * len
    /\ card \in {"absent", "inactive", "active"}
    /\ calm \in -1..2

\* The reader is never left open by a session that does not know it: the next
\* one could not open it again ("Lun: %d is already used").
ChannelOwned == channel => is_reader_init

\* A T=1 context is used only with the activation of the card it was made for,
\* unless the card has been removed since the presence check of this block:
\* with a card that was swapped between two calls nothing is exchanged.
FreshContext ==
    pc \in {"enable", "data"} /\ t1 # "zero" /\ ~moved => card = "active" /\ fresh

\* After a disturbance, or SCTool.close, one block may fail; the second finds
\* the card and does not fail for the transmission, unless the T=1 context is
\* dead.  (Closing leaves the flags set, so the block after it does fail.)
SecondSucceeds ==
    pc = "idle" /\ calm = 2 /\ card # "absent" /\ t1 # "dead" => ret \notin {-2, -3}

\* A dead T=1 context does not outlive the call after the one that killed it.
\* Not so while the card stays in its slot: see README.
DeadIsReset == pc = "idle" /\ calm = 2 /\ card # "absent" => t1 # "dead"

\* A call that succeeds has decrypted every block it was given.
AllDecrypted ==
    pc = "idle" /\ ret = 0 => \A k \in 0..(len - 1) : 8 * k \in decrypted

=============================================================================
