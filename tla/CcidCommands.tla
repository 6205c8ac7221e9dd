---------------------------- MODULE CcidCommands ----------------------------
(***************************************************************************)
(* The CCID commands to the reader (commands.c), the functions of the IFD  *)
(* handler that send them (ifdhandler.c, OpenSerialByName, t1_xcv), and    *)
(* the read timeout of the reader, which they all share and change for the *)
(* time of a command.                                                      *)
(*                                                                         *)
(* A step is one exchange: a command written and an answer read, or the    *)
(* failure to read one (module SerialFrame).  Every answer is possible.    *)
(***************************************************************************)
EXTENDS Integers

CONSTANTS
    PowerOnVoltage,     \* -1 in ifdhandler.c
    BVoltageSupport,    \* the voltages the reader can do: 1 is 5V, 2 is 3V, 3 is 1.8V
    CardTimeouts,       \* what T1_card_timeout computes from the ATR
    Multipliers,        \* of time: in S(WTX request) and in time extensions
    BTimeOuts,          \* bTimeOut in a PIN_VERIFY_STRUCTURE or PIN_MODIFY_STRUCTURE
    MaxRefusals,        \* bound on the refusals to power up that follow each other
    MaxTimeout          \* bound: no t1_xcv starts with a larger readTimeout

\* readTimeout in ms
DEFAULT_COM_READ_TIMEOUT == 3000
OpenTimeout    == 2000
ProbeTimeout   == 100
PowerOnTimeout == 60000
VendorTimeout  == 30 * 1000
PseudoTimeout  == 90 * 1000

ASSUME CcidAssumption ==
    /\ PowerOnVoltage \in Int /\ BVoltageSupport \subseteq 1..3
    /\ CardTimeouts \subseteq Nat /\ Multipliers \subseteq Nat /\ BTimeOuts \subseteq 0..255
    /\ MaxRefusals \in Nat /\ MaxTimeout \in Nat

VARIABLES
    opened,             \* the channel exists
    exchange,           \* the exchange in progress, or "none"
    closing,            \* the power-off is that of IFDHCloseChannel
    result,             \* of the last function of the IFD handler
    voltage, init_voltage, refusals,
    readTimeout,
    oldReadTimeout,     \* saved by the function of the IFD handler, or for a WTX
    old_timeout,        \* saved by CmdEscape or CCID_Receive
    old_read_timeout,   \* saved by IFDHTransmitToICC, SecurePINVerify, SecurePINModify
    restore_timeout,    \* IFDHTransmitToICC is to set it back
    configured,         \* the timeout the reader or the card calls for
    leaked              \* who has left another timeout since then, or "none"

powerVars == <<voltage, init_voltage, refusals>>
outerVars == <<old_read_timeout, restore_timeout>>
savedVars == <<oldReadTimeout, old_timeout, outerVars>>
vars      == <<opened, exchange, closing, result, powerVars, readTimeout, savedVars,
               configured, leaked>>

Idle == exchange = "none"

-----------------------------------------------------------------------------
(* One exchange                                                            *)

\* What comes back: a good answer, one with CCID_TIME_EXTENSION, one with
\* CCID_COMMAND_FAILED; a NAK; or nothing that can be read.
Answers == {"ok", "extension", "failed", "nak", "nothing"}

\* Except in CmdEscape and CCID_Receive nobody looks at CCID_TIME_EXTENSION,
\* and a NAK is an error like others (CHECK_STATUS).
Succeeds(a) == a \in {"ok", "extension"}

Outcome(a) == IF Succeeds(a) THEN "IFD_SUCCESS" ELSE "IFD_COMMUNICATION_ERROR"

\* The function of the IFD handler goes on with another exchange, or returns.
Exchange(e) == exchange' = e /\ UNCHANGED result

\* (Mutant of Return: the loop goes round again.)
ReturnMissing(r) == UNCHANGED exchange /\ result' = r

Return(r) == exchange' = "none" /\ result' = r

\* readTimeout is changed for the time of a command, and back.
Change(t) == readTimeout' = t /\ oldReadTimeout' = readTimeout

\* (Mutant of SetBack: it is forgotten.)
SetBackForgotten == UNCHANGED readTimeout

SetBack == readTimeout' = oldReadTimeout

\* old_read_timeout is put back at the end of these three functions.
RestoreTimeout == readTimeout' = old_read_timeout

-----------------------------------------------------------------------------
(* CreateChannelByNameOrChannel                                            *)

\* set_ccid_descriptor sets the default timeout; then the first command to the
\* reader, CmdEscape with a timeout of its own.
Open ==
    /\ Idle /\ ~opened
    /\ opened' = TRUE
    /\ readTimeout' = OpenTimeout /\ old_timeout' = DEFAULT_COM_READ_TIMEOUT
    /\ configured' = DEFAULT_COM_READ_TIMEOUT /\ leaked' = "none"
    /\ Exchange("escape")
    /\ UNCHANGED <<closing, powerVars, oldReadTimeout, outerVars>>

\* The commands of CmdEscape: the first to the reader, that of the application,
\* the two of the driver's own, and that of an MCT command.  The first two have a
\* timeout of their own.
TimedEscapes == {"escape", "vendor"}
Escapes      == TimedEscapes \cup {"firmware", "mct", "spr532"}

\* CmdEscapeCheck: a NAK has the command written again, and an answer with
\* CCID_TIME_EXTENSION another one read, both without limit.
EscapeAgain == exchange \in Escapes /\ UNCHANGED vars

\* It is over, with this answer.
EscapeOver(a) ==
    /\ a \in {"ok", "failed", "nothing"}
    /\ readTimeout' = IF exchange \in TimedEscapes THEN old_timeout ELSE readTimeout

Escape ==
    /\ exchange = "escape"
    /\ \E a \in Answers :
         /\ EscapeOver(a)
         /\ \/ a = "ok" /\ Exchange("warm_up") /\ UNCHANGED opened
            \/ a # "ok" /\ Return("IFD_COMMUNICATION_ERROR") /\ opened' = FALSE
    /\ UNCHANGED <<closing, powerVars, savedVars, configured, leaked>>

\* The first CmdGetSlotStatus is to wake the reader; its result is not used.
WarmUp ==
    /\ exchange = "warm_up"
    /\ Change((readTimeout * ProbeTimeout) \div DEFAULT_COM_READ_TIMEOUT)
    /\ Exchange("probe")
    /\ UNCHANGED <<opened, closing, powerVars, old_timeout, outerVars, configured, leaked>>

\* With the short timeout it gets two more chances.
Probe ==
    /\ exchange \in {"probe", "probe again"}
    /\ \E a \in Answers :
         \/ /\ Succeeds(a)
            /\ SetBack /\ Return("IFD_SUCCESS")
            /\ UNCHANGED opened
         \/ /\ ~Succeeds(a) /\ exchange = "probe"
            /\ Exchange("probe again")
            /\ UNCHANGED <<opened, readTimeout>>
         \/ /\ ~Succeeds(a) /\ exchange = "probe again"
            /\ SetBack /\ Return("IFD_COMMUNICATION_ERROR")
            /\ opened' = FALSE
    /\ UNCHANGED <<closing, powerVars, savedVars, configured, leaked>>

-----------------------------------------------------------------------------
(* IFDHICCPresence, IFDHCloseChannel                                       *)

ICCPresence ==
    /\ Idle /\ opened
    /\ Change(DEFAULT_COM_READ_TIMEOUT)
    /\ Exchange("slot_status")
    /\ UNCHANGED <<opened, closing, powerVars, old_timeout, outerVars, configured, leaked>>

\* A mute card counts as success: it is among "ok".
SlotStatus ==
    /\ exchange = "slot_status"
    /\ SetBack
    /\ \E a \in Answers : Return(Outcome(a))
    /\ UNCHANGED <<opened, closing, powerVars, savedVars, configured, leaked>>

\* IFDHPowerICC(IFD_POWER_DOWN); or IFDHCloseChannel, which restores the default
\* timeout.
PowerDown ==
    /\ Idle /\ opened
    /\ Exchange("power_off")
    /\ \/ closing' = FALSE /\ UNCHANGED <<readTimeout, configured, leaked>>
       \/ /\ closing' = TRUE
          /\ readTimeout' = DEFAULT_COM_READ_TIMEOUT
          /\ configured' = DEFAULT_COM_READ_TIMEOUT /\ leaked' = "none"
    /\ UNCHANGED <<opened, powerVars, savedVars>>

PowerOff ==
    /\ exchange = "power_off"
    /\ \E a \in Answers : Return(IF closing THEN "IFD_SUCCESS" ELSE Outcome(a))
    /\ opened' = ~closing
    /\ closing' = FALSE
    /\ UNCHANGED <<powerVars, readTimeout, savedVars, configured, leaked>>

-----------------------------------------------------------------------------
(* IFDHPowerICC(IFD_POWER_UP) and CmdPowerOn                               *)

\* check_again: a voltage the reader cannot do is replaced by a lower one.
Supported(v) ==
    CASE v \notin 1..3 \/ v \in BVoltageSupport           -> v
      [] v = 1 /\ 2 \in BVoltageSupport                   -> 2
      [] v \in 1..2 /\ 3 \in BVoltageSupport              -> 3
      [] v \in 2..3 /\ 1 \in BVoltageSupport              -> 1
      [] OTHER                                            -> 2

PowerUp ==
    /\ Idle /\ opened
    /\ Change(PowerOnTimeout)
    /\ voltage' = Supported(PowerOnVoltage) /\ init_voltage' = voltage'
    /\ refusals' = 0
    /\ Exchange("power_on")
    /\ UNCHANGED <<opened, closing, old_timeout, outerVars, configured, leaked>>

\* The next voltage to try: one lower, and 1.8V (3) after 5V (1).
Lower(v) == IF v - 1 = 0 THEN 3 ELSE v - 1

\* Refused: the next voltage, until it is the first again.
PowerOn ==
    /\ exchange = "power_on"
    /\ \E a \in Answers :
         \/ /\ a = "failed" /\ voltage # 0 /\ Lower(voltage) # init_voltage
            /\ refusals < MaxRefusals /\ refusals' = refusals + 1
            /\ voltage' = Lower(voltage)
            /\ Exchange("power_on")
            /\ UNCHANGED <<init_voltage, readTimeout>>
         \/ /\ a # "failed" \/ voltage = 0 \/ Lower(voltage) = init_voltage
            /\ SetBack
            /\ Return(IF Succeeds(a) THEN "IFD_SUCCESS" ELSE "IFD_ERROR_POWER_ACTION")
            /\ UNCHANGED powerVars
    /\ UNCHANGED <<opened, closing, savedVars, configured, leaked>>

-----------------------------------------------------------------------------
(* IFDHSetProtocolParameters, IFDHTransmitToICC, t1_xcv                    *)

ProtocolParameters ==
    /\ Idle /\ opened
    /\ \E t \in CardTimeouts : readTimeout' = t /\ configured' = t
    /\ leaked' = "none"
    /\ Exchange("set_parameters")
    /\ UNCHANGED <<opened, closing, powerVars, savedVars>>

\* A refusal that names a parameter counts as success.
SetParameters ==
    /\ exchange = "set_parameters"
    /\ \E a \in Answers, named \in BOOLEAN :
         Return(IF named /\ a = "failed" THEN "IFD_SUCCESS" ELSE Outcome(a))
    /\ UNCHANGED <<opened, closing, powerVars, readTimeout, savedVars, configured, leaked>>

\* A pseudo-APDU for the reader (FF C2 01) has its own timeout.
Transmit ==
    /\ Idle /\ opened
    /\ Exchange("blocks")
    /\ \/ /\ restore_timeout' = TRUE
          /\ old_read_timeout' = readTimeout /\ readTimeout' = PseudoTimeout
       \/ restore_timeout' = FALSE /\ UNCHANGED <<old_read_timeout, readTimeout>>
    /\ UNCHANGED <<opened, closing, powerVars, oldReadTimeout, old_timeout, configured, leaked>>

\* t1_xcv: the timeout is multiplied if the card asked for more time, and what
\* CCID_Receive finds is what it restores.
Xcv ==
    /\ exchange = "blocks" /\ readTimeout <= MaxTimeout
    /\ \E wtx \in Multipliers \cup {0} :
         Change(IF wtx > 1 THEN readTimeout * wtx ELSE readTimeout)
    /\ old_timeout' = readTimeout'
    /\ Exchange("xfr_block")
    /\ UNCHANGED <<opened, closing, powerVars, outerVars, configured, leaked>>

\* (Mutant of Longer: the multiplier of 0 is not looked at.)
LongerByAny(m) == old_timeout * m

\* The time the reader asks for, in units of the timeout.
Longer(m) == IF m > 0 THEN old_timeout * m ELSE old_timeout

\* CCID_Receive.  After a time extension the next answer has that much longer;
\* when an error is returned t1_xcv does not restore what it changed.  (The
\* failures "cancel" and "timeout" come back as a response of the card.)
XfrBlock ==
    /\ exchange = "xfr_block"
    /\ \E a \in Answers :
         \/ /\ a = "extension"
            /\ \E m \in Multipliers : readTimeout' = Longer(m)
            /\ Exchange("xfr_block")
            /\ UNCHANGED leaked
         \/ /\ a \in {"ok", "failed"}
            /\ SetBack /\ Exchange("blocks")
            /\ UNCHANGED leaked
         \/ /\ a \in {"failed", "nak", "nothing"}
            /\ readTimeout' = old_timeout
            /\ leaked' = IF leaked = "none" /\ ~restore_timeout /\ old_timeout # oldReadTimeout
                         THEN "t1_xcv" ELSE leaked
            /\ Exchange("blocks")
    /\ UNCHANGED <<opened, closing, powerVars, savedVars, configured>>

\* The end of IFDHTransmitToICC: CmdXfrBlock has returned.
Transmitted ==
    /\ exchange = "blocks"
    /\ \/ restore_timeout /\ RestoreTimeout
       \/ ~restore_timeout /\ UNCHANGED readTimeout
    /\ restore_timeout' = FALSE
    /\ \E r \in {"IFD_SUCCESS", "IFD_COMMUNICATION_ERROR"} : Return(r)
    /\ UNCHANGED <<opened, closing, powerVars, oldReadTimeout, old_timeout, old_read_timeout,
                   configured, leaked>>

-----------------------------------------------------------------------------
(* IFDHControl, SecurePINVerify, SecurePINModify                           *)

controlVars == <<opened, closing, powerVars, oldReadTimeout, restore_timeout, configured, leaked>>

\* The features and properties of the reader are answered by the driver, out of
\* its descriptor; or the buffer is too small for them, or the control code is none
\* of those it knows.
FeatureQuery ==
    /\ Idle /\ opened
    /\ \E r \in {"IFD_SUCCESS", "IFD_ERROR_INSUFFICIENT_BUFFER", "IFD_ERROR_NOT_SUPPORTED"} :
         Return(r)
    /\ UNCHANGED <<controlVars, readTimeout, old_timeout, old_read_timeout>>

\* One of the properties is the version of the firmware, which some readers are
\* asked for (FirmwareRead).
TlvProperties ==
    /\ Idle /\ opened
    /\ Exchange("firmware") \/ Return("IFD_SUCCESS")
    /\ UNCHANGED <<controlVars, readTimeout, old_timeout, old_read_timeout>>

\* Without an answer the property is left out.
FirmwareRead ==
    /\ exchange = "firmware"
    /\ \E a \in Answers : EscapeOver(a) /\ Return("IFD_SUCCESS")
    /\ UNCHANGED <<controlVars, old_timeout, old_read_timeout>>

\* IOCTL_SMARTCARD_VENDOR_IFD_EXCHANGE is refused unless it is allowed.
VendorExchange ==
    /\ Idle /\ opened
    /\ \/ /\ readTimeout' = VendorTimeout /\ old_timeout' = readTimeout
          /\ Exchange("vendor")
       \/ /\ Return("IFD_COMMUNICATION_ERROR")
          /\ UNCHANGED <<readTimeout, old_timeout>>
    /\ UNCHANGED <<controlVars, old_read_timeout>>

\* IOCTL_FEATURE_MCT_READER_DIRECT, also only for certain commands.
MctCommand ==
    /\ Idle /\ opened
    /\ Exchange("mct") \/ Return("IFD_COMMUNICATION_ERROR")
    /\ UNCHANGED <<controlVars, readTimeout, old_timeout, old_read_timeout>>

ControlEscape ==
    /\ exchange \in {"vendor", "mct"}
    /\ \E a \in Answers : EscapeOver(a) /\ Return(Outcome(a))
    /\ UNCHANGED <<controlVars, old_timeout, old_read_timeout>>

\* The time a user has to enter the PIN: at least 90 seconds.
PinTime(bTimeOut) == (IF bTimeOut + 10 > 90 THEN bTimeOut + 10 ELSE 90) * 1000

\* The command is written; CCID_Receive saves the timeout it finds.
SecureSent(e) ==
    /\ \E b \in BTimeOuts : readTimeout' = PinTime(b)
    /\ old_read_timeout' = readTimeout /\ old_timeout' = readTimeout'
    /\ Exchange(e)

\* A structure with a wrong length or number of messages.
PinRefused ==
    /\ Return("IFD_NOT_SUPPORTED")
    /\ UNCHANGED <<readTimeout, old_timeout, old_read_timeout>>

\* The SPR532 is first told not to pad the PIN (PaddingOff).
PinVerify ==
    /\ Idle /\ opened
    /\ \/ PinRefused
       \/ Exchange("spr532") /\ UNCHANGED <<readTimeout, old_timeout, old_read_timeout>>
       \/ SecureSent("verify")
    /\ UNCHANGED controlVars

PaddingOff ==
    /\ exchange = "spr532"
    /\ \/ SecureSent("verify")
       \/ /\ \E a \in Answers \ {"ok"} : EscapeOver(a)
          /\ Return("IFD_COMMUNICATION_ERROR")
          /\ UNCHANGED <<old_timeout, old_read_timeout>>
    /\ UNCHANGED controlVars

PinModify ==
    /\ Idle /\ opened
    /\ PinRefused \/ SecureSent("modify")
    /\ UNCHANGED controlVars

\* CCID_Receive asks for the answer again after a time extension.
SecureExtended ==
    /\ exchange \in {"verify", "verify wtx", "modify"}
    /\ \E m \in Multipliers : readTimeout' = Longer(m)
    /\ Exchange(exchange)
    /\ UNCHANGED <<controlVars, old_timeout, old_read_timeout>>

\* The answer, or none.  A PIN not entered in time, or cancelled, comes back as a
\* response of the card.
SecureDone ==
    /\ exchange \in {"verify", "modify"}
    /\ RestoreTimeout
    /\ \E a \in Answers \ {"extension"}, cancelled \in BOOLEAN :
         Return(IF cancelled /\ a = "failed" THEN "IFD_SUCCESS" ELSE Outcome(a))
    /\ UNCHANGED <<controlVars, old_timeout, old_read_timeout>>

\* The T=1 block in the answer is S(WTX request): the card needs longer, and
\* the driver answers S(WTX response) and reads again.
VerifyWtx ==
    /\ exchange = "verify"
    /\ oldReadTimeout' = old_timeout
    /\ \E wtx \in Multipliers : readTimeout' = IF wtx > 1 THEN old_timeout * wtx ELSE old_timeout
    /\ old_timeout' = readTimeout'
    /\ Exchange("verify wtx")
    /\ UNCHANGED <<opened, closing, powerVars, outerVars, configured, leaked>>

\* Good, both timeouts are restored; an error returns with neither.
WtxDone ==
    /\ exchange = "verify wtx"
    /\ \E a \in Answers \ {"extension"} :
         \/ /\ a \in {"ok", "failed"}
            /\ RestoreTimeout /\ Return("IFD_SUCCESS")
            /\ UNCHANGED leaked
         \/ /\ a \in {"failed", "nak", "nothing"}
            /\ readTimeout' = old_timeout
            /\ leaked' = IF old_timeout # old_read_timeout THEN "SecurePINVerify" ELSE leaked
            /\ Return("IFD_COMMUNICATION_ERROR")
    /\ UNCHANGED <<opened, closing, powerVars, savedVars, configured>>

-----------------------------------------------------------------------------

Init ==
    /\ opened = FALSE /\ exchange = "none" /\ closing = FALSE /\ result = "none"
    /\ voltage = 0 /\ init_voltage = 0 /\ refusals = 0
    /\ readTimeout = 0 /\ oldReadTimeout = 0 /\ old_timeout = 0
    /\ old_read_timeout = 0 /\ restore_timeout = FALSE
    /\ configured = 0 /\ leaked = "none"

Call == Open \/ ICCPresence \/ PowerDown \/ PowerUp \/ ProtocolParameters \/ Transmit

Control == FeatureQuery \/ TlvProperties \/ VendorExchange \/ MctCommand \/ PinVerify \/ PinModify

Reply ==
    \/ EscapeAgain \/ Escape \/ WarmUp \/ Probe \/ SlotStatus \/ PowerOff \/ PowerOn
    \/ SetParameters \/ Xcv \/ XfrBlock \/ Transmitted

ControlReply ==
    \/ FirmwareRead \/ ControlEscape \/ PaddingOff
    \/ SecureExtended \/ SecureDone \/ VerifyWtx \/ WtxDone

Next == Call \/ Control \/ Reply \/ ControlReply

Spec == Init /\ [][Next]_vars

-----------------------------------------------------------------------------
(* Properties                                                              *)

\* Every variable has its type; exchanges take place in an open channel only.
TypeOK ==
    /\ opened \in BOOLEAN /\ closing \in BOOLEAN /\ restore_timeout \in BOOLEAN
    /\ leaked \in {"none", "t1_xcv", "SecurePINVerify"}
    /\ exchange \in {"none", "escape", "warm_up", "probe", "probe again", "slot_status",
                     "power_off", "power_on", "set_parameters", "blocks", "xfr_block",
                     "firmware", "vendor", "mct", "spr532", "verify", "verify wtx", "modify"}
    /\ exchange # "none" => opened
    /\ result \in {"none", "IFD_SUCCESS", "IFD_COMMUNICATION_ERROR", "IFD_ERROR_POWER_ACTION",
                   "IFD_NOT_SUPPORTED", "IFD_ERROR_INSUFFICIENT_BUFFER", "IFD_ERROR_NOT_SUPPORTED"}
    /\ voltage \in Int /\ init_voltage \in Int /\ refusals \in 0..MaxRefusals
    /\ readTimeout \in Nat /\ oldReadTimeout \in Nat /\ old_timeout \in Nat
    /\ old_read_timeout \in Nat /\ configured \in Nat

\* Whatever fails on the way, no function of the IFD handler leaves another
\* timeout than the reader or the card calls for; except those of t1_xcv and of
\* SecurePINVerify when the exchange after a WTX fails.
TimeoutBalanced == Idle /\ opened /\ leaked = "none" => readTimeout = configured

\* A card in the middle of an exchange is never given less time than its ATR
\* asks for, whatever time extensions it and the reader have asked for.  (A
\* pseudo-APDU is for the reader; and a PIN's time may be left, see above.)
CardHasItsTime ==
    exchange = "xfr_block" /\ ~restore_timeout /\ leaked # "SecurePINVerify"
        => readTimeout >= configured

=============================================================================
