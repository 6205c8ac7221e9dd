------------------------- MODULE CcidCommandsProofs -------------------------
(***************************************************************************)
(* Proofs about CcidCommands: each function of the IFD handler leaves the  *)
(* read timeout as the reader or the card calls for, and a card is never   *)
(* given less time than that, for all timeouts and multipliers.            *)
(***************************************************************************)
EXTENDS CcidCommands, TLAPS

\* The exchanges whose function has saved the timeout in oldReadTimeout,
\* old_timeout or old_read_timeout and will set it back.
Borrowed == {"probe", "probe again", "slot_status", "power_on"}
Secured  == {"verify", "verify wtx", "modify"}
Transmits == {"blocks", "xfr_block"}

Exchanges ==
    Borrowed \cup Escapes \cup Secured \cup Transmits
        \cup {"none", "warm_up", "power_off", "set_parameters"}

NumbersOK ==
    /\ readTimeout \in Nat /\ oldReadTimeout \in Nat /\ old_timeout \in Nat
    /\ old_read_timeout \in Nat /\ configured \in Nat

\* The timeout in force when the function in progress has returned.
Restored ==
    IF exchange \in Borrowed THEN oldReadTimeout
    ELSE IF exchange \in TimedEscapes THEN old_timeout
    ELSE IF exchange \in Secured THEN old_read_timeout
    ELSE IF exchange \in Transmits /\ restore_timeout THEN old_read_timeout
    ELSE IF exchange = "xfr_block" THEN oldReadTimeout ELSE readTimeout

\* Leaks apart that is the configured one, and it is never less unless
\* SecurePINVerify has left the time of a PIN.
BalanceOK ==
    /\ exchange \in Exchanges
    /\ exchange # "none" => opened
    /\ opened /\ leaked = "none" => Restored = configured
    /\ opened /\ leaked # "SecurePINVerify" => Restored >= configured
    /\ exchange = "xfr_block" =>
          old_timeout >= oldReadTimeout /\ readTimeout >= old_timeout

IInv == NumbersOK /\ BalanceOK

\* The initial states satisfy IInv.
LEMMA InitOK == Init => IInv
BY DEF Init, IInv, NumbersOK, BalanceOK, Restored,
    Exchanges, Borrowed, Secured, Transmits, Escapes, TimedEscapes

\* A multiple of a timeout is not shorter.
LEMMA Multiple ==
    ASSUME NEW t \in Nat, NEW m \in Nat, m > 0
    PROVE  t * m \in Nat /\ t * m >= t
OBVIOUS

\* The calls and answers other than those of IFDHControl preserve IInv.
LEMMA CommandOK == IInv /\ (Call \/ Reply \/ UNCHANGED vars) => IInv'
<1>a. SUFFICES ASSUME IInv, Call \/ Reply \/ UNCHANGED vars PROVE IInv'
    OBVIOUS
<1>b. NumbersOK /\ BalanceOK
    BY <1>a DEF IInv
<1> USE DEF IInv, Exchanges, Borrowed, Secured, Transmits, Escapes, TimedEscapes
<1>1. CASE Open
    <2>1. /\ readTimeout' = 2000 /\ old_timeout' = 3000 /\ configured' = 3000
          /\ oldReadTimeout' = oldReadTimeout /\ old_read_timeout' = old_read_timeout
        BY <1>1, Zenon DEF Open, outerVars, DEFAULT_COM_READ_TIMEOUT, OpenTimeout
    <2>2. exchange' = "escape" /\ opened'
        BY <1>1, Zenon DEF Open, Exchange
    <2>3. NumbersOK'
        BY <1>b, <2>1 DEF NumbersOK
    <2>4. Restored' = configured' /\ Restored' >= configured'
        BY <2>1, <2>2 DEF Restored
    <2>5. BalanceOK'
        BY <2>2, <2>4, Zenon DEF BalanceOK
    <2>6. QED BY <2>3, <2>5
<1>2. CASE Escape
    <2>1. /\ exchange = "escape" /\ opened
          /\ UNCHANGED <<savedVars, configured, leaked>>
          /\ readTimeout' = old_timeout
        BY <1>b, <1>2 DEF Escape, EscapeOver, BalanceOK
    <2>2. CASE exchange' = "warm_up" /\ UNCHANGED opened
        BY <1>b, <2>1, <2>2 DEF NumbersOK, BalanceOK, Restored, savedVars, outerVars
    <2>3. CASE exchange' = "none" /\ opened' = FALSE
        BY <1>b, <2>1, <2>3 DEF NumbersOK, BalanceOK, Restored, savedVars, outerVars
    <2>4. QED BY <1>2, <2>2, <2>3, Zenon DEF Escape, Exchange, Return
<1>3. CASE WarmUp
    BY <1>b, <1>3 DEF NumbersOK, BalanceOK, Restored, outerVars, WarmUp, Exchange, Change,
        DEFAULT_COM_READ_TIMEOUT, ProbeTimeout
<1>4. CASE Probe
    <2>1. /\ exchange \in {"probe", "probe again"} /\ opened
          /\ UNCHANGED <<savedVars, configured, leaked>>
        BY <1>b, <1>4 DEF Probe, BalanceOK
    <2>2. CASE readTimeout' = oldReadTimeout /\ exchange' = "none" /\ UNCHANGED opened
        BY <1>b, <2>1, <2>2 DEF NumbersOK, BalanceOK, Restored, savedVars, outerVars
    <2>3. CASE exchange' = "probe again" /\ UNCHANGED <<opened, readTimeout>>
        BY <1>b, <2>1, <2>3 DEF NumbersOK, BalanceOK, Restored, savedVars, outerVars
    <2>4. CASE readTimeout' = oldReadTimeout /\ exchange' = "none" /\ opened' = FALSE
        BY <1>b, <2>1, <2>4 DEF NumbersOK, BalanceOK, Restored, savedVars, outerVars
    <2>5. QED BY <1>4, <2>2, <2>3, <2>4, Zenon DEF Probe, Exchange, Return, SetBack
<1>5. CASE ICCPresence
    BY <1>b, <1>5 DEF NumbersOK, BalanceOK, Restored, outerVars, ICCPresence, Idle, Exchange,
        Change, DEFAULT_COM_READ_TIMEOUT
<1>6. CASE SlotStatus
    BY <1>b, <1>6 DEF NumbersOK, BalanceOK, Restored, SlotStatus, Return, SetBack, savedVars, outerVars
<1>7. CASE PowerDown
    BY <1>b, <1>7 DEF NumbersOK, BalanceOK, Restored, PowerDown, Idle, Exchange,
        DEFAULT_COM_READ_TIMEOUT, savedVars, outerVars
<1>8. CASE PowerOff
    BY <1>b, <1>8 DEF NumbersOK, BalanceOK, Restored, PowerOff, Return, savedVars, outerVars
<1>9. CASE PowerUp
    BY <1>b, <1>9 DEF NumbersOK, BalanceOK, Restored, outerVars, PowerUp, Idle, Exchange, Change,
        PowerOnTimeout
<1>10. CASE PowerOn
    BY <1>b, <1>10 DEF NumbersOK, BalanceOK, Restored, PowerOn, Exchange, Return,
        SetBack, savedVars, outerVars
<1>11. CASE ProtocolParameters
    <2>1. configured' \in Nat /\ readTimeout' = configured'
        BY <1>11, CcidAssumption DEF ProtocolParameters
    <2>2. /\ exchange' = "set_parameters" /\ opened /\ opened'
          /\ UNCHANGED savedVars
        BY <1>11 DEF ProtocolParameters, Exchange
    <2>3. NumbersOK'
        BY <1>b, <2>1, <2>2 DEF NumbersOK, savedVars, outerVars
    <2>4. Restored' = configured' /\ Restored' >= configured'
        BY <2>1, <2>2 DEF Restored
    <2>5. BalanceOK'
        BY <2>2, <2>4, Zenon DEF BalanceOK
    <2>6. QED BY <2>3, <2>5
<1>12. CASE SetParameters
    BY <1>b, <1>12 DEF NumbersOK, BalanceOK, Restored, SetParameters, Return, savedVars, outerVars
<1>13. CASE Xcv
    <2>1. PICK wtx \in Nat :
              Change(IF wtx > 1 THEN readTimeout * wtx ELSE readTimeout)
        <3>1. Multipliers \cup {0} \subseteq Nat
            BY CcidAssumption
        <3>2. QED BY <1>13, <3>1, Zenon DEF Xcv
    <2>2. /\ exchange = "blocks" /\ exchange' = "xfr_block" /\ opened /\ opened'
          /\ old_timeout' = readTimeout' /\ UNCHANGED <<outerVars, configured, leaked>>
        BY <1>b, <1>13 DEF Xcv, Exchange, BalanceOK
    <2>3. readTimeout \in Nat
        BY <1>b DEF NumbersOK
    <2>4. /\ readTimeout' = IF wtx > 1 THEN readTimeout * wtx ELSE readTimeout
          /\ oldReadTimeout' = readTimeout
        BY <2>1, Zenon DEF Change
    <2>5. readTimeout' \in Nat /\ readTimeout' >= readTimeout
        <3>1. CASE wtx > 1
            <4>1. readTimeout * wtx \in Nat /\ readTimeout * wtx >= readTimeout
                BY <2>3, <3>1, Multiple
            <4>2. QED BY <2>4, <3>1, <4>1, Zenon
        <3>2. CASE ~(wtx > 1)
            <4>1. readTimeout' = readTimeout
                BY <2>4, <3>2, Zenon
            <4>2. QED BY <2>3, <4>1
        <3>3. QED BY <3>1, <3>2
    <2>6. QED BY <1>b, <2>2, <2>3, <2>4, <2>5 DEF NumbersOK, BalanceOK, Restored, outerVars
<1>14. CASE XfrBlock
    <2>1. /\ exchange = "xfr_block" /\ opened
          /\ UNCHANGED <<opened, savedVars, configured>>
        BY <1>b, <1>14 DEF XfrBlock, BalanceOK
    <2>2. CASE /\ \E m \in Multipliers : readTimeout' = Longer(m)
               /\ exchange' = "xfr_block" /\ UNCHANGED leaked
        <3>1. PICK m \in Nat : readTimeout' = Longer(m)
            BY <2>2, CcidAssumption
        <3>2. old_timeout \in Nat
            BY <1>b DEF NumbersOK
        <3>3. readTimeout' \in Nat /\ readTimeout' >= old_timeout
            <4>1. CASE m > 0
                <5>1. old_timeout * m \in Nat /\ old_timeout * m >= old_timeout
                    BY <3>2, <4>1, Multiple
                <5>2. QED BY <3>1, <4>1, <5>1, Zenon DEF Longer
            <4>2. CASE ~(m > 0)
                <5>1. readTimeout' = old_timeout
                    BY <3>1, <4>2, Zenon DEF Longer
                <5>2. QED BY <3>2, <5>1
            <4>3. QED BY <4>1, <4>2
        <3>4. QED BY <1>b, <2>1, <2>2, <3>3 DEF NumbersOK, BalanceOK, Restored, savedVars, outerVars
    <2>3. CASE readTimeout' = oldReadTimeout /\ exchange' = "blocks" /\ UNCHANGED leaked
        BY <1>b, <2>1, <2>3 DEF NumbersOK, BalanceOK, Restored, savedVars, outerVars
    <2>4. CASE /\ readTimeout' = old_timeout /\ exchange' = "blocks"
               /\ leaked' = IF leaked = "none" /\ ~restore_timeout /\ old_timeout # oldReadTimeout
                            THEN "t1_xcv" ELSE leaked
        <3>1. CASE leaked = "none" /\ ~restore_timeout /\ old_timeout # oldReadTimeout
            BY <1>b, <2>1, <2>4, <3>1 DEF NumbersOK, BalanceOK, Restored, savedVars, outerVars
        <3>2. CASE restore_timeout
            BY <1>b, <2>1, <2>4, <3>2 DEF NumbersOK, BalanceOK, Restored, savedVars, outerVars
        <3>3. CASE ~restore_timeout /\ (leaked # "none" \/ old_timeout = oldReadTimeout)
            BY <1>b, <2>1, <2>4, <3>3 DEF NumbersOK, BalanceOK, Restored, savedVars, outerVars
        <3>4. QED BY <3>1, <3>2, <3>3
    <2>5. QED BY <1>14, <2>2, <2>3, <2>4, Zenon DEF XfrBlock, Exchange, SetBack
<1>15. CASE Transmit
    <2>1. /\ exchange = "none" /\ exchange' = "blocks" /\ opened /\ opened'
          /\ UNCHANGED <<oldReadTimeout, old_timeout, configured, leaked>>
        BY <1>15 DEF Transmit, Idle, Exchange
    <2>2. Restored = readTimeout
        BY <2>1 DEF Restored
    <2>3. CASE /\ restore_timeout'
               /\ old_read_timeout' = readTimeout /\ readTimeout' = PseudoTimeout
        <3>1. Restored' = old_read_timeout'
            BY <2>1, <2>3 DEF Restored
        <3>2. QED BY <1>b, <2>1, <2>2, <2>3, <3>1 DEF NumbersOK, BalanceOK, PseudoTimeout
    <2>4. CASE ~restore_timeout' /\ UNCHANGED <<old_read_timeout, readTimeout>>
        <3>1. Restored' = readTimeout'
            BY <2>1, <2>4 DEF Restored
        <3>2. QED BY <1>b, <2>1, <2>2, <2>4, <3>1 DEF NumbersOK, BalanceOK
    <2>5. QED BY <1>15, <2>3, <2>4, Zenon DEF Transmit
<1>16. CASE Transmitted
    BY <1>b, <1>16 DEF NumbersOK, BalanceOK, Restored, Transmitted, Return, RestoreTimeout
<1>17. CASE UNCHANGED vars \/ EscapeAgain
    <2>1. UNCHANGED vars
        BY <1>17 DEF EscapeAgain
    <2>2. Restored' = Restored
        BY <2>1, Zenon DEF Restored, vars, savedVars, outerVars
    <2>3. QED BY <1>b, <2>1, <2>2, Zenon DEF NumbersOK, BalanceOK, vars, savedVars, outerVars
<1>18. QED
    BY <1>a, <1>1, <1>2, <1>3, <1>4, <1>5, <1>6, <1>7, <1>8, <1>9, <1>10, <1>11, <1>12,
       <1>13, <1>14, <1>15, <1>16, <1>17 DEF Call, Reply

\* The time for a PIN is a number of ms.
LEMMA PinTimes == \A b \in BTimeOuts : PinTime(b) \in Nat
BY CcidAssumption DEF PinTime

\* A PIN command puts the timeout it found where its end will find it.
LEMMA SecureSentOK ==
    ASSUME IInv, NEW e \in Secured, e # "verify wtx", SecureSent(e), UNCHANGED controlVars,
           exchange \in {"none", "spr532"}, opened
    PROVE  IInv'
<1>1. PICK b \in BTimeOuts : readTimeout' = PinTime(b)
    BY DEF SecureSent
<1>2. readTimeout' \in Nat
    BY <1>1, PinTimes
<1>3. old_read_timeout' = readTimeout /\ old_timeout' = readTimeout' /\ exchange' = e
    BY DEF SecureSent, Exchange
<1>4. NumbersOK'
    BY <1>2, <1>3 DEF IInv, NumbersOK, controlVars
<1>5. Restored = readTimeout /\ Restored' = readTimeout
    BY <1>3 DEF Restored, Borrowed, Secured, Transmits, TimedEscapes
<1>6. BalanceOK'
    BY <1>3, <1>5 DEF IInv, BalanceOK, controlVars, Exchanges, Secured
<1>7. QED BY <1>4, <1>6 DEF IInv

\* The calls of IFDHControl and their answers preserve IInv.
LEMMA ControlOK == IInv /\ (Control \/ ControlReply) => IInv'
<1>a. SUFFICES ASSUME IInv, Control \/ ControlReply PROVE IInv'
    OBVIOUS
<1>b. NumbersOK /\ BalanceOK
    BY <1>a DEF IInv
<1> USE DEF Exchanges, Borrowed, Secured, Transmits, Escapes, TimedEscapes
<1>1. CASE FeatureQuery \/ TlvProperties \/ MctCommand
    BY <1>b, <1>1 DEF IInv, NumbersOK, BalanceOK, Restored, FeatureQuery, TlvProperties,
        MctCommand, Idle, Exchange, Return, controlVars
<1>2. CASE VendorExchange
    <2>1. exchange = "none" /\ opened /\ UNCHANGED <<controlVars, old_read_timeout>>
        BY <1>2 DEF VendorExchange, Idle
    <2>2. Restored = readTimeout
        BY <2>1 DEF Restored
    <2>3. CASE exchange' = "vendor" /\ readTimeout' = 30000 /\ old_timeout' = readTimeout
        <3>1. Restored' = old_timeout'
            BY <2>1, <2>3 DEF Restored
        <3>2. QED BY <1>b, <2>1, <2>2, <2>3, <3>1 DEF IInv, NumbersOK, BalanceOK, controlVars
    <2>4. CASE exchange' = "none" /\ UNCHANGED <<readTimeout, old_timeout>>
        <3>1. Restored' = readTimeout'
            BY <2>1, <2>4 DEF Restored
        <3>2. QED BY <1>b, <2>1, <2>2, <2>4, <3>1 DEF IInv, NumbersOK, BalanceOK, controlVars
    <2>5. QED BY <1>2, <2>3, <2>4 DEF VendorExchange, VendorTimeout, Exchange, Return
<1>3. CASE FirmwareRead \/ ControlEscape
    BY <1>b, <1>3 DEF IInv, NumbersOK, BalanceOK, Restored, FirmwareRead, ControlEscape,
        EscapeOver, Return, controlVars
<1>4. CASE PinVerify \/ PinModify
    <2>1. exchange = "none" /\ opened /\ UNCHANGED controlVars
        BY <1>4 DEF PinVerify, PinModify, Idle
    <2>2. CASE PinRefused
        BY <1>b, <2>1, <2>2 DEF IInv, NumbersOK, BalanceOK, Restored, PinRefused, Return,
            controlVars
    <2>3. CASE Exchange("spr532") /\ UNCHANGED <<readTimeout, old_timeout, old_read_timeout>>
        BY <1>b, <2>1, <2>3 DEF IInv, NumbersOK, BalanceOK, Restored, Exchange, controlVars
    <2>4. CASE SecureSent("verify") \/ SecureSent("modify")
        BY <1>a, <2>1, <2>4, SecureSentOK
    <2>5. QED BY <1>4, <2>2, <2>3, <2>4 DEF PinVerify, PinModify
<1>5. CASE PaddingOff
    <2>1. exchange = "spr532" /\ opened /\ UNCHANGED controlVars
        BY <1>b, <1>5 DEF PaddingOff, BalanceOK
    <2>2. CASE SecureSent("verify")
        BY <1>a, <2>1, <2>2, SecureSentOK
    <2>3. CASE /\ readTimeout' = readTimeout /\ exchange' = "none"
               /\ UNCHANGED <<old_timeout, old_read_timeout>>
        BY <1>b, <2>1, <2>3 DEF IInv, NumbersOK, BalanceOK, Restored, controlVars
    <2>4. QED BY <1>5, <2>1, <2>2, <2>3 DEF PaddingOff, EscapeOver, Return
<1>6. CASE SecureExtended
    <2>1. PICK m \in Nat : readTimeout' = Longer(m)
        BY <1>6, CcidAssumption DEF SecureExtended
    <2>2. Longer(m) \in Nat
        BY <1>b DEF Longer, NumbersOK
    <2>3. exchange \in Secured /\ exchange' = exchange
          /\ UNCHANGED <<controlVars, old_timeout, old_read_timeout>>
        BY <1>6 DEF SecureExtended, Exchange
    <2>4. QED BY <1>b, <2>1, <2>2, <2>3 DEF IInv, NumbersOK, BalanceOK, Restored, controlVars
<1>7. CASE SecureDone
    BY <1>b, <1>7 DEF IInv, NumbersOK, BalanceOK, Restored, SecureDone, RestoreTimeout, Return,
        controlVars
<1>8. CASE VerifyWtx
    <2>1. PICK wtx \in Nat :
              readTimeout' = IF wtx > 1 THEN old_timeout * wtx ELSE old_timeout
        BY <1>8, CcidAssumption DEF VerifyWtx
    <2>2. readTimeout' \in Nat
        BY <1>b, <2>1 DEF NumbersOK
    <2>3. /\ exchange = "verify" /\ exchange' = "verify wtx"
          /\ oldReadTimeout' = old_timeout /\ old_timeout' = readTimeout'
          /\ UNCHANGED <<opened, outerVars, configured, leaked>>
        BY <1>8 DEF VerifyWtx, Exchange
    <2>4. QED BY <1>b, <2>2, <2>3 DEF IInv, NumbersOK, BalanceOK, Restored, outerVars
<1>9. CASE WtxDone
    <2>1. /\ exchange = "verify wtx" /\ exchange' = "none"
          /\ UNCHANGED <<opened, savedVars, configured>>
        BY <1>9 DEF WtxDone, Return
    <2>2. CASE readTimeout' = old_read_timeout /\ UNCHANGED leaked
        BY <1>b, <2>1, <2>2 DEF IInv, NumbersOK, BalanceOK, Restored, savedVars, outerVars
    <2>3. CASE /\ readTimeout' = old_timeout
               /\ leaked' = IF old_timeout # old_read_timeout THEN "SecurePINVerify" ELSE leaked
        BY <1>b, <2>1, <2>3 DEF IInv, NumbersOK, BalanceOK, Restored, savedVars, outerVars
    <2>4. QED BY <1>9, <2>2, <2>3, Zenon DEF WtxDone, RestoreTimeout
<1>10. QED
    BY <1>a, <1>1, <1>2, <1>3, <1>4, <1>5, <1>6, <1>7, <1>8, <1>9 DEF Control, ControlReply

\* Every step preserves IInv.
LEMMA StepOK == IInv /\ [Next]_vars => IInv'
BY CommandOK, ControlOK DEF Next

\* IInv is an invariant, for all timeouts, voltages and multipliers.
THEOREM TimeoutInvariance == Spec => []IInv
<1>1. QED BY InitOK, StepOK, PTL DEF Spec

\* No function of ifdhandler.c leaves another timeout behind, whatever fails;
\* the exceptions are the error returns of t1_xcv and, after a WTX, SecurePINVerify.
THEOREM TimeoutsBalance == Spec => []TimeoutBalanced
<1>1. IInv => TimeoutBalanced
    BY DEF IInv, BalanceOK, Restored, TimeoutBalanced, Idle,
        Exchanges, Borrowed, Secured, Transmits, Escapes, TimedEscapes
<1>2. QED BY <1>1, TimeoutInvariance, PTL

\* In t1_xcv and CCID_Receive the card is never given less time than it needs.
THEOREM CardGetsItsTime == Spec => []CardHasItsTime
<1>1. IInv => CardHasItsTime
    BY DEF IInv, NumbersOK, BalanceOK, Restored, CardHasItsTime,
        Exchanges, Borrowed, Secured, Transmits, Escapes, TimedEscapes
<1>2. QED BY <1>1, TimeoutInvariance, PTL

-----------------------------------------------------------------------------
(* Types                                                                   *)

Results ==
    {"none", "IFD_SUCCESS", "IFD_COMMUNICATION_ERROR", "IFD_ERROR_POWER_ACTION",
     "IFD_NOT_SUPPORTED", "IFD_ERROR_INSUFFICIENT_BUFFER", "IFD_ERROR_NOT_SUPPORTED"}

\* What TypeOK says and IInv does not.
PowerTypes ==
    /\ opened \in BOOLEAN /\ closing \in BOOLEAN /\ restore_timeout \in BOOLEAN
    /\ leaked \in {"none", "t1_xcv", "SecurePINVerify"}
    /\ result \in Results
    /\ voltage \in Int /\ init_voltage \in Int /\ refusals \in 0..MaxRefusals

\* Every step preserves PowerTypes.
LEMMA PowerTypesStep == PowerTypes /\ [Next]_vars => PowerTypes'
<1> SUFFICES ASSUME PowerTypes, [Next]_vars PROVE PowerTypes'
    OBVIOUS
<1> USE DEF PowerTypes, Results, powerVars, savedVars, outerVars, Exchange, Return, Outcome
<1>1. CASE Open \/ Escape \/ WarmUp \/ Probe
    BY <1>1 DEF Open, Escape, WarmUp, Probe
<1>2. CASE ICCPresence \/ SlotStatus \/ PowerDown \/ PowerOff
    BY <1>2 DEF ICCPresence, SlotStatus, PowerDown, PowerOff
<1>3. CASE PowerUp
    <2>1. \A v \in Int : Supported(v) \in Int
        BY DEF Supported
    <2>2. 0 \in 0..MaxRefusals
        BY CcidAssumption
    <2>3. QED BY <1>3, <2>1, <2>2, CcidAssumption DEF PowerUp
<1>4. CASE PowerOn
    <2>1. \A v \in Int : Lower(v) \in Int
        BY DEF Lower
    <2>2. refusals < MaxRefusals => refusals + 1 \in 0..MaxRefusals
        BY CcidAssumption
    <2>3. QED BY <1>4, <2>1, <2>2 DEF PowerOn
<1>5. CASE ProtocolParameters \/ SetParameters
    BY <1>5 DEF ProtocolParameters, SetParameters
<1>6. CASE Transmit \/ Xcv \/ Transmitted
    BY <1>6 DEF Transmit, Xcv, Transmitted
<1>7. CASE XfrBlock
    BY <1>7 DEF XfrBlock
<1>8. CASE FeatureQuery \/ TlvProperties \/ MctCommand \/ FirmwareRead
    BY <1>8 DEF FeatureQuery, TlvProperties, MctCommand, FirmwareRead, controlVars
<1>9. CASE VendorExchange \/ ControlEscape
    BY <1>9 DEF VendorExchange, ControlEscape, controlVars
<1>10. CASE PinVerify \/ PinModify \/ PaddingOff
    BY <1>10 DEF PinVerify, PinModify, PaddingOff, PinRefused, SecureSent, controlVars
<1>11. CASE SecureExtended \/ SecureDone
    BY <1>11 DEF SecureExtended, SecureDone, controlVars
<1>12. CASE VerifyWtx \/ WtxDone
    BY <1>12 DEF VerifyWtx, WtxDone
<1>13. CASE UNCHANGED vars \/ EscapeAgain
    BY <1>13 DEF EscapeAgain, vars
<1>14. QED
    BY <1>1, <1>2, <1>3, <1>4, <1>5, <1>6, <1>7, <1>8, <1>9, <1>10, <1>11, <1>12, <1>13
    DEF Next, Call, Reply, Control, ControlReply

\* CreateChannelByNameOrChannel, commands.c, t1_xcv: the variables keep their types,
\* timeouts stay natural numbers, and an exchange takes place in an open channel only,
\* for all timeouts, multipliers and voltages.
THEOREM CommandTypes == Spec => []TypeOK
<1>1. Init => PowerTypes
    <2>1. 0 \in Int /\ 0 \in 0..MaxRefusals
        BY CcidAssumption
    <2>2. QED BY <2>1, Zenon DEF Init, PowerTypes, Results
<1>2. IInv /\ PowerTypes => TypeOK
    BY DEF IInv, NumbersOK, BalanceOK, PowerTypes, Results, TypeOK,
        Exchanges, Borrowed, Secured, Transmits, Escapes, TimedEscapes
<1>3. QED BY <1>1, <1>2, PowerTypesStep, TimeoutInvariance, PTL DEF Spec

=============================================================================
