---------------------------- MODULE ApduExchange ----------------------------
(***************************************************************************)
(* What a caller of CmdXfrBlockTPDU_T1 / IFDHTransmitToICC is promised:    *)
(* the command of a call is executed by the card at most once, whole, and  *)
(* before the call succeeds; and every call returns.  The block protocol   *)
(* of module T1Exchange is shown to implement this.                        *)
(***************************************************************************)
EXTENDS Naturals, Sequences

VARIABLES
    phase,      \* "idle", or "busy" while a call is in progress
    call,       \* number of the last call
    log,        \* the commands the card has executed, by call
    outcome     \* of the last call: "none", "ok", "error"

absVars == <<phase, call, log, outcome>>

AbsInit == phase = "idle" /\ call = 0 /\ log = <<>> /\ outcome = "none"

Executed == \E k \in DOMAIN log : log[k] = call

Call ==
    /\ phase = "idle"
    /\ phase' = "busy" /\ call' = call + 1 /\ outcome' = "none"
    /\ UNCHANGED log

\* A call on a driver that needs a power up first fails at once.
CallRefused ==
    /\ phase = "idle"
    /\ outcome' = "error"
    /\ UNCHANGED <<phase, call, log>>

Execute ==
    /\ phase = "busy" /\ ~Executed
    /\ log' = Append(log, call)
    /\ UNCHANGED <<phase, call, outcome>>

Succeed ==
    /\ phase = "busy" /\ Executed
    /\ phase' = "idle" /\ outcome' = "ok"
    /\ UNCHANGED <<call, log>>

Fail ==
    /\ phase = "busy"
    /\ phase' = "idle" /\ outcome' = "error"
    /\ UNCHANGED <<call, log>>

AbsNext == Call \/ CallRefused \/ Execute \/ Succeed \/ Fail

\* The order of things; AbsSpec adds that every call returns.
AbsSafety == AbsInit /\ [][AbsNext]_absVars

AbsSpec == AbsSafety /\ WF_absVars(Succeed \/ Fail)

=============================================================================
