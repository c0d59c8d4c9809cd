------------------------------ MODULE Failsafe ------------------------------
(***************************************************************************)
(* src/main/flight/failsafe.c: the stage-2 failsafe state machine, its     *)
(* receiver-link monitor and the state they share with the arming code.    *)
(*                                                                         *)
(* Time is counted in calls of failsafeUpdateState(), which the scheduler  *)
(* makes every PERIOD_RXDATA_FAILURE (10 ms).  A time stamp of the code is *)
(* kept as its distance from now: `since...' for one in the past, `...Left'*)
(* for one in the future, Expired once it has passed.                      *)
(*                                                                         *)
(* The body of failsafeUpdateState() is a do/while loop over a switch.     *)
(* Each turn of the loop is one step here; nothing else can run between    *)
(* two turns (`loop' is a lock), but the two values the function samples   *)
(* before the loop, `receiving' and `armedSample', grow stale inside it.   *)
(***************************************************************************)
EXTENDS Integers

CONSTANTS
    RxDataFailurePeriod,    \* stage-1 period (failsafe_delay)
    RxDataRecoveryPeriod,   \* failsafe_recovery_delay, at least 200 ms
    ThrottleLowDelay,       \* failsafe_throttle_low_delay
    OffDelay,               \* failsafe_off_delay, the powered part of stage 2
    SuspendPeriod,          \* the 1500 ms failsafeOnRxSuspend() is given
    Configs                 \* the configurations considered

\* failsafe_procedure, failsafe_switch_mode, and the aux modes of rc_modes.c
\* that matter here.
Procedures  == {"AUTO_LANDING", "DROP_IT", "GPS_RESCUE"}
SwitchModes == {"STAGE1", "KILL", "STAGE2"}
Box         == {"ARM", "FAILSAFE", "RTH", "LOITER"}

ASSUME FailsafeAssumption ==
    /\ {RxDataFailurePeriod, RxDataRecoveryPeriod, ThrottleLowDelay, OffDelay,
        SuspendPeriod} \subseteq Nat
    /\ RxDataFailurePeriod > 0 /\ RxDataRecoveryPeriod > 0
    /\ Configs \subseteq [procedure : Procedures, switchMode : SwitchModes,
                          boxes : {b \in SUBSET Box : "ARM" \in b}]

VARIABLES
    \* configuration, fixed at boot
    procedure, switchMode,
    mapped,             \* the modes that have a range condition
    \* failsafeState
    phase, active, monitoring, rxLinkState,
    sinceReceived,      \* now - validRxDataReceivedAt
    sinceFailed,        \* now - validRxDataFailedAt, Never while that is 0
    throttleLowLeft,    \* throttleLowPeriod - now
    landingLeft,        \* landingShouldBeFinishedAt - now
    receivingLeft,      \* receivingRxDataPeriod - now
    \* locals of a running failsafeUpdateState()
    loop, receiving, armedSample,
    \* shared with fc/core.c, fc/rc_modes.c, rx/rx.c and flight/gps_nav.c
    armed, wasEverArmed, armingDisabled, flightMode, nav,
    box,                \* the modes IS_RC_MODE_ACTIVE() reports
    throttleOff,        \* isThrottleOff()
    rxSignalReceived    \* rxIsReceivingSignal()

configVars == <<procedure, switchMode, mapped>>
linkVars   == <<rxLinkState, sinceReceived, sinceFailed>>
timerVars  == <<throttleLowLeft, landingLeft, receivingLeft>>
loopVars   == <<loop, receiving, armedSample>>
inputVars  == <<box, throttleOff, rxSignalReceived>>
armVars    == <<armed, wasEverArmed, armingDisabled>>
failsafeVars == <<configVars, phase, active, monitoring, linkVars, timerVars, loopVars>>

Expired == -1
Never   == -1

Phase == {"IDLE", "RX_LOSS_DETECTED", "LANDING", "GPS_RESCUE", "LANDED",
          "RX_LOSS_MONITORING", "RX_LOSS_RECOVERED"}

\* The arming-disable bits that this code and the core of the arming code set.
Flag == {"RX_FAILSAFE", "BST", "FAILSAFE", "BOXFAILSAFE", "BAD_RX_RECOVERY",
         "THROTTLE", "RESC", "ARM_SWITCH", "MSP"}

Min2(a, b) == IF a < b THEN a ELSE b
Max2(a, b) == IF a < b THEN b ELSE a

\* A counter of elapsed time stops once it is past the only value it is
\* compared with.
CountUp(n, limit) == IF n > limit THEN n ELSE n + 1

CountDown(n) == IF n = Expired THEN n ELSE n - 1

-----------------------------------------------------------------------------
(* The link monitor: handlers called from rx.c and config.c. *)

\* failsafeOnValidDataReceived(): a frame with valid flight channels.
ValidDataReceived ==
    LET failed == IF sinceFailed = Never THEN 0 ELSE sinceFailed
        up     == failed > RxDataRecoveryPeriod
        bst    == IF up THEN {} ELSE
                  IF sinceFailed = Never THEN {"BST"} ELSE armingDisabled \cap {"BST"}
    IN  /\ sinceReceived' = 0
        /\ sinceFailed' = failed
        /\ rxLinkState' = IF up THEN "UP" ELSE rxLinkState
        /\ armingDisabled' = (armingDisabled \ {"RX_FAILSAFE", "BST"}) \cup bst

\* failsafeOnValidDataFailed(): flight channels invalid, or a stage-2 switch.
ValidDataFailed ==
    /\ sinceFailed' = 0
    /\ rxLinkState' = IF sinceReceived > RxDataFailurePeriod THEN "DOWN" ELSE rxLinkState
    /\ armingDisabled' = armingDisabled \cup {"RX_FAILSAFE"}
    /\ UNCHANGED sinceReceived

\* suspendRxSignal() ... resumeRxSignal() around a flash write that stalls the
\* processor for `stall' ticks: every time stamp ages, and the link is declared
\* up again on the word of a receiver that was last looked at before the stall.
SuspendResume(stall) ==
    /\ sinceReceived' = IF rxSignalReceived THEN 0
                        ELSE Min2(sinceReceived - SuspendPeriod + stall, RxDataFailurePeriod + 1)
    /\ rxLinkState' = IF rxSignalReceived THEN "UP" ELSE rxLinkState
    /\ sinceFailed' = IF sinceFailed = Never THEN Never
                      ELSE Min2(sinceFailed + stall, RxDataRecoveryPeriod + 1)
    /\ throttleLowLeft' = Max2(throttleLowLeft - stall, Expired)
    /\ landingLeft' = Max2(landingLeft - stall, Expired)
    /\ receivingLeft' = Max2(receivingLeft - stall, Expired)

\* failsafeReset(), run by activateConfig() whenever the configuration is
\* read back: the phase and the time stamps, but not `active', not the mode
\* flag and not the arming-disable bits.  Stamp 0 is long past.
ResetState ==
    /\ phase' = "IDLE"
    /\ sinceFailed' = Never
    /\ throttleLowLeft' = Expired
    /\ landingLeft' = Expired
    /\ receivingLeft' = Expired

-----------------------------------------------------------------------------
(* What the phases share. *)

\* disarm() of fc/core.c, as far as the failsafe is concerned.
Disarm ==
    /\ armed' = FALSE
    /\ wasEverArmed' = (wasEverArmed \/ armed)

Activate == active' = TRUE /\ flightMode' = flightMode \cup {"FAILSAFE"}

SameNav == UNCHANGED nav
SameArm == UNCHANGED armVars
Again   == UNCHANGED loopVars
Leave   == loop' = FALSE /\ UNCHANGED <<receiving, armedSample>>

\* The loop leaves these alone.
LoopFrame == UNCHANGED <<configVars, monitoring, linkVars, inputVars>>

-----------------------------------------------------------------------------
(* failsafeCheckDataFailurePeriod() and the part of failsafeUpdateState()   *)
(* before its loop, one scheduler tick after the last call.                 *)

Aged == CountUp(sinceReceived, RxDataFailurePeriod)

\* Mutant: the link is declared down one tick late.
LinkLost_late == Aged > RxDataFailurePeriod + 1

LinkLost == Aged > RxDataFailurePeriod

failsafeTick ==
    LET lost    == LinkLost
        stage2  == monitoring /\ "FAILSAFE" \in box /\ switchMode = "STAGE2"
        link    == IF lost THEN "DOWN" ELSE rxLinkState
    IN  /\ ~loop
        /\ sinceReceived' = Aged
        /\ sinceFailed' = IF stage2 THEN 0
                          ELSE IF sinceFailed = Never THEN Never
                          ELSE CountUp(sinceFailed, RxDataRecoveryPeriod)
        /\ rxLinkState' = link
        /\ armingDisabled' = IF lost \/ stage2 THEN armingDisabled \cup {"RX_FAILSAFE"}
                             ELSE armingDisabled
        /\ throttleLowLeft' = CountDown(throttleLowLeft)
        /\ landingLeft' = CountDown(landingLeft)
        /\ receivingLeft' = CountDown(receivingLeft)
        /\ loop' = monitoring
        /\ receiving' = (monitoring /\ link = "UP" /\ ~stage2)
        /\ armedSample' = (monitoring /\ armed)
        /\ UNCHANGED <<configVars, phase, active, monitoring, armed, wasEverArmed,
                       flightMode, nav, inputVars>>

-----------------------------------------------------------------------------
(* One turn of the loop, by phase. *)

\* The throttle timer is restarted before the rest of the armed IDLE case.
IdleThrottle ==
    throttleLowLeft' = IF ~throttleOff THEN ThrottleLowDelay ELSE throttleLowLeft

KillSwitch == "FAILSAFE" \in box /\ switchMode = "KILL"

idleKill ==
    /\ phase = "IDLE" /\ armedSample /\ KillSwitch
    /\ IdleThrottle
    /\ Activate /\ phase' = "LANDED" /\ Again
    /\ SameNav /\ SameArm /\ UNCHANGED <<landingLeft, receivingLeft>>

\* Link lost: JustDisarm when the throttle has been low long enough.
idleLinkLost ==
    /\ phase = "IDLE" /\ armedSample /\ ~KillSwitch /\ ~receiving
    /\ IdleThrottle
    /\ IF throttleLowLeft' = Expired /\ procedure # "GPS_RESCUE"
       THEN Activate /\ phase' = "LANDED"
       ELSE phase' = "RX_LOSS_DETECTED" /\ UNCHANGED <<active, flightMode>>
    /\ Again /\ SameNav /\ SameArm /\ UNCHANGED <<landingLeft, receivingLeft>>

idleFlying ==
    /\ phase = "IDLE" /\ armedSample /\ ~KillSwitch /\ receiving
    /\ IdleThrottle
    /\ Leave /\ SameNav /\ SameArm
    /\ UNCHANGED <<phase, active, flightMode, landingLeft, receivingLeft>>

\* Disarmed: the mode flag shows the switch, the throttle timer is cleared.
idleDisarmed ==
    /\ phase = "IDLE" /\ ~armedSample
    /\ flightMode' = IF "FAILSAFE" \in box THEN flightMode \cup {"FAILSAFE"}
                     ELSE flightMode \ {"FAILSAFE"}
    /\ throttleLowLeft' = Expired
    /\ Leave /\ SameNav /\ SameArm
    /\ UNCHANGED <<phase, active, landingLeft, receivingLeft>>

lossRecovered ==
    /\ phase = "RX_LOSS_DETECTED" /\ receiving
    /\ phase' = "RX_LOSS_RECOVERED" /\ Again
    /\ SameNav /\ SameArm /\ UNCHANGED <<active, flightMode, timerVars>>

\* Entering stage 2; canRth is navCanRTH(): fix, recorded home, satellites.
lossDetected(canRth) ==
    /\ phase = "RX_LOSS_DETECTED" /\ ~receiving
    /\ active' = TRUE
    /\ \/ /\ procedure = "DROP_IT"
          /\ phase' = "LANDED" /\ flightMode' = flightMode \cup {"FAILSAFE"}
          /\ SameNav /\ UNCHANGED landingLeft
       \/ /\ procedure = "GPS_RESCUE" /\ canRth
          /\ phase' = "GPS_RESCUE" /\ flightMode' = flightMode \cup {"FAILSAFE", "RTH"}
          /\ nav' = "RTH" /\ landingLeft' = OffDelay
       \/ /\ procedure = "AUTO_LANDING" \/ (procedure = "GPS_RESCUE" /\ ~canRth)
          /\ phase' = "LANDING" /\ flightMode' = flightMode \cup {"FAILSAFE"}
          /\ SameNav /\ landingLeft' = OffDelay
    /\ Again /\ SameArm /\ UNCHANGED <<throttleLowLeft, receivingLeft>>

\* Mutant: the glide-home budget is not checked.
LandedByNow_noBudget == ~armedSample

LandedByNow == landingLeft = Expired \/ ~armedSample

landing ==
    /\ phase = "LANDING"
    /\ \/ receiving /\ phase' = "RX_LOSS_RECOVERED" /\ Again
       \/ ~receiving /\ LandedByNow /\ phase' = "LANDED" /\ Again
       \/ ~receiving /\ ~LandedByNow /\ Leave /\ UNCHANGED phase
    /\ SameNav /\ SameArm /\ UNCHANGED <<active, flightMode, timerVars>>

\* With the link back the rescue goes on until the pilot moves a stick
\* (isHandsOn()); its budget is only looked at while the link is down.
gpsRescue(handsOn) ==
    /\ phase = "GPS_RESCUE"
    /\ \/ receiving /\ handsOn /\ phase' = "RX_LOSS_RECOVERED" /\ Again
       \/ receiving /\ ~handsOn /\ Leave /\ UNCHANGED phase
       \/ ~receiving /\ LandedByNow /\ phase' = "LANDED" /\ Again
       \/ ~receiving /\ ~LandedByNow /\ Leave /\ UNCHANGED phase
    /\ SameNav /\ SameArm /\ UNCHANGED <<active, flightMode, timerVars>>

\* Mutant: the arming block is not set.
landed_noBlock ==
    /\ phase = "LANDED"
    /\ nav' = "OFF" /\ flightMode' = flightMode \ {"RTH"}
    /\ Disarm /\ UNCHANGED armingDisabled
    /\ receivingLeft' = RxDataRecoveryPeriod
    /\ phase' = "RX_LOSS_MONITORING" /\ Again
    /\ UNCHANGED <<active, throttleLowLeft, landingLeft>>

landed ==
    /\ phase = "LANDED"
    /\ nav' = "OFF" /\ flightMode' = flightMode \ {"RTH"}
    /\ Disarm /\ armingDisabled' = armingDisabled \cup {"FAILSAFE"}
    /\ receivingLeft' = RxDataRecoveryPeriod
    /\ phase' = "RX_LOSS_MONITORING" /\ Again
    /\ UNCHANGED <<active, throttleLowLeft, landingLeft>>

\* Mutant: an intermittent link does not restart the recovery period.
lossMonitoring_noRestart ==
    /\ phase = "RX_LOSS_MONITORING"
    /\ \/ /\ receiving /\ receivingLeft = Expired
          /\ phase' = "RX_LOSS_RECOVERED" /\ Again
       \/ /\ ~(receiving /\ receivingLeft = Expired)
          /\ Leave /\ UNCHANGED phase
    /\ SameNav /\ SameArm
    /\ UNCHANGED <<active, flightMode, throttleLowLeft, landingLeft, receivingLeft>>

\* Mutant: the recovery period is restarted by every call.
lossMonitoring_restarts ==
    /\ phase = "RX_LOSS_MONITORING"
    /\ \/ /\ receiving /\ receivingLeft = Expired
          /\ phase' = "RX_LOSS_RECOVERED" /\ Again /\ UNCHANGED receivingLeft
       \/ /\ ~(receiving /\ receivingLeft = Expired)
          /\ receivingLeft' = RxDataRecoveryPeriod
          /\ Leave /\ UNCHANGED phase
    /\ SameNav /\ SameArm /\ UNCHANGED <<active, flightMode, throttleLowLeft, landingLeft>>

lossMonitoring ==
    /\ phase = "RX_LOSS_MONITORING"
    /\ \/ /\ receiving /\ receivingLeft = Expired
          /\ phase' = "RX_LOSS_RECOVERED" /\ Again /\ UNCHANGED receivingLeft
       \/ /\ receiving /\ receivingLeft # Expired
          /\ Leave /\ UNCHANGED <<phase, receivingLeft>>
       \/ /\ ~receiving
          /\ receivingLeft' = RxDataRecoveryPeriod
          /\ Leave /\ UNCHANGED phase
    /\ SameNav /\ SameArm /\ UNCHANGED <<active, flightMode, throttleLowLeft, landingLeft>>

\* Mutant: the recovery leaves `active' set.
recovered_active ==
    /\ phase = "RX_LOSS_RECOVERED"
    /\ throttleLowLeft' = ThrottleLowDelay
    /\ phase' = "IDLE" /\ UNCHANGED active
    /\ nav' = "OFF" /\ flightMode' = flightMode \ {"RTH", "FAILSAFE"}
    /\ armingDisabled' = armingDisabled \ {"FAILSAFE"}
    /\ Again
    /\ UNCHANGED <<armed, wasEverArmed, landingLeft, receivingLeft>>

recovered ==
    /\ phase = "RX_LOSS_RECOVERED"
    /\ throttleLowLeft' = ThrottleLowDelay
    /\ phase' = "IDLE" /\ active' = FALSE
    /\ nav' = "OFF" /\ flightMode' = flightMode \ {"RTH", "FAILSAFE"}
    /\ armingDisabled' = armingDisabled \ {"FAILSAFE"}
    /\ Again
    /\ UNCHANGED <<armed, wasEverArmed, landingLeft, receivingLeft>>

\* One turn of the do/while loop of failsafeUpdateState().
failsafeUpdateState ==
    /\ loop
    /\ \/ idleKill \/ idleLinkLost \/ idleFlying \/ idleDisarmed
       \/ lossRecovered
       \/ \E canRth \in BOOLEAN : lossDetected(canRth)
       \/ landing
       \/ \E handsOn \in BOOLEAN : gpsRescue(handsOn)
       \/ landed \/ lossMonitoring \/ recovered
    /\ LoopFrame
=============================================================================
