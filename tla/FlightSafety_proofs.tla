------------------------ MODULE FlightSafety_proofs ------------------------
(***************************************************************************)
(* What holds of FlightSafety for every value of its constants: the        *)
(* lockout after a failsafe disarm, the ownership of the nav modes by a    *)
(* running rescue, and the end of both.  The argument is one inductive     *)
(* invariant, FailsafeInv, which extends the properties of the resting     *)
(* phases to the phases between two turns of the failsafe's loop.          *)
(***************************************************************************)
EXTENDS FlightSafety, TLAPS

\* Between two calls the machine waits in one of four phases.
RestsBetweenCalls ==
    ~loop => phase \in {"IDLE", "LANDING", "GPS_RESCUE", "RX_LOSS_MONITORING"}

\* From the start of stage 2 to the end of the lockout the failsafe is active.
ActiveInStageTwo ==
    phase \in {"LANDING", "GPS_RESCUE", "LANDED", "RX_LOSS_MONITORING"}
        => active = TRUE /\ "FAILSAFE" \in flightMode

LockedOut ==
    phase = "RX_LOSS_MONITORING" => armed = FALSE /\ "FAILSAFE" \in armingDisabled

RescueFlies ==
    phase = "GPS_RESCUE" => "RTH" \in flightMode /\ nav = "RTH"

NavNeedsMode == nav # "OFF" => "RTH" \in flightMode \/ "LOITER" \in flightMode

\* Without a reload nothing of a failsafe is left in the phases before stage 2,
\* and the block belongs to the lockout.
NothingLeftOver ==
    reloaded = FALSE =>
        /\ phase \in {"IDLE", "RX_LOSS_DETECTED"} => active = FALSE
        /\ "FAILSAFE" \in armingDisabled => phase \in {"RX_LOSS_MONITORING", "RX_LOSS_RECOVERED"}

FailsafeInv ==
    /\ RestsBetweenCalls /\ ActiveInStageTwo /\ LockedOut
    /\ RescueFlies /\ NavNeedsMode /\ NothingLeftOver

-----------------------------------------------------------------------------
(* The arming code keeps the failsafe's block. *)

\* updateArmingStatus() neither sets nor clears ARMING_DISABLED_FAILSAFE.
LEMMA UpdatedFlagsKeepBlock ==
    ASSUME NEW grace \in Graces
    PROVE  "FAILSAFE" \in UpdatedFlags(grace) <=> "FAILSAFE" \in armingDisabled
BY DEF UpdatedFlags, ArmSwitch, BadRxRecovery, Set

\* No path of processRcStickPositions() arms through the block, or touches it.
LEMMA SticksKeepBlock ==
    ASSUME processRcStickPositions
    PROVE  /\ "FAILSAFE" \in armingDisabled' <=> "FAILSAFE" \in armingDisabled
           /\ armed = FALSE /\ "FAILSAFE" \in armingDisabled => armed' = FALSE
<1>1. CASE "ARM" \in box
  <2>1. PICK grace \in Graces : /\ armingDisabled' = UpdatedFlags(grace)
                                /\ UpdatedFlags(grace) # {} => armed' = armed
    BY <1>1 DEF processRcStickPositions, tryArm
  <2>2. "FAILSAFE" \in armingDisabled => UpdatedFlags(grace) # {}
    BY UpdatedFlagsKeepBlock
  <2> QED BY <2>1, <2>2, UpdatedFlagsKeepBlock
<1>2. CASE "ARM" \notin box
  BY <1>2 DEF processRcStickPositions, ArmSwitchOff, Disarm
<1> QED BY <1>1, <1>2

-----------------------------------------------------------------------------
(* FailsafeInv is inductive: the steps of the failsafe. *)

\* Outside the loop the failsafe's variables are left alone by a step; what the
\* step must keep then is the block, the mode flags of a rescue and the disarm.
LEMMA OutsideLoop ==
    ASSUME FailsafeInv, loop = FALSE,
           UNCHANGED <<phase, active, reloaded>>,
           "FAILSAFE" \in flightMode => "FAILSAFE" \in flightMode',
           "FAILSAFE" \in armingDisabled' <=> "FAILSAFE" \in armingDisabled,
           armed = FALSE /\ "FAILSAFE" \in armingDisabled => armed' = FALSE,
           RescueFlies', NavNeedsMode'
    PROVE  FailsafeInv'
BY DEF FailsafeInv, RestsBetweenCalls, ActiveInStageTwo, LockedOut, RescueFlies,
       NavNeedsMode, NothingLeftOver

\* failsafeUpdateState(), turn by turn: a call that leaves its loop does so in a
\* resting phase, and each turn hands on what the next one relies on.
LEMMA LoopKeepsInv ==
    ASSUME FailsafeInv, loop, FailsafeUpdate
    PROVE  FailsafeInv'
<1> USE DEF FailsafeInv, RestsBetweenCalls, ActiveInStageTwo, LockedOut, RescueFlies,
            NavNeedsMode, NothingLeftOver
<1>1. UNCHANGED reloaded
  BY DEF FailsafeUpdate
<1>2. CASE idleKill \/ idleLinkLost \/ idleFlying \/ idleDisarmed
  BY <1>1, <1>2 DEF idleKill, idleLinkLost, idleFlying, idleDisarmed, Activate, Again, Leave,
         SameNav, SameArm, armVars, loopVars
<1>3. CASE lossRecovered
  BY <1>1, <1>3 DEF lossRecovered, Again, SameNav, SameArm, armVars, loopVars
<1>4. CASE \E canRth \in BOOLEAN : lossDetected(canRth)
  BY <1>1, <1>4 DEF lossDetected, Again, SameNav, SameArm, armVars, loopVars
<1>5. CASE landing
  BY <1>1, <1>5 DEF landing, Again, Leave, SameNav, SameArm, armVars, loopVars
<1>6. CASE \E handsOn \in BOOLEAN : gpsRescue(handsOn)
  BY <1>1, <1>6 DEF gpsRescue, Again, Leave, SameNav, SameArm, armVars, loopVars
<1>7. CASE landed
  BY <1>1, <1>7 DEF landed, Disarm, Again, loopVars
<1>8. CASE lossMonitoring
  BY <1>1, <1>8 DEF lossMonitoring, Again, Leave, SameNav, SameArm, armVars, loopVars
<1>9. CASE recovered
  BY <1>1, <1>9 DEF recovered, Again, loopVars
<1> QED
  BY <1>2, <1>3, <1>4, <1>5, <1>6, <1>7, <1>8, <1>9 DEF FailsafeUpdate, failsafeUpdateState

\* The tick leaves everything but the link, the timers and the loop alone.
LEMMA TickKeepsInv ==
    ASSUME FailsafeInv, FailsafeTick
    PROVE  FailsafeInv'
<1>1. /\ loop = FALSE
      /\ UNCHANGED <<phase, active, armed, flightMode, nav, reloaded>>
      /\ "FAILSAFE" \in armingDisabled' <=> "FAILSAFE" \in armingDisabled
  BY DEF FailsafeTick, failsafeTick
<1> QED
  BY <1>1 DEF FailsafeInv, RestsBetweenCalls, ActiveInStageTwo, LockedOut, RescueFlies,
       NavNeedsMode, NothingLeftOver

-----------------------------------------------------------------------------
(* The steps of the RX task. *)

\* processRx(): the link monitor touches its own two arming bits only.
LEMMA CheckKeepsInv ==
    ASSUME FailsafeInv, NEW backup, NEW pulses, processRx(backup, pulses)
    PROVE  FailsafeInv'
<1>1. /\ loop = FALSE
      /\ UNCHANGED <<phase, active, armed, flightMode, nav, reloaded>>
  BY DEF processRx, loopVars, statics, history
<1>2. "FAILSAFE" \in armingDisabled' <=> "FAILSAFE" \in armingDisabled
  BY DEF processRx, ValidDataReceived, ValidDataFailed
<1>3. RescueFlies' /\ NavNeedsMode'
  BY <1>1 DEF FailsafeInv, RescueFlies, NavNeedsMode
<1> QED
  BY <1>1, <1>2, <1>3, OutsideLoop

\* processRxModes(): it re-evaluates RTH_MODE and LOITER_MODE from the switches,
\* and leaves both to a rescue that is running.
LEMMA ModesKeepInv ==
    ASSUME FailsafeInv, NEW newBox, processRxModes(newBox)
    PROVE  FailsafeInv'
<1>1. /\ loop = FALSE
      /\ UNCHANGED <<phase, active, reloaded>>
      /\ processRcStickPositions /\ NavModes(newBox)
  BY DEF processRxModes, failsafeVars, processRcStickPositions
<1>2. /\ "FAILSAFE" \in flightMode => "FAILSAFE" \in flightMode'
      /\ NavNeedsMode'
  BY <1>1 DEF NavModes, Set, NavNeedsMode
<1>3. ASSUME phase = "GPS_RESCUE" PROVE "RTH" \in flightMode' /\ nav' = "RTH"
  <2>1. active = TRUE /\ "RTH" \in flightMode /\ nav = "RTH"
    BY <1>3 DEF FailsafeInv, ActiveInStageTwo, RescueFlies
  <2>2. Rth(newBox).on = TRUE /\ Rth(newBox).nav = "RTH"
    BY <1>3, <2>1 DEF Rth
  <2> QED BY <1>1, <2>2 DEF NavModes, Set
<1>4. RescueFlies'
  BY <1>1, <1>3 DEF RescueFlies
<1> QED
  BY <1>1, <1>2, <1>4, OutsideLoop, SticksKeepBlock

\* updateArmingStatus().
LEMMA UpdateKeepsInv ==
    ASSUME FailsafeInv, updateArmingStatus
    PROVE  FailsafeInv'
<1>1. /\ loop = FALSE
      /\ UNCHANGED <<phase, active, armed, flightMode, nav, reloaded>>
      /\ \E grace \in Graces : armingDisabled' = UpdatedFlags(grace)
  BY DEF updateArmingStatus, failsafeVars, history
<1>2. RescueFlies' /\ NavNeedsMode'
  BY <1>1 DEF FailsafeInv, RescueFlies, NavNeedsMode
<1> QED
  BY <1>1, <1>2, OutsideLoop, UpdatedFlagsKeepBlock

-----------------------------------------------------------------------------
(* The other tasks. *)

\* MSP may disarm, and blocks or unblocks arming with a bit of its own.
LEMMA MspKeepsInv ==
    ASSUME FailsafeInv, NEW command, mspSetArmingDisabled(command)
    PROVE  FailsafeInv'
<1>1. /\ loop = FALSE
      /\ UNCHANGED <<phase, active, flightMode, nav, reloaded>>
      /\ "FAILSAFE" \in armingDisabled' <=> "FAILSAFE" \in armingDisabled
      /\ armed = FALSE => armed' = FALSE
  BY DEF mspSetArmingDisabled, failsafeVars, Set, Disarm
<1>2. RescueFlies' /\ NavNeedsMode'
  BY <1>1 DEF FailsafeInv, RescueFlies, NavNeedsMode
<1> QED
  BY <1>1, <1>2, OutsideLoop

\* A reload sends the machine to IDLE; what it leaves set is excused by the flag.
LEMMA ReloadKeepsInv ==
    ASSUME FailsafeInv, writeReadEeprom
    PROVE  FailsafeInv'
<1>1. /\ loop = FALSE /\ phase' = "IDLE" /\ reloaded' = TRUE
      /\ UNCHANGED <<loop, flightMode, nav>>
  BY DEF writeReadEeprom, ResetState, loopVars
<1> QED
  BY <1>1 DEF FailsafeInv, RestsBetweenCalls, ActiveInStageTwo, LockedOut, RescueFlies,
       NavNeedsMode, NothingLeftOver

\* Steps that touch none of the variables the invariant speaks of.
LEMMA FrameKeepsInv ==
    ASSUME FailsafeInv,
           UNCHANGED <<loop, phase, active, armed, armingDisabled, flightMode, nav, reloaded>>
    PROVE  FailsafeInv'
BY DEF FailsafeInv, RestsBetweenCalls, ActiveInStageTwo, LockedOut, RescueFlies,
       NavNeedsMode, NothingLeftOver

-----------------------------------------------------------------------------
\* The board starts with nothing armed, active or blocked.
LEMMA InitEstablishesInv == Init => FailsafeInv
BY DEF Init, FailsafeInv, RestsBetweenCalls, ActiveInStageTwo, LockedOut, RescueFlies,
       NavNeedsMode, NothingLeftOver

\* Every step of the tasks, of MSP and of the configuration store keeps FailsafeInv.
LEMMA StepKeepsInv == FailsafeInv /\ [Next]_vars => FailsafeInv'
<1> SUFFICES ASSUME FailsafeInv, [Next]_vars PROVE FailsafeInv'
  OBVIOUS
<1>1. CASE rxFrameCheck
  BY <1>1, FrameKeepsInv DEF rxFrameCheck, failsafeVars, loopVars, armVars, history
<1>2. CASE RxTask
  BY <1>2, CheckKeepsInv, ModesKeepInv, UpdateKeepsInv DEF RxTask
<1>3. CASE FailsafeTick
  BY <1>3, TickKeepsInv
<1>4. CASE FailsafeUpdate
  BY <1>4, LoopKeepsInv DEF FailsafeUpdate, failsafeUpdateState
<1>5. CASE \E command \in BOOLEAN : mspSetArmingDisabled(command)
  BY <1>5, MspKeepsInv
<1>6. CASE \E stall \in 0 .. SuspendPeriod : writeEEPROM(stall)
  BY <1>6, FrameKeepsInv DEF writeEEPROM, loopVars, armVars, history
<1>7. CASE writeReadEeprom
  BY <1>7, ReloadKeepsInv
<1>8. CASE UNCHANGED vars
  BY <1>8, FrameKeepsInv DEF vars, failsafeVars, loopVars, armVars, history
<1> QED
  BY <1>1, <1>2, <1>3, <1>4, <1>5, <1>6, <1>7, <1>8 DEF Next

\* The invariant of failsafe.c that the four theorems below are read from.
THEOREM FailsafeInvHolds == Spec => []FailsafeInv
BY InitEstablishesInv, StepKeepsInv, PTL DEF Spec

\* A failsafe that waits for the link after a disarm keeps the motor disarmed and
\* the arming block set, for every configuration, length of delay and switch.
THEOREM LockoutTheorem == Spec => []LockoutHolds
<1>1. FailsafeInv => LockoutHolds
  BY DEF FailsafeInv, LockoutHolds, RestsBetweenCalls, ActiveInStageTwo, LockedOut
<1> QED
  BY <1>1, FailsafeInvHolds, PTL

\* Neither `active' nor the arming block outlives the failsafe it belongs to,
\* unless a configuration has been read back under it.
THEOREM BlockTheorem == Spec => []BlockEndsWithFailsafe
<1>1. FailsafeInv => BlockEndsWithFailsafe
  BY DEF FailsafeInv, BlockEndsWithFailsafe, RestsBetweenCalls, ActiveInStageTwo, LockedOut,
         NothingLeftOver
<1> QED
  BY <1>1, FailsafeInvHolds, PTL

\* A running rescue keeps RTH_MODE and its nav target against the RX task.
THEOREM RescueTheorem == Spec => []RescueKeepsNav
<1>1. FailsafeInv => RescueKeepsNav
  BY DEF FailsafeInv, RescueKeepsNav, RescueFlies
<1> QED
  BY <1>1, FailsafeInvHolds, PTL

\* The nav controller never runs without a nav mode.
THEOREM NavTheorem == Spec => []NavOwned
<1>1. FailsafeInv => NavOwned
  BY DEF FailsafeInv, NavOwned, NavNeedsMode
<1> QED
  BY <1>1, FailsafeInvHolds, PTL

-----------------------------------------------------------------------------
(* Type correctness: every timer stays within its period. *)

\* The periods are numbers.
LEMMA ConstantsNat ==
    /\ RxDataFailurePeriod \in Nat /\ RxDataRecoveryPeriod \in Nat
    /\ ThrottleLowDelay \in Nat /\ OffDelay \in Nat /\ SuspendPeriod \in Nat
    /\ DisarmDebounce \in Nat /\ MaxRxLag \in Nat /\ PowerOnDelay \in Nat /\ MaxSaves \in Nat
BY FailsafeAssumption, FlightSafetyAssumption DEF FailsafeAssumption, FlightSafetyAssumption

\* A count-up stops one past its limit.
LEMMA CountUpBounds ==
    ASSUME NEW limit \in Nat, NEW n \in Int, n <= limit + 1
    PROVE  CountUp(n, limit) \in Int /\ CountUp(n, limit) <= limit + 1
BY DEF CountUp

\* A count-up that was never started stays so.
LEMMA CountUpRange ==
    ASSUME NEW limit \in Nat, NEW n \in Never .. limit + 1
    PROVE  CountUp(n, limit) \in Never .. limit + 1
BY DEF CountUp, Never

\* A countdown stops when it has expired.
LEMMA CountDownRange ==
    ASSUME NEW limit \in Nat, NEW n \in Expired .. limit
    PROVE  CountDown(n) \in Expired .. limit
BY DEF CountDown, Expired

\* updateArmingStatus() leaves arming-disable flags.
LEMMA FlagsTyped ==
    ASSUME armingDisabled \subseteq Flag, NEW grace \in Graces
    PROVE  UpdatedFlags(grace) \subseteq Flag
BY DEF UpdatedFlags, ArmSwitch, BadRxRecovery, Set, Flag

\* The flags of all tasks,
FlagTypeOK ==
    /\ active \in BOOLEAN /\ monitoring \in BOOLEAN
    /\ loop \in BOOLEAN /\ receiving \in BOOLEAN /\ armedSample \in BOOLEAN
    /\ armed \in BOOLEAN /\ wasEverArmed \in BOOLEAN
    /\ throttleOff \in BOOLEAN /\ rxSignalReceived \in BOOLEAN
    /\ rxPending \in BOOLEAN /\ live \in BOOLEAN /\ hadRx \in BOOLEAN
    /\ wasRthActive \in BOOLEAN /\ wasLoiterActive \in BOOLEAN
    /\ reloaded \in BOOLEAN /\ cycled \in BOOLEAN /\ stalled \in BOOLEAN

\* the states and sets of modes,
ModeTypeOK ==
    /\ procedure \in Procedures /\ switchMode \in SwitchModes /\ mapped \subseteq Box
    /\ phase \in Phase /\ rxLinkState \in {"UP", "DOWN"}
    /\ armingDisabled \subseteq Flag
    /\ flightMode \subseteq {"FAILSAFE", "RTH", "LOITER"}
    /\ nav \in {"OFF", "RTH", "LOITER"}
    /\ box \subseteq Box
    /\ rxStage \in {"CHECK", "MODES", "UPDATE"}

\* and the timers and counters.
TimerTypeOK ==
    /\ sinceReceived \in Int /\ sinceReceived <= RxDataFailurePeriod + 1
    /\ sinceFailed \in Never .. RxDataRecoveryPeriod + 1
    /\ throttleLowLeft \in Expired .. ThrottleLowDelay
    /\ landingLeft \in Expired .. OffDelay
    /\ receivingLeft \in Expired .. RxDataRecoveryPeriod
    /\ rxLag \in 0 .. MaxRxLag /\ uptime \in 0 .. PowerOnDelay
    /\ rcDisarmTicks \in 0 .. DisarmDebounce + 1
    /\ saves \in 0 .. MaxSaves
    /\ goodFor \in 0 .. RxDataRecoveryPeriod + 1
    /\ downFor \in 0 .. OffDelay + 2

\* TypeOK is its three parts.
LEMMA TypeParts == TypeOK <=> FlagTypeOK /\ ModeTypeOK /\ TimerTypeOK
BY DEF TypeOK, FlagTypeOK, ModeTypeOK, TimerTypeOK

\* So it is after a step.
LEMMA TypePartsNext ==
    ASSUME FlagTypeOK', ModeTypeOK', TimerTypeOK'
    PROVE  TypeOK'
BY DEF TypeOK, FlagTypeOK, ModeTypeOK, TimerTypeOK

\* The types at boot.
LEMMA InitTyped == Init => TypeOK
<1> SUFFICES ASSUME Init PROVE TypeOK
  OBVIOUS
<1>1. FlagTypeOK
  BY DEF Init, FlagTypeOK
<1>2. ModeTypeOK
  <2>1. procedure \in Procedures /\ switchMode \in SwitchModes /\ mapped \subseteq Box
    BY FailsafeAssumption DEF Init, FailsafeAssumption
  <2> QED BY <2>1 DEF Init, ModeTypeOK, Phase
<1>3. TimerTypeOK
  BY ConstantsNat DEF Init, TimerTypeOK, Never, Expired
<1> QED
  BY <1>1, <1>2, <1>3, TypeParts

\* A turn of failsafeUpdateState() keeps the types of the flags.
LEMMA LoopFlagsTyped ==
    ASSUME FlagTypeOK, FailsafeUpdate
    PROVE  FlagTypeOK'
<1>1. LoopFrame /\ failsafeUpdateState /\ UNCHANGED <<rxTaskVars, statics, saves, reloaded, goodFor, downFor>>
      /\ cycled' \in BOOLEAN /\ stalled' \in BOOLEAN
  BY DEF FailsafeUpdate, failsafeUpdateState
<1>2. active' \in BOOLEAN /\ armed' \in BOOLEAN /\ wasEverArmed' \in BOOLEAN /\ loop' \in BOOLEAN
      /\ UNCHANGED <<receiving, armedSample>>
  <2>1. CASE idleKill \/ idleLinkLost \/ idleFlying \/ idleDisarmed
    BY <2>1 DEF idleKill, idleLinkLost, idleFlying, idleDisarmed, Activate, FlagTypeOK, Again, Leave,
         SameArm, armVars, loopVars
  <2>2. CASE lossRecovered \/ landing \/ lossMonitoring \/ recovered
    BY <2>2 DEF lossRecovered, landing, lossMonitoring, recovered, FlagTypeOK, Again, Leave,
         SameArm, armVars, loopVars
  <2>3. CASE \E canRth \in BOOLEAN : lossDetected(canRth)
    BY <2>3 DEF lossDetected, FlagTypeOK, Again, Leave,
         SameArm, armVars, loopVars
  <2>4. CASE \E handsOn \in BOOLEAN : gpsRescue(handsOn)
    BY <2>4 DEF gpsRescue, FlagTypeOK, Again, Leave,
         SameArm, armVars, loopVars
  <2>5. CASE landed
    BY <2>5 DEF landed, Disarm, FlagTypeOK, Again, Leave,
         SameArm, armVars, loopVars
  <2> QED BY <1>1, <2>1, <2>2, <2>3, <2>4, <2>5 DEF failsafeUpdateState
<1> QED
  BY <1>1, <1>2 DEF FlagTypeOK, LoopFrame, inputVars, rxTaskVars, statics

\* A turn leaves a timer, restarts it, or marks the throttle timer as expired.
LEMMA LoopTimers ==
    ASSUME FailsafeUpdate
    PROVE  /\ throttleLowLeft' = throttleLowLeft \/ throttleLowLeft' = ThrottleLowDelay
                \/ throttleLowLeft' = Expired
           /\ landingLeft' = landingLeft \/ landingLeft' = OffDelay
           /\ receivingLeft' = receivingLeft \/ receivingLeft' = RxDataRecoveryPeriod
<1>1. CASE idleKill \/ idleLinkLost \/ idleFlying \/ idleDisarmed
  BY <1>1 DEF idleKill, idleLinkLost, idleFlying, idleDisarmed, IdleThrottle
<1>2. CASE lossRecovered \/ landing \/ lossMonitoring \/ recovered
  BY <1>2 DEF lossRecovered, landing, lossMonitoring, recovered, timerVars
<1>3. CASE \E canRth \in BOOLEAN : lossDetected(canRth)
  BY <1>3 DEF lossDetected
<1>4. CASE \E handsOn \in BOOLEAN : gpsRescue(handsOn)
  BY <1>4 DEF gpsRescue, timerVars
<1>5. CASE landed
  BY <1>5 DEF landed
<1> QED
  BY <1>1, <1>2, <1>3, <1>4, <1>5 DEF FailsafeUpdate, failsafeUpdateState

\* A turn of failsafeUpdateState() keeps the types.
LEMMA LoopTyped ==
    ASSUME TypeOK, FailsafeUpdate
    PROVE  TypeOK'
<1>1. FlagTypeOK /\ ModeTypeOK /\ TimerTypeOK
  BY TypeParts
<1>2. LoopFrame /\ failsafeUpdateState /\ UNCHANGED <<rxTaskVars, statics, saves, reloaded, goodFor, downFor>>
  BY DEF FailsafeUpdate, failsafeUpdateState
<1>3. FlagTypeOK'
  BY <1>1, LoopFlagsTyped
<1>4. ModeTypeOK'
  BY <1>1, <1>2 DEF ModeTypeOK, Phase, Flag,
        Again, Leave, SameNav, SameArm, armVars, loopVars, timerVars, configVars, linkVars, inputVars,
        rxTaskVars, statics, LoopFrame, failsafeUpdateState,
        idleKill, idleLinkLost, idleFlying, idleDisarmed, IdleThrottle, Activate,
        lossRecovered, landing, lossMonitoring, recovered, lossDetected, gpsRescue, landed, Disarm
<1>5. TimerTypeOK'
  <2>1. UNCHANGED <<sinceReceived, sinceFailed, rxLag, uptime, rcDisarmTicks, saves, goodFor, downFor>>
    BY <1>2 DEF LoopFrame, linkVars, rxTaskVars, statics
  <2>2. /\ throttleLowLeft' \in Expired .. ThrottleLowDelay
        /\ landingLeft' \in Expired .. OffDelay
        /\ receivingLeft' \in Expired .. RxDataRecoveryPeriod
    BY <1>1, LoopTimers, ConstantsNat DEF TimerTypeOK, Expired
  <2> QED
    BY <1>1, <2>1, <2>2 DEF TimerTypeOK
<1> QED
  BY <1>3, <1>4, <1>5, TypePartsNext

\* The head of failsafeUpdateState() keeps the types.
LEMMA TickTyped ==
    ASSUME TypeOK, FailsafeTick
    PROVE  TypeOK'
<1>1. FlagTypeOK /\ ModeTypeOK /\ TimerTypeOK
  BY TypeParts
<1>2. FlagTypeOK'
  BY <1>1 DEF FlagTypeOK, FailsafeTick, failsafeTick, inputVars, statics
<1>3. ModeTypeOK'
  BY <1>1 DEF ModeTypeOK, FailsafeTick, failsafeTick, configVars, inputVars, Flag
<1>4. TimerTypeOK'
  <2>1. sinceReceived' \in Int /\ sinceReceived' <= RxDataFailurePeriod + 1
    BY <1>1, ConstantsNat, CountUpBounds DEF TimerTypeOK, FailsafeTick, failsafeTick, Aged
  <2>2. sinceFailed' \in Never .. RxDataRecoveryPeriod + 1
    <3>1. \/ sinceFailed' = 0 \/ sinceFailed' = Never
          \/ sinceFailed' = CountUp(sinceFailed, RxDataRecoveryPeriod)
      BY DEF FailsafeTick, failsafeTick
    <3> QED
      BY <1>1, <3>1, ConstantsNat, CountUpRange DEF TimerTypeOK, Never
  <2>3. /\ throttleLowLeft' \in Expired .. ThrottleLowDelay
        /\ landingLeft' \in Expired .. OffDelay
        /\ receivingLeft' \in Expired .. RxDataRecoveryPeriod
    <3>1. /\ throttleLowLeft' = CountDown(throttleLowLeft)
          /\ landingLeft' = CountDown(landingLeft)
          /\ receivingLeft' = CountDown(receivingLeft)
      BY DEF FailsafeTick, failsafeTick
    <3> QED
      BY <1>1, <3>1, ConstantsNat, CountDownRange DEF TimerTypeOK
  <2>4. rxLag' \in 0 .. MaxRxLag /\ uptime' \in 0 .. PowerOnDelay
    BY <1>1, ConstantsNat DEF TimerTypeOK, FailsafeTick, Min2
  <2>5. goodFor' \in 0 .. RxDataRecoveryPeriod + 1 /\ downFor' \in 0 .. OffDelay + 2
    <3>1. /\ goodFor' = 0 \/ goodFor' = Min2(goodFor + 1, RxDataRecoveryPeriod + 1)
          /\ downFor' = 0 \/ downFor' = Min2(downFor + 1, OffDelay + 2)
      BY DEF FailsafeTick
    <3> QED
      BY <1>1, <3>1, ConstantsNat DEF TimerTypeOK, Min2
  <2>6. UNCHANGED <<rcDisarmTicks, saves>>
    BY DEF FailsafeTick, statics
  <2> QED
    BY <1>1, <2>1, <2>2, <2>3, <2>4, <2>5, <2>6 DEF TimerTypeOK
<1> QED
  BY <1>2, <1>3, <1>4, TypePartsNext

\* The frame check keeps the types.
LEMMA FrameCheckTyped ==
    ASSUME TypeOK, rxFrameCheck
    PROVE  TypeOK'
<1>1. FlagTypeOK /\ ModeTypeOK /\ TimerTypeOK
  BY TypeParts
<1>2. FlagTypeOK'
  <2>1. /\ rxSignalReceived' = TRUE \/ rxSignalReceived' = FALSE
           \/ rxSignalReceived' = rxSignalReceived
        /\ rxPending' = TRUE
        /\ UNCHANGED <<active, monitoring, loop, receiving, armedSample, armed, wasEverArmed,
                        throttleOff, live, hadRx, wasRthActive, wasLoiterActive, reloaded, cycled, stalled>>
    BY DEF rxFrameCheck, failsafeVars, loopVars, armVars, statics, history
  <2>2. rxSignalReceived' \in BOOLEAN
    BY <1>1, <2>1 DEF FlagTypeOK
  <2>3. rxPending' \in BOOLEAN
    BY <2>1
  <2> QED BY <1>1, <2>1, <2>2, <2>3 DEF FlagTypeOK
<1>3. ModeTypeOK'
  BY <1>1 DEF ModeTypeOK, rxFrameCheck, failsafeVars, configVars, linkVars, armVars
<1>4. TimerTypeOK'
  BY <1>1 DEF TimerTypeOK, rxFrameCheck, failsafeVars, linkVars, timerVars, statics, history
<1> QED
  BY <1>2, <1>3, <1>4, TypePartsNext

\* The first stage of the RX task keeps the types.
LEMMA CheckTyped ==
    ASSUME TypeOK, NEW backup \in BOOLEAN, NEW pulses \in BOOLEAN, processRx(backup, pulses)
    PROVE  TypeOK'
<1>1. FlagTypeOK /\ ModeTypeOK /\ TimerTypeOK
  BY TypeParts
<1>2. FlagTypeOK'
  <2>1. throttleOff' \in BOOLEAN
    <3>1. ThrottleSample(backup, pulses) \subseteq BOOLEAN
      BY <1>1 DEF ThrottleSample, FlagTypeOK
    <3> QED BY <3>1 DEF processRx
  <2>2. /\ live' \in BOOLEAN /\ monitoring' \in BOOLEAN /\ rxPending' \in BOOLEAN
        /\ UNCHANGED <<active, loop, receiving, armedSample, armed, wasEverArmed, rxSignalReceived,
                        hadRx, wasRthActive, wasLoiterActive, reloaded, cycled, stalled>>
    BY DEF processRx, loopVars, statics, history
  <2> QED BY <1>1, <2>1, <2>2 DEF FlagTypeOK
<1>3. ModeTypeOK'
  BY <1>1 DEF ModeTypeOK, processRx, ValidDataReceived, ValidDataFailed, configVars, Flag
<1>4. TimerTypeOK'
  <2>1. /\ sinceReceived' = sinceReceived \/ sinceReceived' = 0
        /\ sinceFailed' = sinceFailed \/ sinceFailed' = 0
        /\ UNCHANGED <<throttleLowLeft, landingLeft, receivingLeft, rxLag, uptime,
                        rcDisarmTicks, saves, goodFor, downFor>>
    BY DEF processRx, ValidDataReceived, ValidDataFailed, timerVars, statics, history
  <2> QED BY <1>1, <2>1, ConstantsNat DEF TimerTypeOK, Never
<1> QED
  BY <1>2, <1>3, <1>4, TypePartsNext

\* The switch handling of one round.
LEMMA SticksTyped ==
    ASSUME TypeOK, processRcStickPositions
    PROVE  /\ armed' \in BOOLEAN /\ wasEverArmed' \in BOOLEAN /\ hadRx' \in BOOLEAN
           /\ armingDisabled' \subseteq Flag
           /\ cycled' \in BOOLEAN /\ reloaded' \in BOOLEAN /\ stalled' \in BOOLEAN
           /\ rcDisarmTicks' \in 0 .. DisarmDebounce + 1
           /\ goodFor' = goodFor /\ (downFor' = downFor \/ downFor' = 0)
<1>1. FlagTypeOK /\ ModeTypeOK /\ TimerTypeOK
  BY TypeParts
<1>2. /\ cycled' \in BOOLEAN /\ reloaded' \in BOOLEAN /\ stalled' \in BOOLEAN
  BY <1>1 DEF processRcStickPositions, FlagTypeOK
<1>3. goodFor' = goodFor /\ (downFor' = downFor \/ downFor' = 0)
  BY DEF processRcStickPositions, CountWhileArmed
<1>4. CASE "ARM" \in box
  <2>1. rcDisarmTicks' = 0 /\ tryArm
    BY <1>4 DEF processRcStickPositions
  <2>2. armed' \in BOOLEAN /\ wasEverArmed' \in BOOLEAN /\ hadRx' \in BOOLEAN
    BY <1>1, <2>1 DEF tryArm, SampleRx, FlagTypeOK
  <2>3. armingDisabled' \subseteq Flag
    BY <1>1, <2>1, FlagsTyped DEF tryArm, ModeTypeOK
  <2>4. rcDisarmTicks' \in 0 .. DisarmDebounce + 1
    BY <2>1, ConstantsNat
  <2> QED BY <1>2, <1>3, <2>2, <2>3, <2>4
<1>5. CASE "ARM" \notin box
  <2>1. ArmSwitchOff
    BY <1>5 DEF processRcStickPositions
  <2>2. armed' \in BOOLEAN /\ wasEverArmed' \in BOOLEAN /\ hadRx' \in BOOLEAN
    BY <1>1, <2>1 DEF ArmSwitchOff, Disarm, FlagTypeOK
  <2>3. armingDisabled' \subseteq Flag
    BY <1>1, <2>1 DEF ArmSwitchOff, ModeTypeOK
  <2>4. rcDisarmTicks' \in 0 .. DisarmDebounce + 1
    <3>1. rcDisarmTicks' = rcDisarmTicks \/ rcDisarmTicks' = Min2(rcDisarmTicks + 1, DisarmDebounce + 1)
      BY <2>1 DEF ArmSwitchOff
    <3> QED BY <1>1, <3>1, ConstantsNat DEF TimerTypeOK, Min2
  <2> QED BY <1>2, <1>3, <2>2, <2>3, <2>4
<1> QED BY <1>4, <1>5

\* The second stage of the RX task keeps the types.
LEMMA ModesTyped ==
    ASSUME TypeOK, NEW newBox \in SUBSET mapped, processRxModes(newBox)
    PROVE  TypeOK'
<1>1. FlagTypeOK /\ ModeTypeOK /\ TimerTypeOK
  BY TypeParts
<1>2. processRcStickPositions /\ NavModes(newBox)
  BY DEF processRxModes, processRcStickPositions
<1>3. Rth(newBox).on \in BOOLEAN /\ Rth(newBox).was \in BOOLEAN
      /\ Rth(newBox).nav \in {"OFF", "RTH", "LOITER"}
  <2>1. CASE armed' /\ "RTH" \in newBox
    <3>1. /\ Rth(newBox).on = TRUE /\ Rth(newBox).was = TRUE
          /\ Rth(newBox).nav = "RTH" \/ Rth(newBox).nav = nav
      BY <2>1 DEF Rth
    <3> QED BY <1>1, <3>1 DEF ModeTypeOK
  <2>2. CASE ~(armed' /\ "RTH" \in newBox) /\ active /\ phase = "GPS_RESCUE"
    <3>1. /\ Rth(newBox).on = ("RTH" \in flightMode) /\ Rth(newBox).was = wasRthActive
          /\ Rth(newBox).nav = nav
      BY <2>2 DEF Rth
    <3> QED BY <1>1, <3>1 DEF FlagTypeOK, ModeTypeOK
  <2>3. CASE ~(armed' /\ "RTH" \in newBox) /\ ~(active /\ phase = "GPS_RESCUE")
    <3>1. /\ Rth(newBox).on = FALSE /\ Rth(newBox).was = FALSE
          /\ Rth(newBox).nav = nav
      BY <2>3 DEF Rth
    <3> QED BY <1>1, <3>1 DEF ModeTypeOK
  <2> QED BY <2>1, <2>2, <2>3
<1>4. FlagTypeOK'
  <2>1. wasRthActive' \in BOOLEAN /\ wasLoiterActive' \in BOOLEAN
    BY <1>2, <1>3 DEF NavModes
  <2>2. UNCHANGED <<active, monitoring, loop, receiving, armedSample, throttleOff,
                    rxSignalReceived, rxPending, live>>
    BY DEF processRxModes, failsafeVars, loopVars
  <2> QED BY <1>1, <1>2, <2>1, <2>2, SticksTyped DEF FlagTypeOK
<1>5. ModeTypeOK'
  <2>1. flightMode' \subseteq {"FAILSAFE", "RTH", "LOITER"}
    BY <1>1, <1>2 DEF NavModes, Set, ModeTypeOK
  <2>2. nav' \in {"OFF", "RTH", "LOITER"}
    BY <1>2, <1>3 DEF NavModes
  <2>3. /\ UNCHANGED <<procedure, switchMode, mapped, phase, rxLinkState>>
        /\ box' = newBox /\ rxStage' = "UPDATE"
    BY DEF processRxModes, failsafeVars, configVars, linkVars
  <2> QED BY <1>1, <1>2, <2>1, <2>2, <2>3, SticksTyped DEF ModeTypeOK
<1>6. TimerTypeOK'
  <2>1. UNCHANGED <<sinceReceived, sinceFailed, throttleLowLeft, landingLeft, receivingLeft,
                    rxLag, uptime, saves>>
    BY DEF processRxModes, failsafeVars, linkVars, timerVars
  <2> QED BY <1>1, <1>2, <2>1, SticksTyped, ConstantsNat DEF TimerTypeOK
<1> QED
  BY <1>4, <1>5, <1>6, TypePartsNext

\* The last stage of the RX task keeps the types.
LEMMA UpdateTyped ==
    ASSUME TypeOK, updateArmingStatus
    PROVE  TypeOK'
<1>1. FlagTypeOK /\ ModeTypeOK /\ TimerTypeOK
  BY TypeParts
<1>2. FlagTypeOK'
  BY <1>1 DEF FlagTypeOK, updateArmingStatus, SampleRx, failsafeVars, loopVars, inputVars, history
<1>3. ModeTypeOK'
  BY <1>1, FlagsTyped DEF ModeTypeOK, updateArmingStatus, failsafeVars, configVars, linkVars, inputVars
<1>4. TimerTypeOK'
  BY <1>1, ConstantsNat DEF TimerTypeOK, updateArmingStatus, failsafeVars, linkVars, timerVars, history
<1> QED
  BY <1>2, <1>3, <1>4, TypePartsNext

\* The MSP command keeps the types.
LEMMA MspTyped ==
    ASSUME TypeOK, NEW command \in BOOLEAN, mspSetArmingDisabled(command)
    PROVE  TypeOK'
<1>1. FlagTypeOK /\ ModeTypeOK /\ TimerTypeOK
  BY TypeParts
<1>2. FlagTypeOK'
  <2>1. armed' \in BOOLEAN /\ wasEverArmed' \in BOOLEAN
    BY <1>1 DEF mspSetArmingDisabled, Disarm, FlagTypeOK
  <2>2. UNCHANGED <<active, monitoring, loop, receiving, armedSample, throttleOff, rxSignalReceived,
                    rxPending, live, hadRx, wasRthActive, wasLoiterActive, reloaded, cycled, stalled>>
    BY DEF mspSetArmingDisabled, failsafeVars, loopVars, inputVars, rxTaskVars, statics
  <2> QED BY <1>1, <2>1, <2>2 DEF FlagTypeOK
<1>3. ModeTypeOK'
  BY <1>1 DEF ModeTypeOK, mspSetArmingDisabled, Set, Flag, failsafeVars, configVars, linkVars,
         inputVars, rxTaskVars
<1>4. TimerTypeOK'
  <2>1. /\ UNCHANGED <<sinceReceived, sinceFailed, throttleLowLeft, landingLeft, receivingLeft,
                        rxLag, uptime, rcDisarmTicks, saves, goodFor>>
        /\ downFor' = downFor \/ downFor' = 0
    BY DEF mspSetArmingDisabled, CountWhileArmed, failsafeVars, linkVars, timerVars, rxTaskVars, statics
  <2> QED BY <1>1, <2>1, ConstantsNat DEF TimerTypeOK
<1> QED
  BY <1>2, <1>3, <1>4, TypePartsNext

\* A configuration write keeps the types.
LEMMA WriteTyped ==
    ASSUME TypeOK, NEW stall \in 0 .. SuspendPeriod, writeEEPROM(stall)
    PROVE  TypeOK'
<1>1. FlagTypeOK /\ ModeTypeOK /\ TimerTypeOK
  BY TypeParts
<1>2. FlagTypeOK'
  BY <1>1 DEF FlagTypeOK, writeEEPROM, loopVars, inputVars, armVars, statics, history
<1>3. ModeTypeOK'
  BY <1>1 DEF ModeTypeOK, writeEEPROM, SuspendResume, configVars, inputVars, armVars
<1>4. TimerTypeOK'
  <2>1. /\ sinceReceived' = 0
           \/ sinceReceived' = Min2(sinceReceived - SuspendPeriod + stall, RxDataFailurePeriod + 1)
        /\ sinceFailed' = Never
           \/ sinceFailed' = Min2(sinceFailed + stall, RxDataRecoveryPeriod + 1)
        /\ throttleLowLeft' = Max2(throttleLowLeft - stall, Expired)
        /\ landingLeft' = Max2(landingLeft - stall, Expired)
        /\ receivingLeft' = Max2(receivingLeft - stall, Expired)
        /\ uptime' = Min2(uptime + stall, PowerOnDelay)
        /\ saves < MaxSaves /\ saves' = saves + 1
        /\ UNCHANGED <<rxLag, rcDisarmTicks, goodFor, downFor>>
    BY DEF writeEEPROM, SuspendResume, statics, history
  <2> QED BY <1>1, <2>1, ConstantsNat DEF TimerTypeOK, Min2, Max2, Never, Expired
<1> QED
  BY <1>2, <1>3, <1>4, TypePartsNext

\* A write that reads back keeps the types.
LEMMA ReloadTyped ==
    ASSUME TypeOK, writeReadEeprom
    PROVE  TypeOK'
<1>1. FlagTypeOK /\ ModeTypeOK /\ TimerTypeOK
  BY TypeParts
<1>2. FlagTypeOK'
  BY <1>1 DEF FlagTypeOK, writeReadEeprom, loopVars, inputVars, armVars, rxTaskVars, statics
<1>3. ModeTypeOK'
  BY <1>1 DEF ModeTypeOK, writeReadEeprom, ResetState, Phase, configVars, inputVars, armVars, rxTaskVars
<1>4. TimerTypeOK'
  <2>1. /\ sinceReceived' = 0 \/ sinceReceived' = RxDataFailurePeriod + 1
        /\ sinceFailed' = Never /\ throttleLowLeft' = Expired
        /\ landingLeft' = Expired /\ receivingLeft' = Expired
        /\ saves < MaxSaves /\ saves' = saves + 1
        /\ UNCHANGED <<rxLag, uptime, rcDisarmTicks, goodFor, downFor>>
    BY DEF writeReadEeprom, ResetState, rxTaskVars, statics
  <2> QED BY <1>1, <2>1, ConstantsNat DEF TimerTypeOK, Never, Expired
<1> QED
  BY <1>2, <1>3, <1>4, TypePartsNext

\* Every variable keeps to its type: no timer runs past its period, no counter
\* past its bound.
THEOREM TypeCorrect == Spec => []TypeOK
<1>1. TypeOK /\ [Next]_vars => TypeOK'
  <2> SUFFICES ASSUME TypeOK, [Next]_vars PROVE TypeOK'
    OBVIOUS
  <2>1. CASE rxFrameCheck
    BY <2>1, FrameCheckTyped
  <2>2. CASE RxTask
    <3>1. CASE \E backup \in {FALSE, HasBackup}, pulses \in BOOLEAN : processRx(backup, pulses)
      BY <3>1, CheckTyped, FlightSafetyAssumption DEF FlightSafetyAssumption
    <3>2. CASE \E newBox \in SUBSET mapped : processRxModes(newBox)
      BY <3>2, ModesTyped
    <3>3. CASE updateArmingStatus
      BY <3>3, UpdateTyped
    <3> QED BY <2>2, <3>1, <3>2, <3>3 DEF RxTask
  <2>3. CASE FailsafeTick
    BY <2>3, TickTyped
  <2>4. CASE FailsafeUpdate
    BY <2>4, LoopTyped
  <2>5. CASE \E command \in BOOLEAN : mspSetArmingDisabled(command)
    BY <2>5, MspTyped
  <2>6. CASE \E stall \in 0 .. SuspendPeriod : writeEEPROM(stall)
    BY <2>6, WriteTyped
  <2>7. CASE writeReadEeprom
    BY <2>7, ReloadTyped
  <2>8. CASE UNCHANGED vars
    BY <2>8 DEF TypeOK, vars, failsafeVars, configVars, linkVars, timerVars, loopVars, inputVars,
           armVars, rxTaskVars, statics, history
  <2> QED
    BY <2>1, <2>2, <2>3, <2>4, <2>5, <2>6, <2>7, <2>8 DEF Next
<1> QED
  BY <1>1, InitTyped, PTL DEF Spec
-----------------------------------------------------------------------------
(* Time: how long the motor runs without a link, how long the lockout lasts  *)
(* and what the two sampled values of the loop still say.  TimedInv extends  *)
(* FailsafeInv and TypeOK; it relates the timers to the history variables    *)
(* that count the ticks.                                                     *)

\* Inside the loop the samples are of this tick: a motor that is armed was armed
\* when the loop began, and a link that was lost is not `receiving'.  Before the
\* monitoring starts there is no loop.
SamplesFresh ==
    /\ loop = TRUE /\ armed = TRUE => armedSample = TRUE
    /\ loop = TRUE /\ sinceReceived > RxDataFailurePeriod => receiving = FALSE
    /\ loop = TRUE /\ downFor > 0 => armedSample = TRUE /\ receiving = FALSE
    /\ phase = "RX_LOSS_RECOVERED" => loop = TRUE /\ receiving = TRUE
    /\ monitoring = FALSE => loop = FALSE /\ phase = "IDLE"

\* At rest in IDLE an armed motor had a link at the last tick, so stage 2 begins
\* with the first tick that has none.
StageTwoAtOnce ==
    /\ loop = FALSE /\ phase = "IDLE" /\ armed = TRUE => downFor = 0
    /\ loop = TRUE /\ phase \in {"IDLE", "RX_LOSS_DETECTED"} => downFor <= 1

\* What the glide has used of its budget and what is left add up, and at rest an
\* armed glide without a link has some left.
GlideBudget ==
    phase \in {"LANDING", "GPS_RESCUE"} =>
        /\ landingLeft + downFor <= OffDelay + 1
        /\ loop = FALSE /\ armed = TRUE /\ downFor > 0 => landingLeft # Expired

\* The count of a flight that the failsafe ended is cleared before the next one.
CountIsOfThisFlight ==
    armed = FALSE /\ downFor > 0 => "FAILSAFE" \in armingDisabled

MotorInv == StageTwoAtOnce /\ GlideBudget /\ CountIsOfThisFlight

\* The ticks with a link and the rest of the recovery period add up, unless a
\* write has aged the timers or the loop is about to restart the period.
SteadyLink ==
    stalled = FALSE /\ phase = "RX_LOSS_MONITORING" /\ (loop = FALSE \/ receiving = TRUE)
        => receivingLeft + goodFor >= RxDataRecoveryPeriod

\* A motor the failsafe has stopped stays stopped while its switch stays on: the
\* switch is latched, or no round of the RX task has ended since the disarm.
SwitchLatched ==
    cycled = FALSE /\ stalled = FALSE =>
        /\ armed = FALSE
        /\ "ARM" \in box => \/ "ARM_SWITCH" \in armingDisabled
                            \/ /\ phase = "RX_LOSS_MONITORING"
                               /\ receivingLeft + rxLag >= RxDataRecoveryPeriod

TimedInv == SamplesFresh /\ MotorInv /\ SteadyLink /\ SwitchLatched
-----------------------------------------------------------------------------
(* TimedInv is inductive: the tick. *)

\* What a tick does to the variables of TimedInv.
LEMMA TickSteps ==
    ASSUME TypeOK, FailsafeTick
    PROVE  /\ loop = FALSE /\ loop' = monitoring /\ rxLag < MaxRxLag /\ rxLag' = rxLag + 1
           /\ UNCHANGED <<phase, armed, monitoring, box, cycled, stalled>>
           /\ landingLeft' = CountDown(landingLeft) /\ receivingLeft' = CountDown(receivingLeft)
           /\ monitoring = TRUE /\ armed = TRUE => armedSample' = TRUE
           /\ receiving' = TRUE => sinceReceived' <= RxDataFailurePeriod
           /\ receiving' \in BOOLEAN
           /\ monitoring = FALSE \/ armed = FALSE \/ receiving' = TRUE => downFor' = 0
           /\ downFor' = 0 \/ downFor' = Min2(downFor + 1, OffDelay + 2)
           /\ receiving' = TRUE /\ phase = "RX_LOSS_MONITORING"
                  => goodFor' = Min2(goodFor + 1, RxDataRecoveryPeriod + 1)
           /\ armingDisabled \subseteq armingDisabled'
           /\ "FAILSAFE" \in armingDisabled' <=> "FAILSAFE" \in armingDisabled
<1>1. failsafeTick /\ loop = FALSE
  BY DEF FailsafeTick, failsafeTick
<1>2. receiving' \in BOOLEAN
  BY <1>1 DEF failsafeTick
<1>3. receiving' = TRUE => sinceReceived' <= RxDataFailurePeriod
  <2>1. receiving' = TRUE => ~LinkLost /\ sinceReceived' = Aged
    BY <1>1 DEF failsafeTick
  <2>2. Aged \in Int
    BY ConstantsNat, CountUpBounds DEF TypeOK, Aged
  <2> QED BY <2>1, <2>2, ConstantsNat DEF LinkLost
<1>4. /\ loop' = monitoring /\ (monitoring = TRUE /\ armed = TRUE => armedSample' = TRUE)
      /\ UNCHANGED <<phase, armed, monitoring, box>>
      /\ landingLeft' = CountDown(landingLeft) /\ receivingLeft' = CountDown(receivingLeft)
      /\ armingDisabled \subseteq armingDisabled'
      /\ "FAILSAFE" \in armingDisabled' <=> "FAILSAFE" \in armingDisabled
  BY <1>1 DEF failsafeTick, inputVars
<1>5. /\ rxLag < MaxRxLag /\ rxLag' = rxLag + 1 /\ UNCHANGED <<cycled, stalled>>
      /\ monitoring = FALSE \/ armed = FALSE \/ receiving' = TRUE => downFor' = 0
      /\ downFor' = 0 \/ downFor' = Min2(downFor + 1, OffDelay + 2)
      /\ receiving' = TRUE /\ phase = "RX_LOSS_MONITORING"
             => goodFor' = Min2(goodFor + 1, RxDataRecoveryPeriod + 1)
  BY <1>2 DEF FailsafeTick
<1> QED BY <1>1, <1>2, <1>3, <1>4, <1>5

\* A tick without a link takes from the budget what it adds to the count.
LEMMA GlideTick ==
    ASSUME NEW budget \in Nat, NEW left \in Expired .. budget, NEW down \in Nat, NEW next \in Nat,
           left + down <= budget + 1,
           next = 0 \/ (next <= down + 1 /\ (down = 0 \/ left # Expired))
    PROVE  CountDown(left) + next <= budget + 1
BY DEF CountDown, Expired

\* The head of failsafeUpdateState() takes the samples and one of every timer.
LEMMA TickKeepsTimed ==
    ASSUME TypeOK, TypeOK', FailsafeInv, TimedInv, FailsafeTick
    PROVE  TimedInv'
<1>1. phase \in {"IDLE", "LANDING", "GPS_RESCUE", "RX_LOSS_MONITORING"}
  BY TickSteps DEF FailsafeInv, RestsBetweenCalls
<1>2. loop' \in BOOLEAN /\ armed \in BOOLEAN /\ monitoring \in BOOLEAN /\ downFor \in 0 .. OffDelay + 2
      /\ downFor' \in 0 .. OffDelay + 2 /\ sinceReceived' \in Int
  BY DEF TypeOK
<1>3. /\ downFor' > 0 => monitoring = TRUE /\ armed = TRUE /\ receiving' = FALSE
      /\ downFor' > 0 => downFor' <= downFor + 1
  <2>1. downFor' # 0 => monitoring = TRUE /\ armed = TRUE /\ receiving' = FALSE
    BY <1>2, TickSteps
  <2>2. downFor' = 0 \/ downFor' = Min2(downFor + 1, OffDelay + 2)
    BY TickSteps
  <2> QED BY <1>2, <2>1, <2>2, ConstantsNat DEF Min2
<1>4. SamplesFresh'
  <2>1. (loop = TRUE /\ armed = TRUE => armedSample = TRUE)'
    BY <1>2, TickSteps
  <2>2. (loop = TRUE /\ sinceReceived > RxDataFailurePeriod => receiving = FALSE)'
    <3>1. receiving' = TRUE => sinceReceived' <= RxDataFailurePeriod
      BY TickSteps
    <3>2. receiving' \in BOOLEAN
      BY TickSteps
    <3> QED BY <1>2, <3>1, <3>2, ConstantsNat
  <2>3. (loop = TRUE /\ downFor > 0 => armedSample = TRUE /\ receiving = FALSE)'
    BY <1>3, TickSteps
  <2>4. (phase = "RX_LOSS_RECOVERED" => loop = TRUE /\ receiving = TRUE)'
    BY <1>1, TickSteps
  <2>5. (monitoring = FALSE => loop = FALSE /\ phase = "IDLE")'
    BY TickSteps DEF TimedInv, SamplesFresh
  <2> QED BY <2>1, <2>2, <2>3, <2>4, <2>5 DEF SamplesFresh
<1>5. StageTwoAtOnce'
  <2>1. loop' = FALSE => downFor' = 0
    BY <1>2, TickSteps
  <2>2. phase = "IDLE" => downFor' <= 1
    <3>1. phase = "IDLE" /\ armed = TRUE => downFor = 0
      BY TickSteps DEF TimedInv, MotorInv, StageTwoAtOnce
    <3>2. phase = "IDLE" => downFor' = 0 \/ downFor = 0
      BY <1>2, <1>3, <3>1
    <3> QED BY <1>2, <1>3, <3>2
  <2> QED BY <1>1, <2>1, <2>2, TickSteps DEF StageTwoAtOnce
<1>6. GlideBudget'
  <2> SUFFICES ASSUME phase \in {"LANDING", "GPS_RESCUE"}
               PROVE  /\ landingLeft' + downFor' <= OffDelay + 1
                      /\ loop' = FALSE => ~(downFor' > 0)
    <3>1. UNCHANGED <<phase, armed>>
      BY TickSteps
    <3> QED BY <3>1, Zenon DEF GlideBudget
  <2>1. landingLeft + downFor <= OffDelay + 1
    BY TickSteps DEF TimedInv, MotorInv, GlideBudget
  <2>5. armed = TRUE /\ downFor > 0 => landingLeft # Expired
    BY TickSteps DEF TimedInv, MotorInv, GlideBudget
  <2>2. landingLeft \in Expired .. OffDelay /\ landingLeft' = CountDown(landingLeft)
    BY TickSteps DEF TypeOK
  <2>4. downFor \in Nat /\ downFor' \in Nat /\ landingLeft' \in Int
    BY <1>2, ConstantsNat DEF TypeOK, Expired
  <2>3. landingLeft' + downFor' <= OffDelay + 1
    <3>2. downFor' = 0 \/ (downFor' <= downFor + 1 /\ (downFor = 0 \/ landingLeft # Expired))
      <4>1. downFor' > 0 => armed = TRUE
        BY <1>3
      <4>2. downFor' > 0 => downFor' <= downFor + 1
        BY <1>3
      <4>3. armed = TRUE => downFor = 0 \/ landingLeft # Expired
        BY <2>5, <2>4
      <4> QED BY <2>4, <4>1, <4>2, <4>3
    <3> QED BY <2>1, <2>2, <2>4, <3>2, GlideTick, ConstantsNat
  <2>6. loop' = FALSE => downFor' = 0
    BY <1>2, TickSteps
  <2>7. downFor' = 0 => ~(downFor' > 0)
    OBVIOUS
  <2> QED BY <2>3, <2>6, <2>7
<1>7. CountIsOfThisFlight'
  <2>1. armed' = FALSE => downFor' = 0
    BY TickSteps
  <2> QED BY <2>1 DEF CountIsOfThisFlight
<1>8. SteadyLink'
  <2> SUFFICES ASSUME stalled = FALSE, phase = "RX_LOSS_MONITORING",
                      loop' = FALSE \/ receiving' = TRUE
               PROVE  receivingLeft' + goodFor' >= RxDataRecoveryPeriod
    BY TickSteps DEF SteadyLink
  <2>1. receivingLeft + goodFor >= RxDataRecoveryPeriod
    BY TickSteps DEF TimedInv, SteadyLink
  <2>2. receivingLeft \in Expired .. RxDataRecoveryPeriod /\ goodFor \in 0 .. RxDataRecoveryPeriod + 1
    BY DEF TypeOK
  <2>3. CASE receiving' = TRUE
    <3>1. goodFor' = Min2(goodFor + 1, RxDataRecoveryPeriod + 1)
          /\ receivingLeft' = CountDown(receivingLeft)
      BY <2>3, TickSteps
    <3> QED BY <2>1, <2>2, <3>1, ConstantsNat DEF Min2, CountDown, Expired
  <2>4. CASE receiving' = FALSE
    <3>1. monitoring = FALSE
      BY <1>2, <2>4, TickSteps
    <3> QED BY <3>1 DEF TimedInv, SamplesFresh
  <2> QED BY <2>3, <2>4, TickSteps
<1>9. SwitchLatched'
  <2> SUFFICES ASSUME cycled = FALSE, stalled = FALSE, "ARM" \in box,
                      ~("ARM_SWITCH" \in armingDisabled)
               PROVE  /\ phase = "RX_LOSS_MONITORING"
                      /\ receivingLeft' + rxLag' >= RxDataRecoveryPeriod
    BY TickSteps DEF TimedInv, SwitchLatched
  <2>1. phase = "RX_LOSS_MONITORING" /\ receivingLeft + rxLag >= RxDataRecoveryPeriod
    BY DEF TimedInv, SwitchLatched
  <2>2. receivingLeft \in Expired .. RxDataRecoveryPeriod /\ rxLag \in 0 .. MaxRxLag
    BY DEF TypeOK
  <2> QED BY <2>1, <2>2, TickSteps, ConstantsNat DEF CountDown, Expired
<1> QED
  BY <1>4, <1>5, <1>6, <1>7, <1>8, <1>9 DEF TimedInv, MotorInv

-----------------------------------------------------------------------------
(* TimedInv is inductive: the turns of the loop. *)


\* What every turn leaves alone.
LEMMA TurnFrame ==
    ASSUME TypeOK, FailsafeUpdate
    PROVE  /\ loop = TRUE /\ receiving \in BOOLEAN /\ armedSample \in BOOLEAN
           /\ UNCHANGED <<receiving, armedSample, monitoring, sinceReceived, box, rxLag, goodFor, downFor>>
           /\ phase # "LANDED" => cycled' = cycled /\ stalled' = stalled
           /\ phase = "LANDED" => cycled' = FALSE /\ stalled' = FALSE
<1>1. loop = TRUE /\ receiving \in BOOLEAN /\ armedSample \in BOOLEAN
  BY DEF FailsafeUpdate, failsafeUpdateState, TypeOK
<1>2. UNCHANGED <<monitoring, sinceReceived, box, rxLag, goodFor, downFor>>
  BY DEF FailsafeUpdate, failsafeUpdateState, LoopFrame, linkVars, inputVars, rxTaskVars
<1>3. UNCHANGED <<receiving, armedSample>>
  BY DEF FailsafeUpdate, failsafeUpdateState, idleKill, idleLinkLost, idleFlying, idleDisarmed,
         lossRecovered, lossDetected, landing, gpsRescue, landed, lossMonitoring, recovered,
         Again, Leave, loopVars
<1>4. /\ phase # "LANDED" => cycled' = cycled /\ stalled' = stalled
      /\ phase = "LANDED" => cycled' = FALSE /\ stalled' = FALSE
  BY DEF FailsafeUpdate, TypeOK
<1> QED BY <1>1, <1>2, <1>3, <1>4

\* The moves between phases, and what each does to the timers and the arming.
LEMMA TurnMoves ==
    ASSUME TypeOK, FailsafeUpdate
    PROVE  \/ /\ phase = "IDLE" /\ phase' \in {"LANDED", "RX_LOSS_DETECTED"}
              /\ loop' = TRUE /\ UNCHANGED <<armed, armingDisabled, landingLeft, receivingLeft>>
           \/ /\ phase = "IDLE" /\ phase' = "IDLE"
              /\ loop' = FALSE /\ UNCHANGED <<armed, armingDisabled, landingLeft, receivingLeft>>
              /\ receiving = TRUE \/ armedSample = FALSE
           \/ /\ phase \in {"RX_LOSS_DETECTED", "LANDING", "GPS_RESCUE"}
              /\ phase' = "RX_LOSS_RECOVERED" /\ receiving = TRUE
              /\ loop' = TRUE /\ UNCHANGED <<armed, armingDisabled, landingLeft, receivingLeft>>
           \/ /\ phase = "RX_LOSS_DETECTED" /\ phase' \in {"LANDING", "GPS_RESCUE"}
              /\ loop' = TRUE /\ UNCHANGED <<armed, armingDisabled, receivingLeft>>
              /\ landingLeft' = OffDelay
           \/ /\ phase \in {"RX_LOSS_DETECTED", "LANDING", "GPS_RESCUE"} /\ phase' = "LANDED"
              /\ loop' = TRUE /\ UNCHANGED <<armed, armingDisabled, landingLeft, receivingLeft>>
           \/ /\ phase \in {"LANDING", "GPS_RESCUE"} /\ phase' = phase
              /\ loop' = FALSE /\ UNCHANGED <<armed, armingDisabled, landingLeft, receivingLeft>>
              /\ receiving = TRUE \/ landingLeft # Expired
           \/ /\ phase = "LANDED" /\ phase' = "RX_LOSS_MONITORING"
              /\ loop' = TRUE /\ armed' = FALSE /\ armingDisabled' = armingDisabled \cup {"FAILSAFE"}
              /\ receivingLeft' = RxDataRecoveryPeriod /\ UNCHANGED landingLeft
           \/ /\ phase = "RX_LOSS_MONITORING" /\ phase' = "RX_LOSS_RECOVERED"
              /\ receiving = TRUE /\ receivingLeft = Expired
              /\ loop' = TRUE /\ UNCHANGED <<armed, armingDisabled, landingLeft, receivingLeft>>
           \/ /\ phase = "RX_LOSS_MONITORING" /\ phase' = phase
              /\ loop' = FALSE /\ UNCHANGED <<armed, armingDisabled, landingLeft>>
              /\ \/ receiving = TRUE /\ UNCHANGED receivingLeft
                 \/ receivingLeft' = RxDataRecoveryPeriod
           \/ /\ phase = "RX_LOSS_RECOVERED" /\ phase' = "IDLE"
              /\ loop' = TRUE /\ armingDisabled' = armingDisabled \ {"FAILSAFE"}
              /\ UNCHANGED <<armed, landingLeft, receivingLeft>>
<1> USE TurnFrame
<1>1. CASE idleKill \/ idleLinkLost
  BY <1>1 DEF idleKill, idleLinkLost, Again, SameArm, armVars, loopVars
<1>2. CASE idleFlying \/ idleDisarmed
  BY <1>2 DEF idleFlying, idleDisarmed, Leave, SameArm, armVars
<1>3. CASE lossRecovered
  BY <1>3 DEF lossRecovered, Again, SameArm, armVars, loopVars, timerVars
<1>4. CASE \E canRth \in BOOLEAN : lossDetected(canRth)
  BY <1>4 DEF lossDetected, Again, SameArm, armVars, loopVars
<1>5. CASE landing
  BY <1>5 DEF landing, LandedByNow, Again, Leave, SameArm, armVars, loopVars, timerVars
<1>6. CASE \E handsOn \in BOOLEAN : gpsRescue(handsOn)
  BY <1>6 DEF gpsRescue, LandedByNow, Again, Leave, SameArm, armVars, loopVars, timerVars
<1>7. CASE landed
  BY <1>7 DEF landed, Disarm, Again, loopVars
<1>8. CASE lossMonitoring
  BY <1>8 DEF lossMonitoring, Again, Leave, SameArm, armVars, loopVars
<1>9. CASE recovered
  BY <1>9 DEF recovered, Again, loopVars
<1> QED
  BY <1>1, <1>2, <1>3, <1>4, <1>5, <1>6, <1>7, <1>8, <1>9 DEF FailsafeUpdate, failsafeUpdateState

\* A turn of failsafeUpdateState(), by phase.
LEMMA LoopKeepsTimed ==
    ASSUME TypeOK, TypeOK', FailsafeInv, TimedInv, FailsafeUpdate
    PROVE  TimedInv'
<1>1. /\ armed \in BOOLEAN /\ receiving \in BOOLEAN /\ armedSample \in BOOLEAN
      /\ downFor \in Nat /\ goodFor \in Nat /\ rxLag \in Nat
      /\ landingLeft \in Expired .. OffDelay /\ receivingLeft \in Expired .. RxDataRecoveryPeriod
  BY ConstantsNat DEF TypeOK
<1>2. loop = TRUE
  BY TurnFrame
<1>3. SamplesFresh'
  <2>1. SamplesFresh
    BY DEF TimedInv
  <2>2. /\ armed' = TRUE => armed = TRUE
        /\ phase' = "RX_LOSS_RECOVERED" => loop' = TRUE /\ receiving = TRUE
    BY <1>1, TurnMoves
  <2> QED BY <1>2, <2>1, <2>2, TurnFrame DEF SamplesFresh
\* A receiver that is heard has not been missed for a tick.
<1>4. receiving = TRUE \/ armedSample = FALSE => downFor = 0
  BY <1>1, <1>2 DEF TimedInv, SamplesFresh
<1>5. StageTwoAtOnce'
  <2>1. loop' = FALSE /\ phase' = "IDLE" => downFor = 0
    BY <1>4, TurnMoves
  <2>2. phase' \in {"IDLE", "RX_LOSS_DETECTED"} => downFor <= 1
    <3>1. phase \in {"IDLE", "RX_LOSS_DETECTED"} => downFor <= 1
      BY <1>2 DEF TimedInv, MotorInv, StageTwoAtOnce
    <3>2. phase = "RX_LOSS_RECOVERED" => downFor = 0
      BY <1>4 DEF TimedInv, SamplesFresh
    <3>3. phase' \in {"IDLE", "RX_LOSS_DETECTED"} => phase \in {"IDLE", "RX_LOSS_RECOVERED"}
      BY TurnMoves
    <3> QED BY <1>1, <3>1, <3>2, <3>3
  <2> QED BY <2>1, <2>2, TurnFrame DEF StageTwoAtOnce
<1>6. GlideBudget'
  <2>1. CASE phase \in {"LANDING", "GPS_RESCUE"} /\ phase' = phase
    <3>1. landingLeft' = landingLeft /\ downFor' = downFor
      BY <2>1, TurnMoves, TurnFrame
    <3>2. landingLeft + downFor <= OffDelay + 1
      BY <2>1 DEF TimedInv, MotorInv, GlideBudget
    <3>3. downFor > 0 => landingLeft # Expired
      <4>1. receiving = TRUE \/ landingLeft # Expired
        BY <2>1, TurnMoves
      <4> QED BY <1>1, <1>4, <4>1
    <3> QED BY <3>1, <3>2, <3>3 DEF GlideBudget
  <2>2. CASE phase = "RX_LOSS_DETECTED" /\ phase' \in {"LANDING", "GPS_RESCUE"}
    <3>1. landingLeft' = OffDelay /\ downFor' = downFor /\ loop' = TRUE
      BY <2>2, TurnMoves, TurnFrame
    <3>2. downFor <= 1
      BY <1>2, <2>2 DEF TimedInv, MotorInv, StageTwoAtOnce
    <3>3. landingLeft' + downFor' <= OffDelay + 1
      BY <1>1, <3>1, <3>2, ConstantsNat
    <3> QED BY <3>1, <3>3 DEF GlideBudget
  <2>3. CASE phase' \notin {"LANDING", "GPS_RESCUE"}
    BY <2>3 DEF GlideBudget
  <2> QED BY <2>1, <2>2, <2>3, TurnMoves
<1>7. CountIsOfThisFlight'
  <2>1. CountIsOfThisFlight
    BY DEF TimedInv, MotorInv
  <2>2. CASE phase = "LANDED"
    <3>1. "FAILSAFE" \in armingDisabled'
      BY <2>2, TurnMoves
    <3> QED BY <3>1 DEF CountIsOfThisFlight
  <2>3. CASE phase = "RX_LOSS_RECOVERED"
    <3>1. downFor = 0
      BY <1>4, <2>3 DEF TimedInv, SamplesFresh
    <3> QED BY <3>1, TurnFrame DEF CountIsOfThisFlight
  <2>4. CASE phase # "LANDED" /\ phase # "RX_LOSS_RECOVERED"
    <3>1. UNCHANGED <<armed, armingDisabled>>
      BY <2>4, TurnMoves
    <3> QED BY <2>1, <3>1, TurnFrame DEF CountIsOfThisFlight
  <2> QED BY <2>2, <2>3, <2>4
<1>8. SteadyLink'
  <2> SUFFICES ASSUME stalled' = FALSE, phase' = "RX_LOSS_MONITORING",
                      loop' = FALSE \/ receiving' = TRUE
               PROVE  receivingLeft' + goodFor' >= RxDataRecoveryPeriod
    BY DEF SteadyLink
  <2>1. \/ receivingLeft' = RxDataRecoveryPeriod
        \/ phase = "RX_LOSS_MONITORING" /\ receiving = TRUE /\ receivingLeft' = receivingLeft
    BY TurnMoves
  <2>2. goodFor' = goodFor
    BY TurnFrame
  <2>3. CASE receivingLeft' = RxDataRecoveryPeriod
    BY <1>1, <2>2, <2>3, ConstantsNat
  <2>4. CASE phase = "RX_LOSS_MONITORING" /\ receiving = TRUE /\ receivingLeft' = receivingLeft
    <3>1. stalled = FALSE
      BY <2>4, TurnFrame
    <3> QED BY <2>2, <2>4, <3>1 DEF TimedInv, SteadyLink
  <2> QED BY <2>1, <2>3, <2>4
<1>9. SwitchLatched'
  <2>1. CASE phase = "LANDED"
    <3>1. armed' = FALSE /\ phase' = "RX_LOSS_MONITORING" /\ receivingLeft' = RxDataRecoveryPeriod
      BY <2>1, TurnMoves
    <3>2. receivingLeft' + rxLag' >= RxDataRecoveryPeriod
      BY <1>1, <3>1, TurnFrame, ConstantsNat
    <3> QED BY <3>1, <3>2 DEF SwitchLatched
  <2>2. CASE phase # "LANDED"
    <3> SUFFICES ASSUME cycled = FALSE, stalled = FALSE
                 PROVE  /\ armed' = FALSE
                        /\ "ARM" \in box => \/ "ARM_SWITCH" \in armingDisabled'
                                            \/ /\ phase' = "RX_LOSS_MONITORING"
                                               /\ receivingLeft' + rxLag' >= RxDataRecoveryPeriod
      BY <2>2, TurnFrame DEF SwitchLatched
    <3>1. armed' = FALSE
      BY <1>1, <2>2, TurnMoves DEF TimedInv, SwitchLatched
    <3>2. "ARM_SWITCH" \in armingDisabled => "ARM_SWITCH" \in armingDisabled'
      BY TurnMoves
    <3>3. CASE "ARM" \in box /\ "ARM_SWITCH" \notin armingDisabled
      <4>1. phase = "RX_LOSS_MONITORING" /\ receivingLeft + rxLag >= RxDataRecoveryPeriod
        BY <3>3 DEF TimedInv, SwitchLatched
      \* The lockout has not ended: it is longer than a round of the RX task.
      <4>2. receivingLeft # Expired
        BY <4>1, ConstantsNat, FlightSafetyAssumption DEF TypeOK, FlightSafetyAssumption, Expired
      <4>3. /\ phase' = "RX_LOSS_MONITORING" /\ rxLag' = rxLag
            /\ receivingLeft' = receivingLeft \/ receivingLeft' = RxDataRecoveryPeriod
        BY <4>1, <4>2, TurnMoves, TurnFrame
      <4>4. receivingLeft' + rxLag' >= RxDataRecoveryPeriod
        BY <1>1, <4>1, <4>3, ConstantsNat
      <4> QED BY <3>1, <4>3, <4>4
    <3> QED BY <3>1, <3>2, <3>3
  <2> QED BY <2>1, <2>2
<1> QED
  BY <1>3, <1>5, <1>6, <1>7, <1>8, <1>9 DEF TimedInv, MotorInv

-----------------------------------------------------------------------------
(* TimedInv is inductive: the RX task and the other tasks. *)

\* Two bounds add up (the fact alone, for the solver).
LEMMA SumBound ==
    ASSUME NEW a \in Int, NEW b \in Int, NEW c \in Int, NEW d \in Int, NEW m \in Int,
           a <= c, b <= d, c + d <= m
    PROVE  a + b <= m
OBVIOUS

\* The count is kept by a step that leaves the motor armed.
LEMMA CountOfArmed ==
    ASSUME TypeOK', CountWhileArmed
    PROVE  downFor' = 0 \/ (downFor' = downFor /\ (armed' = FALSE => armed = FALSE))
<1>1. CASE armed'
  BY <1>1 DEF CountWhileArmed
<1>2. CASE ~armed'
  BY <1>2 DEF CountWhileArmed
<1> QED BY <1>1, <1>2

\* Outside the loop a step may disarm, and arm a model the failsafe has not
\* blocked; a write may take time from the glide of a model that is not armed.
LEMMA QuietKeepsTimed ==
    ASSUME TypeOK, TypeOK', TimedInv, loop = FALSE,
           UNCHANGED <<loop, phase, goodFor>>,
           monitoring = TRUE => monitoring' = TRUE,
           "FAILSAFE" \in armingDisabled' <=> "FAILSAFE" \in armingDisabled,
           armed = FALSE /\ "FAILSAFE" \in armingDisabled => armed' = FALSE,
           downFor' = 0 \/ (downFor' = downFor /\ (armed' = FALSE => armed = FALSE)),
           landingLeft' <= landingLeft,
           landingLeft' = landingLeft \/ armed' = FALSE,
           stalled' = FALSE => stalled = FALSE /\ receivingLeft' = receivingLeft,
           SwitchLatched'
    PROVE  TimedInv'
<1>1. /\ armed \in BOOLEAN /\ armed' \in BOOLEAN /\ monitoring \in BOOLEAN /\ stalled' \in BOOLEAN
  BY DEF TypeOK
<1>2. downFor \in Nat /\ downFor' \in Nat /\ landingLeft \in Int /\ landingLeft' \in Int
  BY ConstantsNat DEF TypeOK, Expired
<1>3. SamplesFresh'
  <2>1. SamplesFresh
    BY DEF TimedInv
  <2> QED BY <1>1, <2>1 DEF SamplesFresh
<1>4. CountIsOfThisFlight'
  <2>1. armed = FALSE /\ downFor > 0 => "FAILSAFE" \in armingDisabled
    BY DEF TimedInv, MotorInv, CountIsOfThisFlight
  <2>2. armed' = FALSE /\ downFor' > 0 => armed = FALSE /\ downFor > 0
    BY <1>2
  <2> QED BY <2>1, <2>2 DEF CountIsOfThisFlight
\* A count that has begun is of a flight that goes on.
<1>5. armed' = TRUE /\ downFor' > 0 => armed = TRUE /\ downFor' = downFor
  <2>1. armed = FALSE /\ downFor > 0 => "FAILSAFE" \in armingDisabled
    BY DEF TimedInv, MotorInv, CountIsOfThisFlight
  <2>2. downFor' > 0 => downFor' = downFor
    BY <1>2
  <2>3. armed' = TRUE /\ "FAILSAFE" \in armingDisabled => armed = TRUE
    BY <1>1
  <2> QED BY <1>1, <2>1, <2>2, <2>3
<1>6. StageTwoAtOnce'
  <2>1. phase = "IDLE" /\ armed = TRUE => downFor = 0
    BY DEF TimedInv, MotorInv, StageTwoAtOnce
  <2>2. phase' = "IDLE" /\ armed' = TRUE => downFor' = 0
    BY <1>2, <1>5, <2>1
  <2> QED BY <2>2 DEF StageTwoAtOnce
<1>7. GlideBudget'
  <2> SUFFICES ASSUME phase \in {"LANDING", "GPS_RESCUE"}
               PROVE  /\ landingLeft' + downFor' <= OffDelay + 1
                      /\ armed' = TRUE /\ downFor' > 0 => landingLeft' # Expired
    BY DEF GlideBudget
  <2>1. landingLeft + downFor <= OffDelay + 1
    BY DEF TimedInv, MotorInv, GlideBudget
  <2>2. armed = TRUE /\ downFor > 0 => landingLeft # Expired
    BY DEF TimedInv, MotorInv, GlideBudget
  <2>3. downFor' <= downFor /\ landingLeft' <= landingLeft
    BY <1>2
  <2>4. landingLeft' + downFor' <= OffDelay + 1
    <3>1. OffDelay + 1 \in Int
      BY ConstantsNat
    <3> QED BY <1>2, <2>1, <2>3, <3>1, SumBound
  <2>5. armed' = TRUE /\ downFor' > 0 => landingLeft' # Expired
    BY <1>5, <2>2
  <2> QED BY <2>4, <2>5
<1>8. SteadyLink'
  <2>1. SteadyLink
    BY DEF TimedInv
  <2> QED BY <1>1, <2>1 DEF SteadyLink
<1> QED
  BY <1>3, <1>4, <1>6, <1>7, <1>8 DEF TimedInv, MotorInv

\* While the switch is on, a model that is blocked gets the latch with the next
\* look at the arming checks.
LEMMA ChecksLatch ==
    ASSUME armed = FALSE, "ARM" \in box, NEW grace \in Graces,
           "ARM_SWITCH" \in armingDisabled \/ "FAILSAFE" \in armingDisabled
    PROVE  "ARM_SWITCH" \in UpdatedFlags(grace)
BY DEF UpdatedFlags, ArmSwitch, BadRxRecovery, Set

\* What SwitchLatched says of a model the failsafe has stopped.
LEMMA StoppedIsBlocked ==
    ASSUME FailsafeInv, TimedInv, cycled = FALSE, stalled = FALSE, "ARM" \in box
    PROVE  /\ armed = FALSE
           /\ "ARM_SWITCH" \in armingDisabled \/ "FAILSAFE" \in armingDisabled
BY DEF FailsafeInv, LockedOut, TimedInv, SwitchLatched

\* The switch is latched by the round that reads it.
LEMMA SticksLatch ==
    ASSUME TypeOK, FailsafeInv, TimedInv, processRcStickPositions
    PROVE  /\ cycled' = FALSE /\ stalled' = FALSE => armed' = FALSE /\ "ARM_SWITCH" \in armingDisabled'
           /\ armed = FALSE /\ armed' = TRUE => cycled = TRUE \/ stalled = TRUE
           /\ "ARM" \notin box => ~(armed = FALSE /\ armed' = TRUE)
<1>1. /\ cycled' = (cycled \/ "ARM" \notin box) /\ stalled' = stalled
  BY DEF processRcStickPositions
<1>2. cycled \in BOOLEAN /\ stalled \in BOOLEAN /\ armed \in BOOLEAN
  BY DEF TypeOK
<1>3. CASE "ARM" \notin box
  <2>1. ~(armed = FALSE /\ armed' = TRUE)
    BY <1>3 DEF processRcStickPositions, ArmSwitchOff, Disarm
  <2>2. cycled' = TRUE
    BY <1>1, <1>3
  <2> QED BY <2>1, <2>2
<1>4. CASE "ARM" \in box /\ cycled = FALSE /\ stalled = FALSE
  <2>1. PICK grace \in Graces : /\ armingDisabled' = UpdatedFlags(grace)
                                /\ UpdatedFlags(grace) # {} => armed' = armed
    BY <1>4 DEF processRcStickPositions, tryArm
  <2>2. armed = FALSE /\ "ARM_SWITCH" \in UpdatedFlags(grace)
    BY <1>4, ChecksLatch, StoppedIsBlocked
  <2> QED BY <1>4, <2>1, <2>2
<1>5. CASE "ARM" \in box /\ (cycled = TRUE \/ stalled = TRUE)
  BY <1>1, <1>2, <1>5
<1> QED BY <1>2, <1>3, <1>4, <1>5

\* The frame check touches none of the timers.
LEMMA FrameCheckKeepsTimed ==
    ASSUME TypeOK, TypeOK', TimedInv, rxFrameCheck
    PROVE  TimedInv'
<1>1. /\ loop = FALSE
      /\ UNCHANGED <<loop, phase, goodFor, monitoring, armed, armingDisabled, downFor, landingLeft,
                     stalled, cycled, receivingLeft, rxLag, box>>
  BY DEF rxFrameCheck, failsafeVars, loopVars, timerVars, armVars, history, TypeOK
<1>2. SwitchLatched'
  BY <1>1 DEF TimedInv, SwitchLatched
<1>3. landingLeft' <= landingLeft
  BY <1>1 DEF TypeOK, Expired
<1> QED BY <1>1, <1>2, <1>3, QuietKeepsTimed

\* processRx(): the link monitor has no say over the latch.
LEMMA CheckKeepsTimed ==
    ASSUME TypeOK, TypeOK', TimedInv, NEW backup, NEW pulses, processRx(backup, pulses)
    PROVE  TimedInv'
<1>1. /\ loop = FALSE
      /\ UNCHANGED <<loop, phase, goodFor, armed, downFor, landingLeft,
                     stalled, cycled, receivingLeft, rxLag, box>>
  BY DEF processRx, loopVars, timerVars, statics, history, TypeOK
<1>2. monitoring = TRUE => monitoring' = TRUE
  BY DEF processRx
<1>3. /\ "FAILSAFE" \in armingDisabled' <=> "FAILSAFE" \in armingDisabled
      /\ "ARM_SWITCH" \in armingDisabled' <=> "ARM_SWITCH" \in armingDisabled
  BY DEF processRx, ValidDataReceived, ValidDataFailed
<1>4. SwitchLatched'
  BY <1>1, <1>3 DEF TimedInv, SwitchLatched
<1>5. landingLeft' <= landingLeft
  BY <1>1 DEF TypeOK, Expired
<1> QED BY <1>1, <1>2, <1>3, <1>4, <1>5, QuietKeepsTimed

\* The second stage of the RX task arms, disarms and latches the switch.
LEMMA ModesKeepTimed ==
    ASSUME TypeOK, TypeOK', FailsafeInv, TimedInv, NEW newBox, processRxModes(newBox)
    PROVE  TimedInv'
<1>1. /\ loop = FALSE /\ processRcStickPositions
      /\ UNCHANGED <<loop, phase, goodFor, monitoring, landingLeft, stalled, receivingLeft, rxLag>>
  BY DEF processRxModes, processRcStickPositions, failsafeVars, loopVars, timerVars, TypeOK
<1>2. downFor' = 0 \/ (downFor' = downFor /\ (armed' = FALSE => armed = FALSE))
  BY <1>1, CountOfArmed DEF processRcStickPositions
<1>3. SwitchLatched'
  BY <1>1, SticksLatch DEF SwitchLatched
<1>4. landingLeft' <= landingLeft
  BY <1>1 DEF TypeOK, Expired
<1> QED BY <1>1, <1>2, <1>3, <1>4, SticksKeepBlock, QuietKeepsTimed

\* updateArmingStatus() ends the round, and by then the switch is latched.
LEMMA UpdateKeepsTimed ==
    ASSUME TypeOK, TypeOK', FailsafeInv, TimedInv, updateArmingStatus
    PROVE  TimedInv'
<1>1. /\ loop = FALSE
      /\ UNCHANGED <<loop, phase, goodFor, monitoring, armed, downFor, landingLeft,
                     stalled, cycled, receivingLeft, box>>
  BY DEF updateArmingStatus, failsafeVars, inputVars, loopVars, timerVars, history, TypeOK
<1>2. PICK grace \in Graces : armingDisabled' = UpdatedFlags(grace)
  BY DEF updateArmingStatus
<1>3. "FAILSAFE" \in armingDisabled' <=> "FAILSAFE" \in armingDisabled
  BY <1>2, UpdatedFlagsKeepBlock
<1>4. SwitchLatched'
  <2> SUFFICES ASSUME cycled = FALSE, stalled = FALSE
               PROVE  armed = FALSE /\ ("ARM" \in box => "ARM_SWITCH" \in armingDisabled')
    BY <1>1 DEF SwitchLatched
  <2>1. armed = FALSE
    BY DEF TimedInv, SwitchLatched
  <2>2. "ARM" \in box => "ARM_SWITCH" \in UpdatedFlags(grace)
    BY <2>1, ChecksLatch, StoppedIsBlocked
  <2> QED BY <1>2, <2>1, <2>2
<1>5. landingLeft' <= landingLeft
  BY <1>1 DEF TypeOK, Expired
<1> QED BY <1>1, <1>3, <1>4, <1>5, QuietKeepsTimed

\* The MSP command disarms at most.
LEMMA MspKeepsTimed ==
    ASSUME TypeOK, TypeOK', TimedInv, NEW command, mspSetArmingDisabled(command)
    PROVE  TimedInv'
<1>1. /\ loop = FALSE
      /\ UNCHANGED <<loop, phase, goodFor, monitoring, landingLeft, stalled, cycled,
                     receivingLeft, rxLag, box>>
  BY DEF mspSetArmingDisabled, failsafeVars, inputVars, loopVars, timerVars, rxTaskVars, TypeOK
<1>2. /\ "FAILSAFE" \in armingDisabled' <=> "FAILSAFE" \in armingDisabled
      /\ "ARM_SWITCH" \in armingDisabled' <=> "ARM_SWITCH" \in armingDisabled
      /\ armed = FALSE => armed' = FALSE
  BY DEF mspSetArmingDisabled, Set, Disarm
<1>3. downFor' = 0 \/ (downFor' = downFor /\ (armed' = FALSE => armed = FALSE))
  BY CountOfArmed DEF mspSetArmingDisabled
<1>4. SwitchLatched'
  BY <1>1, <1>2 DEF TimedInv, SwitchLatched
<1>5. landingLeft' <= landingLeft
  BY <1>1 DEF TypeOK, Expired
<1> QED BY <1>1, <1>2, <1>3, <1>4, <1>5, QuietKeepsTimed

\* A write ages the timers of a model on the ground, and is remembered.
LEMMA WriteKeepsTimed ==
    ASSUME TypeOK, TypeOK', TimedInv, NEW stall \in 0 .. SuspendPeriod, writeEEPROM(stall)
    PROVE  TimedInv'
<1>1. /\ loop = FALSE /\ armed = FALSE /\ stalled' = TRUE
      /\ UNCHANGED <<loop, phase, goodFor, monitoring, armed, armingDisabled, downFor>>
  BY DEF writeEEPROM, loopVars, armVars, TypeOK
<1>2. landingLeft' <= landingLeft
  <2>1. landingLeft' = Max2(landingLeft - stall, Expired)
    BY DEF writeEEPROM, SuspendResume
  <2> QED BY <2>1, ConstantsNat DEF TypeOK, Max2, Expired
<1>3. SwitchLatched'
  BY <1>1 DEF SwitchLatched
<1> QED BY <1>1, <1>2, <1>3, QuietKeepsTimed

\* A reload ends whatever stage 2 was at; it finds the model disarmed.
LEMMA ReloadKeepsTimed ==
    ASSUME TypeOK, TimedInv, writeReadEeprom
    PROVE  TimedInv'
<1>1. /\ loop = FALSE /\ loop' = FALSE /\ armed = FALSE /\ stalled' = TRUE /\ phase' = "IDLE"
      /\ UNCHANGED <<armed, armingDisabled, downFor>>
  BY DEF writeReadEeprom, ResetState, loopVars, armVars, TypeOK
<1> QED
  BY <1>1 DEF TimedInv, MotorInv, SamplesFresh, StageTwoAtOnce, GlideBudget, CountIsOfThisFlight,
         SteadyLink, SwitchLatched

\* Steps that touch none of the variables of TimedInv.
LEMMA StutterKeepsTimed == TimedInv /\ UNCHANGED vars => TimedInv'
BY DEF vars, failsafeVars, linkVars, timerVars, loopVars, inputVars, armVars, rxTaskVars, history,
       TimedInv, MotorInv, SamplesFresh, StageTwoAtOnce, GlideBudget, CountIsOfThisFlight,
       SteadyLink, SwitchLatched

\* At boot no timer runs.
LEMMA InitTimed == Init => TimedInv
BY ConstantsNat DEF Init, TimedInv, MotorInv, SamplesFresh, StageTwoAtOnce, GlideBudget,
       CountIsOfThisFlight, SteadyLink, SwitchLatched

\* Every step keeps TimedInv.
LEMMA StepKeepsTimed ==
    ASSUME TypeOK, TypeOK', FailsafeInv, TimedInv, [Next]_vars
    PROVE  TimedInv'
<1>1. CASE rxFrameCheck
  BY <1>1, FrameCheckKeepsTimed
<1>2. CASE RxTask
  BY <1>2, CheckKeepsTimed, ModesKeepTimed, UpdateKeepsTimed DEF RxTask
<1>3. CASE FailsafeTick
  BY <1>3, TickKeepsTimed
<1>4. CASE FailsafeUpdate
  BY <1>4, LoopKeepsTimed
<1>5. CASE \E command \in BOOLEAN : mspSetArmingDisabled(command)
  BY <1>5, MspKeepsTimed
<1>6. CASE \E stall \in 0 .. SuspendPeriod : writeEEPROM(stall)
  BY <1>6, WriteKeepsTimed
<1>7. CASE writeReadEeprom
  BY <1>7, ReloadKeepsTimed
<1>8. CASE UNCHANGED vars
  BY <1>8, StutterKeepsTimed
<1> QED
  BY <1>1, <1>2, <1>3, <1>4, <1>5, <1>6, <1>7, <1>8 DEF Next

\* The timed invariant that the theorems below are read from.
THEOREM TimedInvHolds == Spec => []TimedInv
<1>1. Init => TimedInv
  BY InitTimed
<1>2. TypeOK /\ TypeOK' /\ FailsafeInv /\ TimedInv /\ [Next]_vars => TimedInv'
  BY StepKeepsTimed
<1> QED
  BY <1>1, <1>2, TypeCorrect, FailsafeInvHolds, PTL DEF Spec

\* The motor is cut in time: no flight without a link outlasts the glide-home
\* budget by more than the tick it began with, however long the budget is.
THEOREM MotorCutTheorem == Spec => []MotorCutInTime
<1>1. TypeOK /\ FailsafeInv /\ TimedInv => MotorCutInTime
  <2> SUFFICES ASSUME TypeOK, FailsafeInv, TimedInv, loop = FALSE, armed = TRUE
               PROVE  downFor <= OffDelay + 1
    BY DEF MotorCutInTime, TypeOK
  <2>1. downFor \in Nat /\ landingLeft \in Expired .. OffDelay
    BY ConstantsNat DEF TypeOK
  <2>2. CASE phase = "IDLE"
    BY <2>1, <2>2, ConstantsNat DEF TimedInv, MotorInv, StageTwoAtOnce
  <2>3. CASE phase \in {"LANDING", "GPS_RESCUE"}
    <3>1. landingLeft + downFor <= OffDelay + 1
      BY <2>3 DEF TimedInv, MotorInv, GlideBudget
    <3>2. downFor > 0 => landingLeft # Expired
      BY <2>3 DEF TimedInv, MotorInv, GlideBudget
    <3>3. OffDelay \in Nat
      BY ConstantsNat
    <3> QED BY <2>1, <3>1, <3>2, <3>3 DEF Expired
  <2>4. phase # "RX_LOSS_MONITORING"
    BY DEF FailsafeInv, LockedOut
  <2> QED BY <2>2, <2>3, <2>4 DEF FailsafeInv, RestsBetweenCalls
<1> QED
  BY <1>1, TypeCorrect, FailsafeInvHolds, TimedInvHolds, PTL

\* A call of failsafeUpdateState() that finds the data older than the stage-1
\* period does not return with the motor armed and nobody flying.
THEOREM StageTwoTheorem == Spec => StageTwoEngages
<1>1. TypeOK /\ TypeOK' /\ FailsafeInv /\ FailsafeInv' /\ TimedInv /\ [Next]_vars
        => [loop /\ ~loop' /\ armed' /\ sinceReceived' > RxDataFailurePeriod
              => phase' \in {"LANDING", "GPS_RESCUE"} /\ active']_vars
  <2> SUFFICES ASSUME TypeOK, TypeOK', FailsafeInv, FailsafeInv', TimedInv, Next,
                      loop = TRUE, loop' = FALSE, armed' = TRUE, sinceReceived' > RxDataFailurePeriod
               PROVE  phase' \in {"LANDING", "GPS_RESCUE"} /\ active' = TRUE
    BY DEF TypeOK, vars, failsafeVars, loopVars
  <2>1. FailsafeUpdate
    BY DEF Next, RxTask, rxFrameCheck, processRx, processRxModes, updateArmingStatus, FailsafeTick,
           failsafeTick, mspSetArmingDisabled, writeEEPROM, writeReadEeprom
  <2>2. receiving = FALSE
    BY <2>1, TurnFrame DEF TimedInv, SamplesFresh
  <2>3. armed' = armed /\ phase' = phase
    BY <2>1, TurnMoves
  <2>4. armedSample = TRUE
    BY <2>3 DEF TimedInv, SamplesFresh
  <2>5. phase \in {"LANDING", "GPS_RESCUE"}
    <3>1. phase # "RX_LOSS_MONITORING"
      BY <2>3 DEF FailsafeInv, LockedOut
    <3>2. phase \in {"IDLE", "LANDING", "GPS_RESCUE", "RX_LOSS_MONITORING"}
      BY <2>3 DEF FailsafeInv, RestsBetweenCalls
    <3>3. phase # "IDLE"
      BY <2>1, <2>2, <2>3, <2>4, TurnMoves
    <3> QED BY <3>1, <3>2, <3>3
  <2>6. active' = TRUE
    BY <2>3, <2>5 DEF FailsafeInv, ActiveInStageTwo
  <2> QED BY <2>3, <2>5, <2>6
<1> QED
  BY <1>1, TypeCorrect, FailsafeInvHolds, TimedInvHolds, PTL DEF Spec, StageTwoEngages

\* The lockout ends only after a whole recovery period of ticks with a link.
THEOREM SteadyLinkTheorem == Spec => LockoutNeedsSteadyLink
<1>1. TypeOK /\ FailsafeInv /\ TimedInv /\ [Next]_vars
        => [phase = "RX_LOSS_MONITORING" /\ phase' = "RX_LOSS_RECOVERED" /\ ~stalled
              => goodFor > RxDataRecoveryPeriod]_vars
  <2> SUFFICES ASSUME TypeOK, FailsafeInv, TimedInv, Next,
                      phase = "RX_LOSS_MONITORING", phase' = "RX_LOSS_RECOVERED", stalled = FALSE
               PROVE  goodFor > RxDataRecoveryPeriod
    BY DEF TypeOK, vars, failsafeVars
  <2>1. FailsafeUpdate
    BY DEF Next, RxTask, rxFrameCheck, processRx, processRxModes, updateArmingStatus, FailsafeTick,
           failsafeTick, mspSetArmingDisabled, writeEEPROM, writeReadEeprom, ResetState, failsafeVars
  <2>2. receiving = TRUE /\ receivingLeft = Expired
    BY <2>1, TurnMoves
  <2>3. receivingLeft + goodFor >= RxDataRecoveryPeriod
    BY <2>2 DEF TimedInv, SteadyLink
  <2>4. goodFor \in Nat /\ RxDataRecoveryPeriod \in Nat
    BY ConstantsNat DEF TypeOK
  <2> QED BY <2>2, <2>3, <2>4 DEF Expired
<1> QED
  BY <1>1, TypeCorrect, FailsafeInvHolds, TimedInvHolds, PTL DEF Spec, LockoutNeedsSteadyLink

\* After a failsafe disarm the motor stays off until the arm switch is cycled: it
\* rests on MaxRxLag < RxDataRecoveryPeriod, a round of the RX task in every
\* recovery period, and fails without it.
THEOREM RearmTheorem == Spec => RearmNeedsSwitchCycle
<1>1. TypeOK /\ FailsafeInv /\ TimedInv /\ [Next]_vars
        => [~armed /\ armed' => cycled \/ stalled]_vars
  <2> SUFFICES ASSUME TypeOK, FailsafeInv, TimedInv, Next, armed = FALSE, armed' = TRUE
               PROVE  cycled = TRUE \/ stalled = TRUE
    BY DEF TypeOK, vars, armVars
  <2>1. PICK newBox \in SUBSET mapped : processRxModes(newBox)
    <3>1. ~FailsafeUpdate
      BY TurnMoves
    <3> QED
      BY <3>1 DEF Next, RxTask, rxFrameCheck, processRx, updateArmingStatus, FailsafeTick,
           failsafeTick, mspSetArmingDisabled, Disarm, writeEEPROM, writeReadEeprom, armVars
  <2> QED BY <2>1, SticksLatch DEF processRxModes, processRcStickPositions
<1> QED
  BY <1>1, TypeCorrect, FailsafeInvHolds, TimedInvHolds, PTL DEF Spec, RearmNeedsSwitchCycle
=============================================================================
