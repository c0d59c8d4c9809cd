---------------------------- MODULE FlightSafety ----------------------------
(***************************************************************************)
(* Receiver link, arming and failsafe together: the RX task of fc/tasks.c  *)
(* (rx/rx.c, fc/rc_controls.c, fc/core.c) interleaved with the failsafe    *)
(* state machine of flight/failsafe.c, with the MSP commands that disarm   *)
(* and with the configuration writes that reset the failsafe under it.     *)
(*                                                                         *)
(* The RX task runs in three invocations (CHECK, MODES, UPDATE), and       *)
(* failsafeUpdateState() may run between any two of them: the scheduler    *)
(* gives no order between the two.  The configuration modelled: a serial   *)
(* receiver, arming by AUX switch, aux channels held through a signal loss *)
(* (the default of rxfail), an accelerometer; the arming checks of sensors,*)
(* calibration and GPS have passed.                                        *)
(***************************************************************************)
EXTENDS Failsafe

CONSTANTS
    HasBackup,      \* a backup receiver port is configured
    DisarmDebounce, \* rcDisarmTicks must exceed this (3 in the code)
    MaxRxLag,       \* failsafe ticks the RX task may need for one round
    PowerOnDelay,   \* FAILSAFE_POWER_ON_DELAY_US
    MaxSaves        \* bound on configuration writes and reloads

ASSUME FlightSafetyAssumption ==
    /\ HasBackup \in BOOLEAN
    /\ {DisarmDebounce, MaxRxLag, PowerOnDelay, MaxSaves} \subseteq Nat
    /\ MaxRxLag < RxDataRecoveryPeriod

VARIABLES
    rxStage,        \* rxState of taskUpdateRxMain()
    rxPending,      \* rxDataProcessingRequired
    live,           \* the last CHECK took rcInput[] from a live receiver
    rxLag,          \* failsafe ticks since the RX task finished a round
    uptime,         \* time since power-on, up to PowerOnDelay
    hadRx,          \* updateArmingStatus()'s static
    rcDisarmTicks,  \* processRcStickPositions()'s static
    wasRthActive, wasLoiterActive,  \* processRxModes()'s statics
    saves,          \* configuration writes so far (bounded by MaxSaves)
    reloaded,       \* history: failsafeReset() has run since boot
    cycled,         \* history: arm switch seen off since the last failsafe disarm
    stalled,        \* history: configuration written since the last failsafe disarm
    goodFor,        \* history: ticks in a row that found the link up, in lockout
    downFor         \* history: ticks in a row that found the link down, armed

rxTaskVars == <<rxStage, rxPending, live, rxLag, uptime>>
statics    == <<hadRx, rcDisarmTicks, wasRthActive, wasLoiterActive>>
history    == <<reloaded, cycled, stalled, goodFor, downFor>>
vars == <<failsafeVars, inputVars, armVars, flightMode, nav,
          rxTaskVars, statics, saves, history>>

-----------------------------------------------------------------------------
(* rx.c: frame detection, and the CHECK stage of the RX task. *)

\* rxFrameCheck(), every gyro cycle while no RX round is in progress: a frame
\* arrives, or none has for 100 ms; with a backup port every call asks for a
\* round of the RX task.
rxFrameCheck ==
    /\ ~loop /\ rxStage = "CHECK"
    /\ \/ rxSignalReceived' = TRUE
       \/ rxSignalReceived' = FALSE
       \/ HasBackup /\ UNCHANGED rxSignalReceived
    /\ rxPending' = TRUE
    /\ UNCHANGED <<failsafeVars, box, throttleOff, armVars, flightMode, nav,
                   rxStage, live, rxLag, uptime, statics, saves, history>>

\* Mutant: a backup takeover is not reported to the failsafe.
FlightChannelsValid_noBackup(backup, pulses) ==
    "FAILSAFE" \notin box /\ rxSignalReceived /\ pulses

\* detectAndApplySignalLossBehaviour(): `backup' is a backup port with fresh
\* frames, `pulses' that no flight channel has been invalid beyond its hold.
FlightChannelsValid(backup, pulses) ==
    /\ "FAILSAFE" \notin box
    /\ \/ rxSignalReceived /\ pulses
       \/ ~rxSignalReceived /\ backup

\* The stick is read from a live receiver; otherwise the channel is held and
\* then set to getFailsafeThrottle(), below the throttle-off threshold.
ThrottleSample(backup, pulses) ==
    IF \/ rxSignalReceived /\ pulses /\ "FAILSAFE" \notin box
       \/ ~rxSignalReceived /\ backup
    THEN BOOLEAN ELSE {throttleOff, TRUE}

\* RX_STATE_CHECK: processRx().
processRx(backup, pulses) ==
    /\ ~loop /\ rxStage = "CHECK" /\ rxPending
    /\ IF FlightChannelsValid(backup, pulses) THEN ValidDataReceived ELSE ValidDataFailed
    /\ throttleOff' \in ThrottleSample(backup, pulses)
    /\ live' = (rxSignalReceived \/ backup)
    /\ monitoring' = (monitoring \/ uptime = PowerOnDelay)
    /\ rxPending' = FALSE
    /\ rxStage' = "MODES"
    /\ UNCHANGED <<configVars, phase, active, timerVars, loopVars, box, rxSignalReceived,
                   armed, wasEverArmed, flightMode, nav,
                   rxLag, uptime, statics, saves, history>>

-----------------------------------------------------------------------------
(* core.c: the arming-disable flags and tryArm(). *)

Set(flags, f, on) == IF on THEN flags \cup {f} ELSE flags \ {f}

BadRxRecovery(flags) ==
    IF ~hadRx /\ rxSignalReceived /\ "ARM" \in box THEN flags \cup {"BAD_RX_RECOVERY"}
    ELSE IF rxSignalReceived /\ "ARM" \notin box THEN flags \ {"BAD_RX_RECOVERY"}
    ELSE flags

\* Mutant: the arm-switch latch is dropped.
ArmSwitch_none(flags) == flags

ArmSwitch(flags) ==
    IF flags # {} /\ "ARM" \in box THEN flags \cup {"ARM_SWITCH"}
    ELSE IF "ARM" \notin box THEN flags \ {"ARM_SWITCH"}
    ELSE flags

\* airborneRearmGraceActive(): a disarm in flight may have begun a grace
\* (RcModes says when), and a model that was never armed has none.
Graces == {FALSE, wasEverArmed}

\* updateArmingStatus(), which leaves the flags alone while armed.
UpdatedFlags(grace) ==
    LET checked == Set(Set(Set(BadRxRecovery(armingDisabled),
                       "BOXFAILSAFE", "FAILSAFE" \in box),
                       "THROTTLE", ~throttleOff /\ ~grace),
                       "RESC", box \cap {"RTH", "LOITER"} # {})
    IN  IF armed THEN armingDisabled ELSE ArmSwitch(checked)

SampleRx == hadRx' = IF armed THEN hadRx ELSE rxSignalReceived

\* tryArm(); the arming wiggle and the DSHOT beacon guard may put it off to a
\* later round.
tryArm ==
    /\ \E grace \in Graces :
          /\ armingDisabled' = UpdatedFlags(grace)
          /\ IF UpdatedFlags(grace) = {} THEN armed' \in {armed, TRUE} ELSE UNCHANGED armed
    /\ SampleRx
    /\ UNCHANGED wasEverArmed

\* The arm switch is off: disarm after a debounce, with the main receiver
\* delivering frames and no stage-2 failsafe.
ArmSwitchOff ==
    /\ IF armed /\ rxSignalReceived /\ ~active
       THEN /\ rcDisarmTicks' = Min2(rcDisarmTicks + 1, DisarmDebounce + 1)
            /\ IF rcDisarmTicks + 1 > DisarmDebounce THEN Disarm
               ELSE UNCHANGED <<armed, wasEverArmed>>
       ELSE UNCHANGED <<rcDisarmTicks, armed, wasEverArmed>>
    /\ UNCHANGED <<armingDisabled, hadRx>>

\* The history of a flight without a link ends with the disarm.
CountWhileArmed == downFor' = IF armed' THEN downFor ELSE 0

\* processRcStickPositions(), switch arming; it reads the modes of the
\* previous round, updateActivatedModes() comes after it.
processRcStickPositions ==
    /\ IF "ARM" \in box THEN rcDisarmTicks' = 0 /\ tryArm ELSE ArmSwitchOff
    /\ cycled' = (cycled \/ "ARM" \notin box)
    /\ CountWhileArmed
    /\ UNCHANGED <<reloaded, stalled, goodFor>>

-----------------------------------------------------------------------------
(* core.c: who owns RTH_MODE and the nav target. *)

\* Mutant: the RX task does not defer to a running rescue.
Rth_noDefer(newBox) ==
    IF armed' /\ "RTH" \in newBox
    THEN [on |-> TRUE, was |-> TRUE,
          nav |-> IF ~wasRthActive \/ nav = "OFF" THEN "RTH" ELSE nav]
    ELSE [on |-> FALSE, was |-> FALSE, nav |-> nav]

\* The BOXRTH / failsafe / else chain of processRxModes(), as the resulting
\* RTH bit, nav target and static.
Rth(newBox) ==
    IF armed' /\ "RTH" \in newBox
    THEN [on |-> TRUE, was |-> TRUE,
          nav |-> IF ~wasRthActive \/ nav = "OFF" THEN "RTH" ELSE nav]
    ELSE IF active /\ phase = "GPS_RESCUE"
    THEN [on |-> "RTH" \in flightMode, was |-> wasRthActive, nav |-> nav]
    ELSE [on |-> FALSE, was |-> FALSE, nav |-> nav]

\* Then BOXLOITER, and navStop() when neither mode is left on.
NavModes(newBox) ==
    LET rth    == Rth(newBox)
        loiter == armed' /\ "LOITER" \in newBox /\ ~rth.on
        target == IF loiter /\ (~wasLoiterActive \/ rth.nav = "OFF") THEN "LOITER" ELSE rth.nav
    IN  /\ flightMode' = Set(Set(flightMode, "RTH", rth.on), "LOITER", loiter)
        /\ wasRthActive' = rth.was
        /\ wasLoiterActive' = loiter
        /\ nav' = IF rth.on \/ loiter THEN target ELSE "OFF"

\* RX_STATE_MODES: processRxModes().  Aux switches move only on a live link.
processRxModes(newBox) ==
    /\ ~loop /\ rxStage = "MODES"
    /\ live \/ newBox = box
    /\ processRcStickPositions
    /\ box' = newBox
    /\ NavModes(newBox)
    /\ rxStage' = "UPDATE"
    /\ UNCHANGED <<failsafeVars, throttleOff, rxSignalReceived,
                   rxPending, live, rxLag, uptime, saves>>

\* RX_STATE_UPDATE: updateRcCommands() and updateArmingStatus().
updateArmingStatus ==
    /\ ~loop /\ rxStage = "UPDATE"
    /\ armingDisabled' \in {UpdatedFlags(grace) : grace \in Graces}
    /\ SampleRx
    /\ rxStage' = "CHECK"
    /\ rxLag' = 0
    /\ UNCHANGED <<failsafeVars, inputVars, armed, wasEverArmed, flightMode, nav,
                   rxPending, live, uptime, rcDisarmTicks, wasRthActive, wasLoiterActive,
                   saves, history>>

-----------------------------------------------------------------------------
(* The failsafe, at the scheduler's 10 ms. *)

FailsafeTick ==
    /\ rxLag < MaxRxLag
    /\ failsafeTick
    /\ rxLag' = rxLag + 1
    /\ uptime' = Min2(uptime + 1, PowerOnDelay)
    /\ goodFor' = IF receiving' /\ phase = "RX_LOSS_MONITORING"
                  THEN Min2(goodFor + 1, RxDataRecoveryPeriod + 1) ELSE 0
    /\ downFor' = IF monitoring /\ armed /\ ~receiving'
                  THEN Min2(downFor + 1, OffDelay + 2) ELSE 0
    /\ UNCHANGED <<rxStage, rxPending, live, statics, saves, reloaded, cycled, stalled>>

FailsafeUpdate ==
    /\ failsafeUpdateState
    /\ cycled' = (cycled /\ phase # "LANDED")
    /\ stalled' = (stalled /\ phase # "LANDED")
    /\ UNCHANGED <<rxTaskVars, statics, saves, reloaded, goodFor, downFor>>

-----------------------------------------------------------------------------
(* Other tasks that reach into this state. *)

\* MSP_SET_ARMING_DISABLED.
mspSetArmingDisabled(command) ==
    /\ ~loop
    /\ armingDisabled' = Set(armingDisabled, "MSP", command)
    /\ IF command /\ armed THEN Disarm ELSE UNCHANGED <<armed, wasEverArmed>>
    /\ CountWhileArmed
    /\ UNCHANGED <<failsafeVars, inputVars, flightMode, nav, rxTaskVars, statics, saves,
                   reloaded, cycled, stalled, goodFor>>

\* dispatchConfigWrite() and every other writeEEPROM(); put off while armed.
writeEEPROM(stall) ==
    /\ ~loop /\ ~armed /\ saves < MaxSaves
    /\ SuspendResume(stall)
    /\ uptime' = Min2(uptime + stall, PowerOnDelay)
    /\ saves' = saves + 1
    /\ stalled' = TRUE
    /\ UNCHANGED <<configVars, phase, active, monitoring, loopVars, inputVars, armVars,
                   flightMode, nav, rxStage, rxPending, live, rxLag, statics,
                   reloaded, cycled, goodFor, downFor>>

\* MSP_EEPROM_WRITE: writeEEPROM(), then readEEPROM(), whose activateConfig()
\* calls failsafeReset() between suspend and resume.
writeReadEeprom ==
    /\ ~loop /\ ~armed /\ saves < MaxSaves
    /\ ResetState
    /\ sinceReceived' = IF rxSignalReceived THEN 0 ELSE RxDataFailurePeriod + 1
    /\ rxLinkState' = IF rxSignalReceived THEN "UP" ELSE "DOWN"
    /\ saves' = saves + 1
    /\ reloaded' = TRUE
    /\ stalled' = TRUE
    /\ UNCHANGED <<configVars, active, monitoring, loopVars, inputVars, armVars,
                   flightMode, nav, rxTaskVars, statics, cycled, goodFor, downFor>>

-----------------------------------------------------------------------------
Init ==
    /\ \E c \in Configs : procedure = c.procedure /\ switchMode = c.switchMode /\ mapped = c.boxes
    /\ phase = "IDLE" /\ active = FALSE /\ monitoring = FALSE
    /\ rxLinkState = "DOWN" /\ sinceReceived = RxDataFailurePeriod + 1 /\ sinceFailed = Never
    /\ throttleLowLeft = Expired /\ landingLeft = Expired /\ receivingLeft = Expired
    /\ loop = FALSE /\ receiving = FALSE /\ armedSample = FALSE
    /\ armed = FALSE /\ wasEverArmed = FALSE /\ armingDisabled = {}
    /\ flightMode = {} /\ nav = "OFF"
    /\ box = {} /\ throttleOff = TRUE /\ rxSignalReceived = FALSE
    /\ rxStage = "CHECK" /\ rxPending = FALSE /\ live = FALSE /\ rxLag = 0 /\ uptime = 0
    /\ hadRx = FALSE /\ rcDisarmTicks = 0
    /\ wasRthActive = FALSE /\ wasLoiterActive = FALSE
    /\ saves = 0 /\ reloaded = FALSE /\ cycled = TRUE /\ stalled = FALSE /\ goodFor = 0 /\ downFor = 0

RxTask ==
    \/ \E backup \in {FALSE, HasBackup}, pulses \in BOOLEAN : processRx(backup, pulses)
    \/ \E newBox \in SUBSET mapped : processRxModes(newBox)
    \/ updateArmingStatus

Next ==
    \/ rxFrameCheck
    \/ RxTask
    \/ FailsafeTick
    \/ FailsafeUpdate
    \/ \E command \in BOOLEAN : mspSetArmingDisabled(command)
    \/ \E stall \in 0 .. SuspendPeriod : writeEEPROM(stall)
    \/ writeReadEeprom

Spec == Init /\ [][Next]_vars

\* The scheduler calls rxFrameCheck() and the failsafe from its own loop, and
\* ages every waiting task until it runs.
Fairness ==
    /\ WF_vars(rxFrameCheck) /\ WF_vars(RxTask)
    /\ WF_vars(FailsafeTick) /\ WF_vars(FailsafeUpdate)

FairSpec == Spec /\ Fairness

-----------------------------------------------------------------------------
(* Types. *)

TypeOK ==
    /\ procedure \in Procedures /\ switchMode \in SwitchModes /\ mapped \subseteq Box
    /\ phase \in Phase /\ active \in BOOLEAN /\ monitoring \in BOOLEAN
    /\ rxLinkState \in {"UP", "DOWN"}
    /\ sinceReceived \in Int /\ sinceReceived <= RxDataFailurePeriod + 1
    /\ sinceFailed \in Never .. RxDataRecoveryPeriod + 1
    /\ throttleLowLeft \in Expired .. ThrottleLowDelay
    /\ landingLeft \in Expired .. OffDelay
    /\ receivingLeft \in Expired .. RxDataRecoveryPeriod
    /\ loop \in BOOLEAN /\ receiving \in BOOLEAN /\ armedSample \in BOOLEAN
    /\ armed \in BOOLEAN /\ wasEverArmed \in BOOLEAN /\ armingDisabled \subseteq Flag
    /\ flightMode \subseteq {"FAILSAFE", "RTH", "LOITER"}
    /\ nav \in {"OFF", "RTH", "LOITER"}
    /\ box \subseteq Box /\ throttleOff \in BOOLEAN /\ rxSignalReceived \in BOOLEAN
    /\ rxStage \in {"CHECK", "MODES", "UPDATE"}
    /\ rxPending \in BOOLEAN /\ live \in BOOLEAN
    /\ rxLag \in 0 .. MaxRxLag /\ uptime \in 0 .. PowerOnDelay
    /\ hadRx \in BOOLEAN /\ rcDisarmTicks \in 0 .. DisarmDebounce + 1
    /\ wasRthActive \in BOOLEAN /\ wasLoiterActive \in BOOLEAN
    /\ saves \in 0 .. MaxSaves
    /\ reloaded \in BOOLEAN /\ cycled \in BOOLEAN /\ stalled \in BOOLEAN
    /\ goodFor \in 0 .. RxDataRecoveryPeriod + 1
    /\ downFor \in 0 .. OffDelay + 2

-----------------------------------------------------------------------------
(* Safety. *)

\* Between two calls of failsafeUpdateState() the machine rests in one of the
\* four phases that wait for something, `active' holds in each but IDLE, and a
\* failsafe that waits for the link after a disarm keeps the motor disarmed and
\* the arming block set, whatever the switches, the RX task and MSP do.
LockoutHolds ==
    ~loop => /\ phase \in {"IDLE", "LANDING", "GPS_RESCUE", "RX_LOSS_MONITORING"}
             /\ phase # "IDLE" => active /\ "FAILSAFE" \in flightMode
             /\ phase = "RX_LOSS_MONITORING" => ~armed /\ "FAILSAFE" \in armingDisabled

\* As long as no configuration has been read back since boot, the arming block
\* and `active' end with the failsafe: neither outlives the phase it belongs to.
BlockEndsWithFailsafe ==
    ~loop /\ ~reloaded => /\ active <=> phase # "IDLE"
                          /\ "FAILSAFE" \in armingDisabled <=> phase = "RX_LOSS_MONITORING"

\* A running GPS rescue keeps RTH_MODE and the nav target it started, though
\* processRxModes() re-evaluates both from switches that may be held or stale.
RescueKeepsNav ==
    ~loop /\ phase = "GPS_RESCUE" => "RTH" \in flightMode /\ nav = "RTH"

\* The nav controller runs exactly while a nav mode is on and the RX task has
\* seen it: no mode flag is left on without a target once a round has ended.
NavOwned ==
    ~loop /\ nav # "OFF" => flightMode \cap {"RTH", "LOITER"} # {}

\* After a failsafe disarm the motor does not come back until the arm switch
\* has been seen off, even if the link returns with the switch on: the lockout
\* lasts longer than a round of the RX task, and a round latches the switch.  A
\* configuration written since then can cut the lockout short of that round.
RearmNeedsSwitchCycle == [][~armed /\ armed' => cycled \/ stalled]_vars

\* As long as no configuration has been written since the failsafe disarmed, the
\* lockout ends only when the link has been up at every failsafe tick of a whole
\* recovery period: an intermittent link starts the period again.
LockoutNeedsSteadyLink ==
    [][phase = "RX_LOSS_MONITORING" /\ phase' = "RX_LOSS_RECOVERED" /\ ~stalled
          => goodFor > RxDataRecoveryPeriod]_vars

\* When a call of failsafeUpdateState() returns with the motor armed and no
\* valid data for longer than the stage-1 period, stage 2 is flying the model.
StageTwoEngages ==
    [][loop /\ ~loop' /\ armed' /\ sinceReceived' > RxDataFailurePeriod
          => phase' \in {"LANDING", "GPS_RESCUE"} /\ active']_vars

\* The motor is never kept armed without a link for longer than the glide-home
\* budget: whichever procedure is flying, however it is handed over and whatever
\* the RX task does, OffDelay + 2 failsafe ticks in a row without a link end with
\* the motor disarmed.
MotorCutInTime == ~loop /\ armed => downFor <= OffDelay + 1

-----------------------------------------------------------------------------
(* Liveness. *)

\* If every link stays down the motor is cut: a stage-2 procedure with no link
\* always ends in a disarm.
LinkLossCutsMotor == (<>[](~rxSignalReceived /\ ~live)) => <>[](~armed)

\* With the link good and the failsafe switch off from some moment on, a failsafe
\* that waits for the link ends and gives arming back, unless a configuration
\* has been read back in the meantime.
LockoutEnds ==
    <>[](rxLinkState = "UP" /\ "FAILSAFE" \notin box /\ ~reloaded)
        => []<>("FAILSAFE" \notin armingDisabled)

\* With fresh frames on a backup port and none on the main receiver the failsafe
\* ends: a takeover is a valid link to it, in every phase but a GPS rescue, which
\* waits for the pilot's hands.
BackupEndsFailsafe ==
    <>[](live /\ ~rxSignalReceived /\ "FAILSAFE" \notin box /\ phase # "GPS_RESCUE" /\ ~reloaded)
        => <>[](~active)
=============================================================================
