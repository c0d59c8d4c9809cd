------------------------------ MODULE RcModes ------------------------------
(***************************************************************************)
(* src/main/fc/rc_modes.c with the parts of fc/core.c, fc/rc_controls.c    *)
(* and msp/msp.c that use it: how the switches activate modes, how a bench *)
(* client forces modes for a while, and how arming, the in-flight latch    *)
(* and the grace for a re-arm in the air hang together.                    *)
(*                                                                         *)
(* RxTask is processRxModes(): it looks at the arm switch with the modes   *)
(* of its previous run, and only then computes the modes from the new      *)
(* channels.  updateArmingStatus() is called again in the last invocation  *)
(* of the RX task (at any time here), and MSP commands come between.       *)
(*                                                                         *)
(* Time stamps are kept as distances from now, 0 once they have passed.    *)
(* armedTime is the exception: the code compares it as a signed 32 bit     *)
(* difference, so it wraps, at 2 * HalfRange here.                         *)
(***************************************************************************)
EXTENDS Integers, Sequences

CONSTANTS
    Tables,             \* the tables of modeActivationConditions considered
    Aux,                \* the aux channels
    GraceSeconds,       \* armingConfig()->rearm_grace_seconds
    MinArmed,           \* armingConfig()->rearm_min_armed_seconds
    HalfRange,          \* 2^31 microseconds
    OverrideMin, OverrideMax,   \* OVERRIDE_TIMEOUT_MIN_MS, ..._MAX_MS
    Timeouts,           \* the timeouts a client asks for, 0 to clear
    DisarmTicks         \* 3 in processRcStickPositions()

Modes       == {"ARM", "PREARM", "GOVERNOR", "ANGLE", "MANUAL"}
Overridable == {"ANGLE", "MANUAL"}                  \* isModeOverrideAllowed()
Nothing     == "nothing"                            \* linkedTo = 0

\* Throttle: off, on but below governor_handover, above 0.35.
Throttle == {"OFF", "IDLE", "HIGH"}

ASSUME RcModesAssumption ==
    /\ {GraceSeconds, MinArmed, OverrideMin, OverrideMax, DisarmTicks} \subseteq Nat
    /\ Timeouts \subseteq Nat /\ HalfRange \in Nat \ {0}
    /\ 0 < OverrideMin /\ OverrideMin <= OverrideMax
    /\ \A table \in Tables : table \in Seq([mode : Modes, logic : {"OR", "AND"},
                                            linkedTo : Modes \cup {Nothing}, aux : Aux])

VARIABLES
    macs,               \* the table, fixed at boot
    raised, throttle,   \* the aux channels in range and the throttle, as last sampled
    rcModes,            \* rcModeActivationMask
    forced,             \* modeOverrideMask
    overrideLeft,       \* modeOverrideExpiryMs - now, 0 when none is set
    armed, wasArmedWithPrearm, armSwitchDisabled, rcDisarmTicks,
    inFlight, governorUsed,             \* statics of processRxModes()
    rearmEligible, rearmLeft, armedTime,
    \* history
    released,           \* prearm has been seen off since the last arming
    forcedFor,          \* time since modes were last forced
    landedFor           \* time since a disarm in flight, Never otherwise

armVars     == <<armed, wasArmedWithPrearm, armSwitchDisabled, rcDisarmTicks>>
flightVars  == <<inFlight, governorUsed>>
rearmVars   == <<rearmEligible, rearmLeft, armedTime>>
forceVars   == <<forced, overrideLeft>>
inputVars   == <<raised, throttle>>
history     == <<released, forcedFor, landedFor>>
vars == <<macs, inputVars, rcModes, forceVars, armVars, flightVars, rearmVars, history>>

Never == GraceSeconds

-----------------------------------------------------------------------------
(* Modes from switches *)

Present(mode) == \E i \in 1..Len(macs) : macs[i].mode = mode

Linked(mac) == mac.linkedTo # Nothing

\* Mutant: an OR condition leaves the AND bit.
WithMac_noClear(masks, mac, active) ==
    IF mac.mode \notin masks.and /\ mac.mode \in masks.new
    THEN masks
    ELSE IF mac.logic = "OR"
         THEN IF active THEN [masks EXCEPT !.new = @ \cup {mac.mode}] ELSE masks
         ELSE [and |-> masks.and \cup {mac.mode},
               new |-> IF active THEN masks.new ELSE masks.new \cup {mac.mode}]

\* One step of the latching of updateMasksForMac().
WithMac(masks, mac, active) ==
    IF mac.mode \notin masks.and /\ mac.mode \in masks.new
    THEN masks
    ELSE IF mac.logic = "OR"
         THEN IF active THEN [and |-> masks.and \ {mac.mode}, new |-> masks.new \cup {mac.mode}]
                        ELSE masks
         ELSE [and |-> masks.and \cup {mac.mode},
               new |-> IF active THEN masks.new ELSE masks.new \cup {mac.mode}]

\* A linked condition follows the mode as the pass has left it so far.
IsActive(masks, mac, up) ==
    IF Linked(mac) THEN (mac.linkedTo \in masks.and) # (mac.linkedTo \in masks.new)
                   ELSE mac.aux \in up

\* The masks after the conditions of the table that are linked, or those that are
\* not, in their order (activeLinkedMacArray, activeMacArray).
Pass(table, linked, up, start) ==
    LET after[i \in 0..Len(table)] ==
          IF i = 0 THEN start
          ELSE IF Linked(table[i]) # linked THEN after[i-1]
          ELSE WithMac(after[i-1], table[i], IsActive(after[i-1], table[i], up))
    IN  after[Len(table)]

\* The modes of the channels that are up.
ActiveModes(up) ==
    LET masks == Pass(macs, TRUE, up, Pass(macs, FALSE, up, [and |-> {}, new |-> {}]))
    IN  (masks.new \ masks.and) \cup (masks.and \ masks.new)

\* Mutant: nobody asks whether the override has expired.
updateActivatedModes_noExpiry(active) ==
    /\ overrideLeft' = IF armed' THEN 0 ELSE overrideLeft
    /\ forced' = IF armed' THEN {} ELSE forced
    /\ rcModes' = active \cup forced'

updateActivatedModes(active) ==
    /\ overrideLeft' = IF armed' THEN 0 ELSE overrideLeft
    /\ forced' = IF armed' THEN {} ELSE forced
    /\ rcModes' = active \cup (IF overrideLeft' > 0 THEN forced' ELSE {})

-----------------------------------------------------------------------------
(* Arming *)

\* Mutant: a prearm switch left on is good for the next arming.
Blocked_prearmHeld ==
    LET grace == rearmLeft > 0
    IN  \/ throttle' # "OFF" /\ ~grace
        \/ Present("GOVERNOR") /\ "GOVERNOR" \in rcModes /\ ~grace
        \/ Present("PREARM") /\ "PREARM" \notin rcModes
        \/ overrideLeft > 0

\* The checks of updateArmingStatus() this module follows; the grace passes
\* over the first two (and over the attitude check, which is like the first).
Blocked ==
    LET grace == rearmLeft > 0
    IN  \/ throttle' # "OFF" /\ ~grace
        \/ Present("GOVERNOR") /\ "GOVERNOR" \in rcModes /\ ~grace
        \/ Present("PREARM") /\ ("PREARM" \notin rcModes \/ wasArmedWithPrearm)
        \/ overrideLeft > 0

\* ARMING_DISABLED_ARM_SWITCH is the only one of them that outlives its cause:
\* once set it stays until the switch is off.  The others are computed anew
\* before every use.
UpdatedFlag ==
    IF armed THEN armSwitchDisabled
    ELSE "ARM" \in rcModes /\ (armSwitchDisabled \/ Blocked)

\* The wiggle or the DShot beacon may put an arming off to a later run.
tryArm ==
    /\ armSwitchDisabled' = UpdatedFlag
    /\ \/ UNCHANGED armed
       \/ ~armed /\ ~armSwitchDisabled' /\ armed' = TRUE

\* The switch off counts only while the main receiver has a signal.
DisarmTick ==
    /\ rcDisarmTicks' = IF armed THEN rcDisarmTicks + 1 ELSE rcDisarmTicks
    /\ armed' = (armed /\ rcDisarmTicks' <= DisarmTicks)

processRcStickPositions ==
    IF "ARM" \in rcModes
    THEN rcDisarmTicks' = 0 /\ tryArm
    ELSE /\ DisarmTick \/ UNCHANGED <<rcDisarmTicks, armed>>
         /\ UNCHANGED armSwitchDisabled

Arms    == ~armed /\ armed'
Disarms == armed /\ ~armed'

\* updateAirborneRearmOnArm() and updateAirborneRearmOnDisarm().
RearmLeft ==
    IF Arms THEN 0
    ELSE IF Disarms THEN (IF rearmEligible THEN GraceSeconds ELSE 0)
    ELSE rearmLeft

\* cmpTimeUs(): the difference of two 32 bit stamps, read as a signed one.
Signed(t) == IF t < HalfRange THEN t ELSE t - 2 * HalfRange

\* Mutant: eligibility is set once, whatever becomes of the flight.
updateAirborneRearmEligibility_once ==
    rearmEligible' = (/\ armed'
                      /\ (rearmEligible \/ (inFlight' /\ Signed(armedTime') >= MinArmed)))

updateAirborneRearmEligibility ==
    rearmEligible' = (armed' /\ inFlight' /\ Signed(armedTime') >= MinArmed)

\* The latch behind INFLIGHT_MODE; `climbed' is the altitude gain.
\* It ends early when a governor switch used in this flight is off with the throttle low.
updateInFlight ==
    LET governor == "GOVERNOR" \in rcModes'
        used     == governorUsed \/ governor
        landed   == inFlight /\ used /\ ~governor /\ throttle' # "HIGH"
    IN  /\ governorUsed' = (armed' /\ used /\ ~landed)
        /\ \E climbed \in BOOLEAN :
              inFlight' = (/\ armed'
                           /\ ~landed
                           /\ (inFlight \/ governor \/ throttle' = "HIGH" \/ climbed))

-----------------------------------------------------------------------------
(* The tasks *)

\* History: what the properties compare the steps with.
Released == released' = ((~Arms /\ released) \/ "PREARM" \notin rcModes')
Landed   == landedFor' = IF Disarms /\ inFlight THEN 0 ELSE IF Disarms THEN Never ELSE landedFor

\* processRxModes(), with the channels just received.
RxTask ==
    /\ throttle' \in Throttle
    /\ processRcStickPositions
    /\ \E up \in SUBSET Aux : raised' = up /\ updateActivatedModes(ActiveModes(up))
    /\ updateInFlight
    /\ armedTime' = IF armed /\ armed' THEN armedTime ELSE 0
    /\ rearmLeft' = RearmLeft
    /\ updateAirborneRearmEligibility
    /\ wasArmedWithPrearm' = (/\ (wasArmedWithPrearm \/ (Arms /\ Present("PREARM")))
                              /\ "PREARM" \in rcModes')
    /\ Released /\ Landed
    /\ UNCHANGED <<macs, forcedFor>>

\* updateArmingStatus() in RX_STATE_UPDATE.
updateArmingStatus ==
    /\ UNCHANGED inputVars /\ armSwitchDisabled' = UpdatedFlag
    /\ UNCHANGED <<macs, rcModes, forceVars, armed, wasArmedWithPrearm, rcDisarmTicks,
                   flightVars, rearmVars, history>>

\* disarm() from anywhere else: the failsafe, a GPS rescue or MSP.
disarm ==
    /\ armed
    /\ armed' = FALSE /\ rearmLeft' = RearmLeft /\ rearmEligible' = FALSE /\ armedTime' = 0
    /\ Landed
    /\ UNCHANGED <<macs, inputVars, rcModes, forceVars, wasArmedWithPrearm, armSwitchDisabled,
                   rcDisarmTicks, flightVars, released, forcedFor>>

ForceVarsOnly == UNCHANGED <<macs, inputVars, rcModes, armVars, flightVars, rearmVars,
                             released, landedFor>>

\* Mutant: the timeout is taken as it comes.
Clamped_asAsked(timeout) == timeout

Clamped(timeout) ==
    IF timeout < OverrideMin THEN OverrideMin
    ELSE IF timeout > OverrideMax THEN OverrideMax ELSE timeout

\* MSP2_WING_SET_MODE_OVERRIDE; anything else it is sent is refused.
setModeOverride(mask, timeout) ==
    /\ timeout # 0 /\ ~armed /\ mask \subseteq Overridable
    /\ forced' = mask /\ overrideLeft' = Clamped(timeout) /\ forcedFor' = 0
    /\ ForceVarsOnly

clearModeOverride ==
    /\ forced' = {} /\ overrideLeft' = 0
    /\ ForceVarsOnly /\ UNCHANGED forcedFor

mspSetModeOverride == \E mask \in SUBSET Modes, timeout \in Timeouts :
    IF timeout = 0 THEN clearModeOverride ELSE setModeOverride(mask, timeout)

Left(t)        == IF t > 0 THEN t - 1 ELSE 0
Later(t, last) == IF t < last THEN t + 1 ELSE last

Tick ==
    /\ overrideLeft' = Left(overrideLeft) /\ rearmLeft' = Left(rearmLeft)
    /\ armedTime' = IF armed THEN (armedTime + 1) % (2 * HalfRange) ELSE armedTime
    /\ forcedFor' = Later(forcedFor, OverrideMax) /\ landedFor' = Later(landedFor, Never)
    /\ UNCHANGED <<macs, inputVars, rcModes, forced, armVars, flightVars, rearmEligible, released>>

Init ==
    /\ macs \in Tables
    /\ raised = {} /\ throttle = "OFF"
    /\ rcModes = {} /\ forced = {} /\ overrideLeft = 0
    /\ armed = FALSE /\ wasArmedWithPrearm = FALSE /\ armSwitchDisabled = FALSE /\ rcDisarmTicks = 0
    /\ inFlight = FALSE /\ governorUsed = FALSE
    /\ rearmEligible = FALSE /\ rearmLeft = 0 /\ armedTime = 0
    /\ released = TRUE /\ forcedFor = OverrideMax /\ landedFor = Never

Next == RxTask \/ updateArmingStatus \/ disarm \/ mspSetModeOverride \/ Tick

Spec == Init /\ [][Next]_vars

-----------------------------------------------------------------------------
(* Properties *)

\* The types; an eligible flight is an armed one, and the window is never
\* longer than the setting.
TypeOK ==
    /\ macs \in Tables /\ raised \subseteq Aux /\ throttle \in Throttle
    /\ rcModes \subseteq Modes /\ forced \subseteq Overridable
    /\ overrideLeft \in 0..OverrideMax
    /\ armed \in BOOLEAN /\ wasArmedWithPrearm \in BOOLEAN
    /\ armSwitchDisabled \in BOOLEAN
    /\ rcDisarmTicks \in 0..DisarmTicks + 1
    /\ inFlight \in BOOLEAN /\ governorUsed \in BOOLEAN
    /\ rearmEligible \in BOOLEAN /\ (rearmEligible => armed)
    /\ rearmLeft \in 0..GraceSeconds /\ armedTime \in 0..2 * HalfRange - 1
    /\ released \in BOOLEAN /\ forcedFor \in 0..OverrideMax /\ landedFor \in 0..Never

\* What the conditions of a mode ask for: one OR condition, or all of its AND
\* conditions; a linked condition follows the mode it is linked to.
AskedBy(Holds(_), conditions) ==
    \/ \E mac \in conditions : mac.logic = "OR" /\ Holds(mac)
    \/ /\ \E mac \in conditions : mac.logic = "AND"
       /\ \A mac \in conditions : mac.logic = "AND" => Holds(mac)

MacsOf(mode) == {macs[i] : i \in {j \in 1..Len(macs) : macs[j].mode = mode}}

Raised(mac)    == mac.aux \in raised
Switched(mode) == AskedBy(Raised, {mac \in MacsOf(mode) : ~Linked(mac)})
Met(mac)       == IF Linked(mac) THEN Switched(mac.linkedTo) ELSE Raised(mac)

\* No link of the mode is to a mode that is linked itself (validateAndFixConfig()
\* removes most such links at boot).
Plain(mode) == \A mac \in MacsOf(mode) : \A other \in MacsOf(mac.linkedTo) : ~Linked(other)

\* The latching passes over the table (updateMasksForMac) end with the modes
\* its conditions ask for, in whatever order they are listed; only the modes
\* that may be forced can be on beside them, and not while armed.
ModesMatch ==
    \A mode \in Modes : Plain(mode) =>
        /\ AskedBy(Met, MacsOf(mode)) => mode \in rcModes
        /\ mode \in rcModes => AskedBy(Met, MacsOf(mode)) \/ (~armed /\ mode \in Overridable)

\* Forced modes lapse: the channels that come in after the longest timeout, or
\* once armed, leave no mode on that the switches do not ask for, whatever
\* became of the client (OVERRIDE_EXPIRY_MS, updateActivatedModes).
ForcedModesLapse ==
    [][raised' # raised /\ (forcedFor >= OverrideMax \/ armed')
        => rcModes' = ActiveModes(raised')]_vars

\* Arming with the throttle up or the governor switch on happens only in the
\* grace after a disarm that interrupted a flight, not on the ground after one
\* that was over (updateAirborneRearmEligibility).
GroundRearmIsChecked ==
    [][Arms /\ landedFor >= GraceSeconds
        => throttle' = "OFF"
             /\ ~(Present("GOVERNOR") /\ "GOVERNOR" \in rcModes)]_vars

\* With a prearm switch every arming needs it on, and off since the last one
\* (WAS_ARMED_WITH_PREARM).
PrearmCycles ==
    [][Arms /\ Present("PREARM") => "PREARM" \in rcModes /\ released]_vars
=============================================================================
