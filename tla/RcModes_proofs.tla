--------------------------- MODULE RcModes_proofs ---------------------------
(***************************************************************************)
(* The properties of RcModes, for every value of the constants.  The three *)
(* action properties are about a window of time the code keeps as a        *)
(* counter: the invariant relates the counter to the history it stands     *)
(* for.  ModesMatch is about the two passes over the table of conditions:  *)
(* what the bits of a mode say is shown by induction over the table.       *)
(***************************************************************************)
EXTENDS RcModes, WellFoundedInduction, TLAPS

\* What the arithmetic of the steps needs to know of the variables' types.
Typing ==
    /\ armed \in BOOLEAN /\ rearmEligible \in BOOLEAN /\ inFlight \in BOOLEAN
    /\ released \in BOOLEAN /\ wasArmedWithPrearm \in BOOLEAN
    /\ overrideLeft \in 0..OverrideMax /\ rearmLeft \in 0..GraceSeconds
    /\ forcedFor \in 0..OverrideMax /\ landedFor \in 0..Never

\* Only a flight in the air is eligible for a grace.
EligibleInFlight == rearmEligible => inFlight /\ armed

\* The grace that is left began with the disarm of such a flight.
GraceSinceFlight == rearmLeft > 0 => landedFor + rearmLeft = GraceSeconds

\* What is left of an override ends before the longest timeout has passed.
OverrideBounded == overrideLeft > 0 => forcedFor + overrideLeft <= OverrideMax

\* The flag stands for the prearm switch until it has been seen off.
PrearmHeld == Present("PREARM") => released \/ wasArmedWithPrearm

IInv == Typing /\ EligibleInFlight /\ GraceSinceFlight /\ OverrideBounded /\ PrearmHeld

-----------------------------------------------------------------------------
\* Whatever a client asks for, the timeout it gets is within the bounds.
LEMMA ClampedInRange ==
    ASSUME NEW timeout \in Timeouts
    PROVE  Clamped(timeout) \in 1..OverrideMax
  BY RcModesAssumption DEF RcModesAssumption, Clamped

\* The invariant of the windows at boot.
LEMMA InitIInv == Init => IInv
<1> SUFFICES ASSUME Init PROVE IInv
  OBVIOUS
<1>1. Typing
  <2>1. OverrideMax \in Nat /\ GraceSeconds \in Nat
    BY RcModesAssumption DEF RcModesAssumption
  <2>2. /\ armed = FALSE /\ rearmEligible = FALSE /\ inFlight = FALSE
        /\ released = TRUE /\ wasArmedWithPrearm = FALSE
        /\ overrideLeft = 0 /\ rearmLeft = 0 /\ forcedFor = OverrideMax /\ landedFor = Never
    BY DEF Init
  <2>3. /\ armed \in BOOLEAN /\ rearmEligible \in BOOLEAN /\ inFlight \in BOOLEAN
        /\ released \in BOOLEAN /\ wasArmedWithPrearm \in BOOLEAN
    BY <2>2, Zenon
  <2>4. /\ overrideLeft \in 0..OverrideMax /\ rearmLeft \in 0..GraceSeconds
        /\ forcedFor \in 0..OverrideMax /\ landedFor \in 0..Never
    BY <2>1, <2>2 DEF Never
  <2> QED
    BY <2>3, <2>4 DEF Typing
<1>2. EligibleInFlight /\ GraceSinceFlight /\ OverrideBounded /\ PrearmHeld
  BY DEF Init, EligibleInFlight, GraceSinceFlight, OverrideBounded, PrearmHeld
<1> QED
  BY <1>1, <1>2 DEF IInv

-----------------------------------------------------------------------------
\* The run of the RX task, the step that arms, disarms and applies the modes.
LEMMA RxTaskIInv == IInv /\ RxTask => IInv'
<1> SUFFICES ASSUME IInv, RxTask PROVE IInv'
  OBVIOUS
<1> USE RcModesAssumption DEF IInv, RcModesAssumption
<1>1. armed' \in BOOLEAN
  BY DEF RxTask, processRcStickPositions, tryArm, DisarmTick, Typing
<1>2. inFlight' \in BOOLEAN /\ (inFlight' => armed')
  <2>1. updateInFlight
    BY DEF RxTask
  <2> QED
    BY <1>1, <2>1 DEF updateInFlight
<1>3. /\ overrideLeft' = IF armed' THEN 0 ELSE overrideLeft
      /\ forcedFor' = forcedFor
  BY DEF RxTask, updateActivatedModes
<1>4. /\ rearmLeft' = RearmLeft
      /\ landedFor' = IF Disarms /\ inFlight THEN 0 ELSE IF Disarms THEN Never ELSE landedFor
  BY DEF RxTask, Landed
<1>5. rearmEligible' = (armed' /\ inFlight' /\ Signed(armedTime') >= MinArmed)
  BY DEF RxTask, updateAirborneRearmEligibility
<1>6. /\ released' = ((~Arms /\ released) \/ "PREARM" \notin rcModes')
      /\ wasArmedWithPrearm' = (/\ (wasArmedWithPrearm \/ (Arms /\ Present("PREARM")))
                                /\ "PREARM" \in rcModes')
      /\ macs' = macs
  BY DEF RxTask, Released
<1>7. Typing'
  BY <1>1, <1>2, <1>3, <1>4, <1>5, <1>6 DEF Typing, RearmLeft, Never
<1>8. EligibleInFlight'
  BY <1>5 DEF EligibleInFlight
<1>9. GraceSinceFlight'
  BY <1>1, <1>4 DEF GraceSinceFlight, RearmLeft, Arms, Disarms, EligibleInFlight, Typing, Never
<1>10. OverrideBounded'
  BY <1>1, <1>3 DEF OverrideBounded
<1>11. PrearmHeld'
  BY <1>1, <1>6 DEF PrearmHeld, Present, Typing
<1> QED
  BY <1>7, <1>8, <1>9, <1>10, <1>11

\* A disarm in flight begins the grace.
LEMMA disarmIInv == IInv /\ disarm => IInv'
<1> SUFFICES ASSUME IInv, disarm PROVE IInv'
  OBVIOUS
<1> USE RcModesAssumption DEF IInv, RcModesAssumption
<1>1. /\ armed /\ ~armed' /\ armed' \in BOOLEAN /\ ~rearmEligible' /\ rearmEligible' \in BOOLEAN
      /\ rearmLeft' = IF rearmEligible THEN GraceSeconds ELSE 0
      /\ landedFor' = IF inFlight THEN 0 ELSE Never
  BY DEF disarm, RearmLeft, Landed, Arms, Disarms
<1>2. /\ UNCHANGED <<macs, overrideLeft, inFlight, released, wasArmedWithPrearm, forcedFor>>
  BY DEF disarm, forceVars, flightVars
<1>3. Typing'
  BY <1>1, <1>2 DEF Typing, Never
<1>4. EligibleInFlight' /\ GraceSinceFlight'
  BY <1>1, <1>2 DEF EligibleInFlight, GraceSinceFlight, Typing
<1>5. OverrideBounded' /\ PrearmHeld'
  BY <1>2 DEF OverrideBounded, PrearmHeld, Present
<1> QED
  BY <1>3, <1>4, <1>5

\* A client forces modes, or clears them.
LEMMA mspSetModeOverrideIInv == IInv /\ mspSetModeOverride => IInv'
<1> SUFFICES ASSUME IInv, NEW mask \in SUBSET Modes, NEW timeout \in Timeouts,
                    IF timeout = 0 THEN clearModeOverride ELSE setModeOverride(mask, timeout)
             PROVE  IInv'
  BY DEF mspSetModeOverride
<1> USE RcModesAssumption DEF IInv, RcModesAssumption
<1>1. /\ UNCHANGED <<macs, armed, wasArmedWithPrearm, inFlight, rearmEligible, rearmLeft,
                     released, landedFor>>
  BY DEF clearModeOverride, setModeOverride, ForceVarsOnly, armVars, flightVars, rearmVars
<1>2. \/ overrideLeft' = 0 /\ forcedFor' = forcedFor
      \/ overrideLeft' = Clamped(timeout) /\ forcedFor' = 0
  BY DEF clearModeOverride, setModeOverride
<1>3. overrideLeft' \in 0..OverrideMax /\ forcedFor' \in 0..OverrideMax /\ OverrideBounded'
  BY <1>2, ClampedInRange DEF OverrideBounded, Typing
<1>4. Typing'
  BY <1>1, <1>3 DEF Typing, Never
<1>5. EligibleInFlight' /\ GraceSinceFlight' /\ PrearmHeld'
  BY <1>1 DEF EligibleInFlight, GraceSinceFlight, PrearmHeld, Present
<1> QED
  BY <1>3, <1>4, <1>5

\* The windows get shorter as the histories get longer.
LEMMA TickIInv == IInv /\ Tick => IInv'
<1> SUFFICES ASSUME IInv, Tick PROVE IInv'
  OBVIOUS
<1> USE RcModesAssumption DEF IInv, RcModesAssumption
<1>1. UNCHANGED <<macs, armed, wasArmedWithPrearm, inFlight, rearmEligible, released>>
  BY DEF Tick, armVars, flightVars
<1>2. /\ overrideLeft' = Left(overrideLeft) /\ rearmLeft' = Left(rearmLeft)
      /\ forcedFor' = Later(forcedFor, OverrideMax) /\ landedFor' = Later(landedFor, Never)
  BY DEF Tick
<1>3. Typing'
  BY <1>1, <1>2 DEF Typing, Never, Left, Later
<1>4. GraceSinceFlight'
  BY <1>2 DEF GraceSinceFlight, Typing, Never, Left, Later
<1>5. OverrideBounded'
  BY <1>2 DEF OverrideBounded, Typing, Left, Later
<1>6. EligibleInFlight' /\ PrearmHeld'
  BY <1>1 DEF EligibleInFlight, PrearmHeld, Present
<1> QED
  BY <1>3, <1>4, <1>5, <1>6

\* One case for each action.
LEMMA NextIInv == IInv /\ [Next]_vars => IInv'
<1> SUFFICES ASSUME IInv, [Next]_vars PROVE IInv'
  OBVIOUS
<1>1. CASE updateArmingStatus
  BY <1>1 DEF updateArmingStatus, forceVars, flightVars, rearmVars, history, IInv, Typing,
              EligibleInFlight, GraceSinceFlight, OverrideBounded, PrearmHeld, Present, Never
<1>2. CASE UNCHANGED vars
  BY <1>2 DEF vars, armVars, forceVars, flightVars, rearmVars, history, IInv, Typing,
              EligibleInFlight, GraceSinceFlight, OverrideBounded, PrearmHeld, Present, Never
<1> QED
  BY <1>1, <1>2, RxTaskIInv, disarmIInv, mspSetModeOverrideIInv, TickIInv DEF Next

\* The counters of the re-arm grace, of the override and of the prearm switch
\* agree with what has happened.
THEOREM IInvHolds == Spec => []IInv
  BY InitIInv, NextIInv, PTL DEF Spec

-----------------------------------------------------------------------------
\* Only a run of the RX task arms, and only with the arming checks passed.
LEMMA ArmsChecked ==
    ASSUME [Next]_vars, Arms
    PROVE  RxTask /\ "ARM" \in rcModes /\ ~Blocked
<1>1. RxTask
  BY DEF Next, vars, Arms, armVars, updateArmingStatus, disarm, mspSetModeOverride,
         clearModeOverride, setModeOverride, ForceVarsOnly, Tick
<1>2. "ARM" \in rcModes
  BY <1>1 DEF RxTask, processRcStickPositions, DisarmTick, Arms
<1>3. ~armSwitchDisabled' /\ armSwitchDisabled' = UpdatedFlag
  BY <1>1, <1>2 DEF RxTask, processRcStickPositions, tryArm, Arms
<1> QED
  BY <1>1, <1>2, <1>3 DEF UpdatedFlag, Arms

\* Arming past the throttle and governor checks happens only in the grace
\* after a disarm in flight (airborneRearmGraceActive).
THEOREM GroundRearmTheorem == Spec => GroundRearmIsChecked
<1>1. ASSUME IInv, [Next]_vars, Arms, landedFor >= GraceSeconds
      PROVE  throttle' = "OFF" /\ ~(Present("GOVERNOR") /\ "GOVERNOR" \in rcModes)
  <2>1. ~(rearmLeft > 0)
    BY <1>1, RcModesAssumption DEF IInv, GraceSinceFlight, Typing, RcModesAssumption, Never
  <2> QED
    BY <1>1, <2>1, ArmsChecked DEF Blocked
<1> QED
  BY <1>1, IInvHolds, PTL DEF Spec, GroundRearmIsChecked

\* With a prearm switch, every arming has it on and has seen it off before
\* (WAS_ARMED_WITH_PREARM).
THEOREM PrearmTheorem == Spec => PrearmCycles
<1>1. ASSUME IInv, [Next]_vars, Arms, Present("PREARM")
      PROVE  "PREARM" \in rcModes /\ released
  BY <1>1, ArmsChecked DEF Blocked, IInv, PrearmHeld
<1> QED
  BY <1>1, IInvHolds, PTL DEF Spec, PrearmCycles

\* A forced mode is gone from the modes once the longest timeout has passed,
\* and once armed (updateActivatedModes, OVERRIDE_EXPIRY_MS).
THEOREM ForcedModesTheorem == Spec => ForcedModesLapse
<1>1. ASSUME IInv, [Next]_vars, raised' # raised, forcedFor >= OverrideMax \/ armed'
      PROVE  rcModes' = ActiveModes(raised')
  <2>1. RxTask
    BY <1>1 DEF Next, vars, inputVars, updateArmingStatus, disarm, mspSetModeOverride,
                clearModeOverride, setModeOverride, ForceVarsOnly, Tick
  <2>2. updateActivatedModes(ActiveModes(raised'))
    BY <2>1 DEF RxTask
  <2>3. ~(overrideLeft' > 0)
    BY <1>1, <2>2, RcModesAssumption
    DEF updateActivatedModes, IInv, OverrideBounded, Typing, RcModesAssumption
  <2> QED
    BY <2>2, <2>3 DEF updateActivatedModes
<1> QED
  BY <1>1, IInvHolds, PTL DEF Spec, ForcedModesLapse

-----------------------------------------------------------------------------
(* The passes over the table.  A set that holds zero and is closed under the *)
(* successor is all of Nat: induction in a form that needs no operator.      *)

\* A set that holds 0, and with a number the next one, holds every number.
LEMMA Induction ==
    ASSUME NEW S, 0 \in S, \A n \in Nat : n \in S => n + 1 \in S
    PROVE  \A n \in Nat : n \in S
<1> DEFINE T == Nat \ S
<1> SUFFICES ASSUME T # {} PROVE FALSE
  OBVIOUS
<1>1. \E x \in T : \A y \in T : ~(<<y, x>> \in OpToRel(<, Nat))
  <2>1. T \subseteq Nat
    OBVIOUS
  <2> HIDE DEF T
  <2> QED BY <2>1, NatLessThanWellFounded, WFMin
<1>2. PICK x \in T : \A y \in T : ~(<<y, x>> \in OpToRel(<, Nat))
  BY <1>1
<1>3. x \in Nat /\ x # 0 /\ x - 1 \in Nat
  OBVIOUS
<1>4. x - 1 \in T
  BY <1>3
<1>5. <<x - 1, x>> \in OpToRel(<, Nat)
  BY <1>3 DEF OpToRel
<1> QED BY <1>2, <1>4, <1>5

Mac   == [mode : Modes, logic : {"OR", "AND"}, linkedTo : Modes \cup {Nothing}, aux : Aux]
Masks == [and : SUBSET Modes, new : SUBSET Modes]

\* The pass that a step function makes from masks to masks, up to the n-th condition.
Runs(step, start, f, n) ==
    /\ f \in [0..n -> Masks] /\ f[0] = start
    /\ \A i \in 1..n : f[i] = step[<<i, f[i-1]>>]

\* A pass as long as the table has masks after every one of its conditions.
LEMMA RunExists ==
    ASSUME NEW L \in Nat, NEW step \in [(1..L) \X Masks -> Masks], NEW start \in Masks
    PROVE  \E f : Runs(step, start, f, L)
<1> DEFINE S == {n \in Nat : n <= L => \E f : Runs(step, start, f, n)}
<1>1. 0 \in S
  <2> DEFINE f == [i \in 0..0 |-> start]
  <2>1. f \in [0..0 -> Masks] /\ f[0] = start
    OBVIOUS
  <2>2. \A i \in 1..0 : FALSE
    OBVIOUS
  <2> HIDE DEF f
  <2>3. Runs(step, start, f, 0)
    BY <2>1, <2>2 DEF Runs
  <2> QED BY <2>3
<1>2. ASSUME NEW n \in Nat, n \in S PROVE n + 1 \in S
  <2> SUFFICES ASSUME n + 1 <= L PROVE \E f : Runs(step, start, f, n + 1)
    OBVIOUS
  <2>1. PICK f : Runs(step, start, f, n)
    BY <1>2
  <2> DEFINE g == [i \in 0..n + 1 |-> IF i <= n THEN f[i] ELSE step[<<n + 1, f[n]>>]]
  <2>2. f[n] \in Masks /\ step[<<n + 1, f[n]>>] \in Masks
    BY <2>1 DEF Runs
  <2>3. \A i \in 0..n + 1 : g[i] \in Masks
    BY <2>1, <2>2 DEF Runs
  <2>4. g \in [0..n + 1 -> Masks]
    BY <2>3
  <2>5. \A i \in 0..n : g[i] = f[i]
    OBVIOUS
  <2>6. g[n + 1] = step[<<n + 1, g[n]>>]
    <3>1. n + 1 \in 0..n + 1 /\ ~(n + 1 <= n) /\ n \in 0..n
      OBVIOUS
    <3>2. g[n + 1] = step[<<n + 1, f[n]>>]
      BY <3>1
    <3> HIDE DEF g
    <3> QED BY <2>5, <3>1, <3>2
  <2>7. \A i \in 1..n + 1 : g[i] = step[<<i, g[i-1]>>]
    <3> TAKE i \in 1..n + 1
    <3>1. CASE i = n + 1
      BY <2>6, <3>1
    <3>2. CASE i # n + 1
      <4>1. i \in 1..n /\ i \in 0..n /\ i - 1 \in 0..n
        BY <3>2
      <4> HIDE DEF g
      <4> QED BY <2>1, <2>5, <4>1 DEF Runs
    <3> QED BY <3>1, <3>2
  <2>8. g[0] = start
    BY <2>1, <2>5 DEF Runs
  <2> HIDE DEF g
  <2> QED BY <2>4, <2>7, <2>8 DEF Runs
<1> HIDE DEF S
<1>3. L \in S
  BY <1>1, <1>2, Induction
<1> QED BY <1>3 DEF S

\* The condition i of the table in a pass.
Step(linked, up) ==
    [p \in (1..Len(macs)) \X Masks |->
        IF Linked(macs[p[1]]) # linked THEN p[2]
        ELSE WithMac(p[2], macs[p[1]], IsActive(p[2], macs[p[1]], up))]

\* The masks hold modes.
LEMMA WithMacTyped ==
    ASSUME NEW masks \in Masks, NEW mac \in Mac, NEW active \in BOOLEAN
    PROVE  WithMac(masks, mac, active) \in Masks
BY DEF WithMac, Masks, Mac

\* A condition is active or not.
LEMMA ActiveBoolean ==
    ASSUME NEW masks, NEW mac, NEW up
    PROVE  IsActive(masks, mac, up) \in BOOLEAN
<1>1. CASE Linked(mac)
  <2>1. IsActive(masks, mac, up) = ((mac.linkedTo \in masks.and) # (mac.linkedTo \in masks.new))
    BY <1>1 DEF IsActive
  <2> QED BY <2>1
<1>2. CASE ~Linked(mac)
  <2>1. IsActive(masks, mac, up) = (mac.aux \in up)
    BY <1>2 DEF IsActive
  <2> QED BY <2>1
<1> QED BY <1>1, <1>2

\* A condition makes masks from masks.
LEMMA StepTyped ==
    ASSUME macs \in Seq(Mac), NEW linked \in BOOLEAN, NEW up
    PROVE  Step(linked, up) \in [(1..Len(macs)) \X Masks -> Masks]
<1>1. ASSUME NEW p \in (1..Len(macs)) \X Masks
      PROVE  Step(linked, up)[p] \in Masks
  <2>1. p[1] \in 1..Len(macs) /\ p[2] \in Masks
    BY <1>1
  <2>2. macs[p[1]] \in Mac
    BY <2>1
  <2>3. IsActive(p[2], macs[p[1]], up) \in BOOLEAN
    BY ActiveBoolean
  <2>4. WithMac(p[2], macs[p[1]], IsActive(p[2], macs[p[1]], up)) \in Masks
    BY <2>1, <2>2, <2>3, WithMacTyped
  <2> QED BY <2>1, <2>4 DEF Step
<1> QED BY <1>1 DEF Step

\* The recursive function of Pass() is such a run.
LEMMA PassRuns ==
    ASSUME macs \in Seq(Mac), NEW linked \in BOOLEAN, NEW up, NEW start \in Masks
    PROVE  \E f : /\ Runs(Step(linked, up), start, f, Len(macs))
                  /\ Pass(macs, linked, up, start) = f[Len(macs)]
<1> DEFINE Eq(f) == f = [i \in 0..Len(macs) |->
                           IF i = 0 THEN start
                           ELSE IF Linked(macs[i]) # linked THEN f[i-1]
                           ELSE WithMac(f[i-1], macs[i], IsActive(f[i-1], macs[i], up))]
<1>1. PICK g : Runs(Step(linked, up), start, g, Len(macs))
  <2>1. Len(macs) \in Nat
    OBVIOUS
  <2> QED BY <2>1, StepTyped, RunExists
<1>2. \A i \in 1..Len(macs) : i - 1 \in 0..Len(macs)
  OBVIOUS
<1>3. \A f : (f \in [0..Len(macs) -> Masks] /\ f[0] = start
              /\ \A i \in 1..Len(macs) :
                    f[i] = IF Linked(macs[i]) # linked THEN f[i-1]
                           ELSE WithMac(f[i-1], macs[i], IsActive(f[i-1], macs[i], up)))
             => Eq(f)
  OBVIOUS
<1>4. Eq(g)
  <2>1. \A i \in 1..Len(macs) : <<i, g[i-1]>> \in (1..Len(macs)) \X Masks
    BY <1>1, <1>2 DEF Runs
  <2>2. \A i \in 1..Len(macs) :
           g[i] = IF Linked(macs[i]) # linked THEN g[i-1]
                  ELSE WithMac(g[i-1], macs[i], IsActive(g[i-1], macs[i], up))
    BY <1>1, <2>1 DEF Runs, Step
  <2> QED BY <1>1, <1>3, <2>2 DEF Runs
<1> DEFINE h == CHOOSE f : Eq(f)
<1>5. Pass(macs, linked, up, start) = h[Len(macs)]
  BY DEF Pass
<1>6. Eq(h)
  BY <1>4
<1> HIDE DEF h
<1>7. /\ h[0] = start
      /\ \A i \in 1..Len(macs) :
            h[i] = IF Linked(macs[i]) # linked THEN h[i-1]
                   ELSE WithMac(h[i-1], macs[i], IsActive(h[i-1], macs[i], up))
  BY <1>6
<1>8. \A i \in 0..Len(macs) : h[i] \in Masks
  <2> DEFINE S == {n \in Nat : n <= Len(macs) => h[n] \in Masks}
  <2>1. 0 \in S
    BY <1>7
  <2>2. ASSUME NEW n \in Nat, n \in S PROVE n + 1 \in S
    <3> SUFFICES ASSUME n + 1 <= Len(macs) PROVE h[n + 1] \in Masks
      OBVIOUS
    <3>1. h[n] \in Masks /\ n + 1 \in 1..Len(macs) /\ macs[n + 1] \in Mac
      BY <2>2
    <3>2. IsActive(h[n], macs[n + 1], up) \in BOOLEAN
      BY ActiveBoolean
    <3>3. WithMac(h[n], macs[n + 1], IsActive(h[n], macs[n + 1], up)) \in Masks
      BY <3>1, <3>2, WithMacTyped
    <3>4. (n + 1) - 1 = n
      OBVIOUS
    <3> QED BY <1>7, <3>1, <3>3, <3>4
  <2> HIDE DEF S
  <2>3. \A n \in Nat : n \in S
    BY <2>1, <2>2, Induction
  <2> QED BY <2>3 DEF S
<1>9. h \in [0..Len(macs) -> Masks]
  BY <1>6, <1>8
<1>10. Runs(Step(linked, up), start, h, Len(macs))
  <2>1. \A i \in 1..Len(macs) : <<i, h[i-1]>> \in (1..Len(macs)) \X Masks
    BY <1>2, <1>8
  <2>2. \A i \in 1..Len(macs) : h[i] = Step(linked, up)[<<i, h[i-1]>>]
    BY <1>7, <2>1 DEF Step
  <2> QED BY <1>7, <1>9, <2>2 DEF Runs
<1> QED BY <1>5, <1>10

-----------------------------------------------------------------------------
(* What the latched bits of a mode say of the conditions seen so far, of     *)
(* which those in H hold.                                                    *)

OneOr(S, H)  == \E mac \in S : mac.logic = "OR" /\ mac \in H
SomeAnd(S)   == \E mac \in S : mac.logic = "AND"
EveryAnd(S, H) == \A mac \in S : mac.logic = "AND" => mac \in H

Shows(masks, mode, S, H) ==
    /\ mode \in masks.new /\ mode \notin masks.and <=> OneOr(S, H)
    /\ mode \in masks.and /\ mode \notin masks.new <=> ~OneOr(S, H) /\ SomeAnd(S) /\ EveryAnd(S, H)
    /\ mode \in masks.and /\ mode \in masks.new <=> ~OneOr(S, H) /\ SomeAnd(S) /\ ~EveryAnd(S, H)

\* A condition of the mode is latched as updateMasksForMac() says.
LEMMA LatchShows ==
    ASSUME NEW masks \in Masks, NEW mac \in Mac, NEW mode \in Modes, mac.mode = mode,
           NEW S, NEW H, NEW active \in BOOLEAN, active = (mac \in H), Shows(masks, mode, S, H)
    PROVE  Shows(WithMac(masks, mac, active), mode, S \cup {mac}, H)
<1> DEFINE after == WithMac(masks, mac, active)
<1>1. mac.logic \in {"OR", "AND"} /\ "OR" # "AND"
  BY DEF Mac
<1>2. /\ OneOr(S \cup {mac}, H) <=> OneOr(S, H) \/ (mac.logic = "OR" /\ active)
      /\ SomeAnd(S \cup {mac}) <=> SomeAnd(S) \/ mac.logic = "AND"
      /\ EveryAnd(S \cup {mac}, H) <=> EveryAnd(S, H) /\ (mac.logic = "AND" => active)
  BY DEF OneOr, SomeAnd, EveryAnd
<1>3. SomeAnd(S) \/ EveryAnd(S, H)
  BY DEF SomeAnd, EveryAnd
<1>4. masks = [and |-> masks.and, new |-> masks.new]
  BY DEF Masks
<1>5. CASE mode \notin masks.and /\ mode \in masks.new
  <2>1. after = masks /\ OneOr(S, H)
    BY <1>5 DEF WithMac, Shows
  <2> QED BY <1>2, <1>5, <2>1 DEF Shows
<1>6. CASE ~(mode \notin masks.and /\ mode \in masks.new) /\ mac.logic = "OR" /\ active
  <2>1. mode \notin after.and /\ mode \in after.new
    BY <1>4, <1>6 DEF WithMac
  <2> QED BY <1>1, <1>2, <1>6, <2>1 DEF Shows
<1>7. CASE ~(mode \notin masks.and /\ mode \in masks.new) /\ mac.logic = "OR" /\ ~active
  <2>1. after = masks
    BY <1>1, <1>7 DEF WithMac
  <2> QED BY <1>1, <1>2, <1>7, <2>1 DEF Shows
<1>8. CASE ~(mode \notin masks.and /\ mode \in masks.new) /\ mac.logic = "AND"
  <2>1. mode \in after.and /\ (mode \in after.new <=> mode \in masks.new \/ ~active)
    BY <1>1, <1>8 DEF WithMac
  <2>2. ~OneOr(S, H)
    BY <1>8 DEF Shows
  <2> QED BY <1>1, <1>2, <1>3, <1>8, <2>1, <2>2 DEF Shows
<1> QED BY <1>1, <1>5, <1>6, <1>7, <1>8

\* A condition of another mode leaves the bits of this one.
LEMMA OtherModes ==
    ASSUME NEW masks \in Masks, NEW mac \in Mac, NEW mode, mac.mode # mode, NEW active \in BOOLEAN
    PROVE  /\ mode \in WithMac(masks, mac, active).and <=> mode \in masks.and
           /\ mode \in WithMac(masks, mac, active).new <=> mode \in masks.new
<1>1. masks = [and |-> masks.and, new |-> masks.new]
  BY DEF Masks
<1> QED BY <1>1 DEF WithMac

\* The conditions of the mode that a pass has been over, up to the n-th.
Upto(n, mode, linked) ==
    {macs[j] : j \in {k \in 1..n : macs[k].mode = mode /\ Linked(macs[k]) = linked}}

\* One condition more.
LEMMA UptoNext ==
    ASSUME NEW n \in Nat, NEW mode, NEW linked \in BOOLEAN
    PROVE  /\ Upto(0, mode, linked) = {}
           /\ macs[n + 1].mode = mode /\ Linked(macs[n + 1]) = linked
                 => Upto(n + 1, mode, linked) = Upto(n, mode, linked) \cup {macs[n + 1]}
           /\ ~(macs[n + 1].mode = mode /\ Linked(macs[n + 1]) = linked)
                 => Upto(n + 1, mode, linked) = Upto(n, mode, linked)
<1>1. \A k : k \in 1..n + 1 <=> k \in 1..n \/ k = n + 1
  OBVIOUS
<1>2. \A k \in 1..0 : FALSE
  OBVIOUS
<1> QED BY <1>1, <1>2 DEF Upto

\* After a pass the bits of a mode say what all its conditions say.
LEMMA PassShows ==
    ASSUME macs \in Seq(Mac), NEW linked \in BOOLEAN, NEW up, NEW start \in Masks, NEW f,
           Runs(Step(linked, up), start, f, Len(macs)),
           NEW mode \in Modes, NEW S, NEW H, Shows(start, mode, S, H),
           \A i \in 1..Len(macs) :
               macs[i].mode = mode /\ Linked(macs[i]) = linked
                  => IsActive(f[i-1], macs[i], up) = (macs[i] \in H)
    PROVE  Shows(f[Len(macs)], mode, S \cup Upto(Len(macs), mode, linked), H)
<1> DEFINE T == {n \in Nat : n <= Len(macs) => Shows(f[n], mode, S \cup Upto(n, mode, linked), H)}
<1>1. 0 \in T
  <2>1. f[0] = start /\ S \cup Upto(0, mode, linked) = S
    BY UptoNext DEF Runs
  <2> QED BY <2>1
<1>2. ASSUME NEW n \in Nat, n \in T PROVE n + 1 \in T
  <2> SUFFICES ASSUME n + 1 <= Len(macs)
               PROVE  Shows(f[n + 1], mode, S \cup Upto(n + 1, mode, linked), H)
    OBVIOUS
  <2> DEFINE mac == macs[n + 1]
             active == IsActive(f[n], mac, up)
  <2>1. /\ n + 1 \in 1..Len(macs) /\ (n + 1) - 1 = n /\ n \in 0..Len(macs)
        /\ Shows(f[n], mode, S \cup Upto(n, mode, linked), H)
    BY <1>2
  <2>2. mac \in Mac /\ f[n] \in Masks /\ active \in BOOLEAN
    BY <2>1, ActiveBoolean DEF Runs
  <2>3. f[n + 1] = IF Linked(mac) # linked THEN f[n] ELSE WithMac(f[n], mac, active)
    <3>1. f[n + 1] = Step(linked, up)[<<n + 1, f[n]>>]
      BY <2>1 DEF Runs
    <3>2. <<n + 1, f[n]>> \in (1..Len(macs)) \X Masks
      BY <2>1, <2>2
    <3> QED BY <3>1, <3>2 DEF Step
  <2>7. /\ mac.mode = mode /\ Linked(mac) = linked
              => Upto(n + 1, mode, linked) = Upto(n, mode, linked) \cup {mac}
        /\ ~(mac.mode = mode /\ Linked(mac) = linked)
              => Upto(n + 1, mode, linked) = Upto(n, mode, linked)
    BY UptoNext
  <2> HIDE DEF mac, active
  <2>4. CASE Linked(mac) # linked
    BY <2>1, <2>3, <2>4, <2>7
  <2>5. CASE Linked(mac) = linked /\ mac.mode # mode
    <3>1. /\ mode \in f[n + 1].and <=> mode \in f[n].and
          /\ mode \in f[n + 1].new <=> mode \in f[n].new
      BY <2>2, <2>3, <2>5, OtherModes
    <3>2. Upto(n + 1, mode, linked) = Upto(n, mode, linked)
      BY <2>5, <2>7
    <3> QED BY <2>1, <3>1, <3>2 DEF Shows
  <2>6. CASE Linked(mac) = linked /\ mac.mode = mode
    <3>1. active = (mac \in H)
      BY <2>1, <2>6 DEF mac, active
    <3>2. Shows(WithMac(f[n], mac, active), mode, (S \cup Upto(n, mode, linked)) \cup {mac}, H)
      BY <2>1, <2>2, <2>6, <3>1, LatchShows
    <3>3. (S \cup Upto(n, mode, linked)) \cup {mac} = S \cup Upto(n + 1, mode, linked)
      BY <2>6, <2>7
    <3> QED BY <2>3, <2>6, <3>2, <3>3
  <2> QED BY <2>4, <2>5, <2>6
<1>3. \A n \in Nat : n \in T
  <2> HIDE DEF T
  <2> QED BY <1>1, <1>2, Induction
<1>4. Len(macs) \in T
  <2>1. Len(macs) \in Nat
    OBVIOUS
  <2> HIDE DEF T
  <2> QED BY <1>3, <2>1
<1>5. Len(macs) <= Len(macs)
  OBVIOUS
<1> QED BY <1>4, <1>5

\* A mode without a condition in a pass is as it was before it, all along.
LEMMA PassLeaves ==
    ASSUME macs \in Seq(Mac), NEW linked \in BOOLEAN, NEW up, NEW start \in Masks, NEW f,
           Runs(Step(linked, up), start, f, Len(macs)), NEW mode,
           \A i \in 1..Len(macs) : ~(macs[i].mode = mode /\ Linked(macs[i]) = linked)
    PROVE  \A i \in 0..Len(macs) : /\ mode \in f[i].and <=> mode \in start.and
                                   /\ mode \in f[i].new <=> mode \in start.new
<1> DEFINE Same(n) == /\ mode \in f[n].and <=> mode \in start.and
                      /\ mode \in f[n].new <=> mode \in start.new
           T == {n \in Nat : n <= Len(macs) => Same(n)}
<1>1. 0 \in T
  BY DEF Runs
<1>2. ASSUME NEW n \in Nat, n \in T PROVE n + 1 \in T
  <2> SUFFICES ASSUME n + 1 <= Len(macs) PROVE Same(n + 1)
    OBVIOUS
  <2> DEFINE mac == macs[n + 1]
             active == IsActive(f[n], mac, up)
  <2>1. /\ n + 1 \in 1..Len(macs) /\ (n + 1) - 1 = n /\ n \in 0..Len(macs) /\ Same(n)
    BY <1>2
  <2>2. mac \in Mac /\ f[n] \in Masks /\ active \in BOOLEAN
    BY <2>1, ActiveBoolean DEF Runs
  <2>3. f[n + 1] = IF Linked(mac) # linked THEN f[n] ELSE WithMac(f[n], mac, active)
    <3>1. f[n + 1] = Step(linked, up)[<<n + 1, f[n]>>]
      BY <2>1 DEF Runs
    <3>2. <<n + 1, f[n]>> \in (1..Len(macs)) \X Masks
      BY <2>1, <2>2
    <3> QED BY <3>1, <3>2 DEF Step
  <2>4. Linked(mac) # linked \/ mac.mode # mode
    BY <2>1
  <2> HIDE DEF mac, active
  <2>5. CASE Linked(mac) # linked
    BY <2>1, <2>3, <2>5
  <2>6. CASE Linked(mac) = linked
    <3>1. /\ mode \in f[n + 1].and <=> mode \in f[n].and
          /\ mode \in f[n + 1].new <=> mode \in f[n].new
      BY <2>2, <2>3, <2>4, <2>6, OtherModes
    <3> QED BY <2>1, <3>1
  <2> QED BY <2>5, <2>6
<1>3. \A n \in Nat : n \in T
  <2> HIDE DEF T
  <2> QED BY <1>1, <1>2, Induction
<1> QED BY <1>3

-----------------------------------------------------------------------------
(* The modes that the two passes end with. *)

NoMasks == [and |-> {}, new |-> {}]

\* Bits that show the conditions: the exclusive or of the two is what they ask for.
LEMMA ShowsAsked ==
    ASSUME NEW masks, NEW mode, NEW S, NEW H, Shows(masks, mode, S, H)
    PROVE  mode \in (masks.new \ masks.and) \cup (masks.and \ masks.new)
              <=> OneOr(S, H) \/ (SomeAnd(S) /\ EveryAnd(S, H))
BY DEF Shows

\* A table is a sequence of conditions.
LEMMA TableTyped ==
    ASSUME macs \in Tables
    PROVE  macs \in Seq(Mac)
BY RcModesAssumption DEF RcModesAssumption, Mac

\* The passes end with modes there are.
LEMMA ActiveModesTyped ==
    ASSUME macs \in Tables, NEW up
    PROVE  ActiveModes(up) \subseteq Modes
<1>1. macs \in Seq(Mac) /\ NoMasks \in Masks
  BY TableTyped DEF Masks, NoMasks
<1>2. Len(macs) \in 0..Len(macs)
  BY <1>1
<1>3. ASSUME NEW linked \in BOOLEAN, NEW start \in Masks
      PROVE  Pass(macs, linked, up, start) \in Masks
  <2>1. PICK f : /\ Runs(Step(linked, up), start, f, Len(macs))
                 /\ Pass(macs, linked, up, start) = f[Len(macs)]
    BY <1>1, PassRuns
  <2> QED BY <1>2, <2>1 DEF Runs
<1>4. Pass(macs, TRUE, up, Pass(macs, FALSE, up, NoMasks)) \in Masks
  BY <1>1, <1>3
<1> QED BY <1>4 DEF ActiveModes, NoMasks, Masks

\* The conditions that hold, of all there may be.
Holding == {mac \in Mac : Met(mac)}

\* What is asked for, in terms of the conditions that hold.
LEMMA AskedIs ==
    ASSUME NEW S \in SUBSET Mac
    PROVE  AskedBy(Met, S) <=> OneOr(S, Holding) \/ (SomeAnd(S) /\ EveryAnd(S, Holding))
BY DEF AskedBy, OneOr, SomeAnd, EveryAnd, Holding

\* For a plain mode they are the modes its conditions ask for.
LEMMA ActiveIsAsked ==
    ASSUME macs \in Tables, NEW mode \in Modes, Plain(mode)
    PROVE  mode \in ActiveModes(raised) <=> AskedBy(Met, MacsOf(mode))
<1>1. macs \in Seq(Mac) /\ NoMasks \in Masks /\ Len(macs) \in Nat /\ Len(macs) \in 0..Len(macs)
  <2>1. macs \in Seq(Mac)
    BY TableTyped
  <2> QED BY <2>1 DEF Masks, NoMasks
<1>2. PICK f : /\ Runs(Step(FALSE, raised), NoMasks, f, Len(macs))
               /\ Pass(macs, FALSE, raised, NoMasks) = f[Len(macs)]
  BY <1>1, PassRuns
<1> DEFINE middle == f[Len(macs)]
<1>3. middle \in Masks
  BY <1>1, <1>2 DEF Runs
<1>4. PICK g : /\ Runs(Step(TRUE, raised), middle, g, Len(macs))
               /\ Pass(macs, TRUE, raised, middle) = g[Len(macs)]
  BY <1>1, <1>3, PassRuns
<1>5. \A i \in 1..Len(macs) : macs[i] \in Mac /\ Linked(macs[i]) \in BOOLEAN
  BY <1>1 DEF Linked
<1>6. \A i \in 1..Len(macs) : ~Linked(macs[i]) =>
          IsActive(f[i-1], macs[i], raised) = (macs[i] \in Holding)
  <2> TAKE i \in 1..Len(macs)
  <2> HAVE ~Linked(macs[i])
  <2>1. macs[i] \in Holding <=> macs[i].aux \in raised
    BY <1>5 DEF Holding, Met, Raised
  <2>2. IsActive(f[i-1], macs[i], raised) = (macs[i].aux \in raised)
    BY DEF IsActive
  <2> QED BY <2>1, <2>2
<1>7. ASSUME NEW other \in Modes
      PROVE  Shows(middle, other, Upto(Len(macs), other, FALSE), Holding)
  <2>1. Shows(NoMasks, other, {}, Holding)
    BY DEF Shows, NoMasks, OneOr, SomeAnd, EveryAnd
  <2>2. Shows(middle, other, {} \cup Upto(Len(macs), other, FALSE), Holding)
    BY <1>1, <1>2, <1>6, <2>1, PassShows
  <2> QED BY <2>2
<1>8. \A other : Upto(Len(macs), other, FALSE) = {mac \in MacsOf(other) : ~Linked(mac)}
                 /\ Upto(Len(macs), other, FALSE) \cup Upto(Len(macs), other, TRUE) = MacsOf(other)
  BY <1>5 DEF Upto, MacsOf
<1>9. ASSUME NEW i \in 1..Len(macs), macs[i].mode = mode, Linked(macs[i])
      PROVE  IsActive(g[i-1], macs[i], raised) = (macs[i] \in Holding)
  <2> DEFINE other == macs[i].linkedTo
             asks  == Upto(Len(macs), other, FALSE)
  <2>1. other \in Modes /\ macs[i] \in MacsOf(mode)
    BY <1>5, <1>9 DEF Linked, Mac, MacsOf
  <2>2. \A j \in 1..Len(macs) : ~(macs[j].mode = other /\ Linked(macs[j]) = TRUE)
    BY <2>1 DEF Plain, MacsOf
  <2>3. i - 1 \in 0..Len(macs)
    BY <1>1
  <2>4. /\ other \in g[i-1].and <=> other \in middle.and
        /\ other \in g[i-1].new <=> other \in middle.new
    BY <1>1, <1>3, <1>4, <2>2, <2>3, PassLeaves
  <2>5. IsActive(g[i-1], macs[i], raised) <=> other \in (middle.new \ middle.and) \cup (middle.and \ middle.new)
    BY <1>9, <2>4 DEF IsActive
  <2>6. @ <=> OneOr(asks, Holding) \/ (SomeAnd(asks) /\ EveryAnd(asks, Holding))
    BY <1>7, <2>1, ShowsAsked
  <2>7. \A mac \in asks : mac \in Holding <=> Raised(mac)
    BY <1>5, <1>8 DEF Upto, Holding, Met
  <2>8. Switched(other) <=> OneOr(asks, Holding) \/ (SomeAnd(asks) /\ EveryAnd(asks, Holding))
    BY <1>8, <2>7 DEF Switched, AskedBy, OneOr, SomeAnd, EveryAnd
  <2>9. Met(macs[i]) <=> Switched(other)
    BY <1>9 DEF Met
  <2>10. macs[i] \in Holding <=> Switched(other)
    BY <1>5, <2>9 DEF Holding
  <2>11. IsActive(g[i-1], macs[i], raised) <=> macs[i] \in Holding
    BY <2>5, <2>6, <2>8, <2>10
  <2>12. IsActive(g[i-1], macs[i], raised) \in BOOLEAN
    BY ActiveBoolean
  <2> QED BY <2>11, <2>12
<1>10. Shows(g[Len(macs)], mode, MacsOf(mode), Holding)
  <2>1. Shows(middle, mode, Upto(Len(macs), mode, FALSE), Holding)
    BY <1>7
  <2>2. Shows(g[Len(macs)], mode,
              Upto(Len(macs), mode, FALSE) \cup Upto(Len(macs), mode, TRUE), Holding)
    BY <1>1, <1>3, <1>4, <1>9, <2>1, PassShows
  <2> QED BY <1>8, <2>2
<1>11. ActiveModes(raised) = (g[Len(macs)].new \ g[Len(macs)].and) \cup (g[Len(macs)].and \ g[Len(macs)].new)
  BY <1>2, <1>4 DEF ActiveModes, NoMasks
<1>12. MacsOf(mode) \subseteq Mac
  BY <1>5 DEF MacsOf
<1> QED BY <1>10, <1>11, <1>12, ShowsAsked, AskedIs

\* The same, as a fact of any state.
LEMMA ActiveAre ==
    macs \in Tables => \A mode \in Modes :
        Plain(mode) => (mode \in ActiveModes(raised) <=> AskedBy(Met, MacsOf(mode)))
BY ActiveIsAsked

-----------------------------------------------------------------------------
(* The types, and the modes of the switches. *)

\* The disarm is counted while armed, and the last count ends it.
DisarmCounted == armed => rcDisarmTicks <= DisarmTicks

TypeInv == TypeOK /\ IInv /\ DisarmCounted

\* The parts of TypeOK that IInv has not.
TypedModes == /\ macs \in Tables /\ raised \subseteq Aux /\ throttle \in Throttle
              /\ rcModes \subseteq Modes /\ forced \subseteq Overridable
TypedFlags == armSwitchDisabled \in BOOLEAN /\ governorUsed \in BOOLEAN
TypedCounts == rcDisarmTicks \in 0..DisarmTicks + 1 /\ armedTime \in 0..2 * HalfRange - 1

\* What TypeOK says more than the invariant.
LEMMA TypeParts == IInv => (TypeOK <=> TypedModes /\ TypedFlags /\ TypedCounts)
BY DEF IInv, Typing, EligibleInFlight, TypeOK, TypedModes, TypedFlags, TypedCounts

\* The types at boot.
LEMMA InitTypeInv == Init => TypeInv
<1> SUFFICES ASSUME Init PROVE TypeInv
  OBVIOUS
<1>1. IInv
  BY InitIInv
<1>2. DisarmTicks \in Nat /\ HalfRange \in Nat \ {0}
  BY RcModesAssumption DEF RcModesAssumption
<1>3. TypedModes
  BY DEF Init, TypedModes, Throttle
<1>4. TypedFlags
  BY DEF Init, TypedFlags
<1>5. TypedCounts /\ DisarmCounted
  BY <1>2 DEF Init, TypedCounts, DisarmCounted
<1> QED BY <1>1, <1>3, <1>4, <1>5, TypeParts DEF TypeInv

\* The RX task keeps the types.
LEMMA RxTaskTypes == TypeInv /\ RxTask /\ IInv' => TypeInv'
<1> SUFFICES ASSUME TypeInv, RxTask, IInv' PROVE TypeInv'
  OBVIOUS
<1>1. TypedModes /\ TypedFlags /\ TypedCounts /\ IInv /\ DisarmCounted
  BY TypeParts DEF TypeInv
<1>2. DisarmTicks \in Nat /\ HalfRange \in Nat \ {0}
  BY RcModesAssumption DEF RcModesAssumption
<1>3. PICK up \in SUBSET Aux : raised' = up /\ updateActivatedModes(ActiveModes(up))
  BY DEF RxTask
<1>4. TypedModes'
  <2>1. macs' = macs /\ throttle' \in Throttle
    BY DEF RxTask
  <2>2. ActiveModes(up) \subseteq Modes
    BY <1>1, ActiveModesTyped DEF TypedModes
  <2>3. forced' \subseteq Overridable /\ Overridable \subseteq Modes
    BY <1>1, <1>3 DEF updateActivatedModes, TypedModes, Overridable, Modes
  <2>4. rcModes' \subseteq Modes
    BY <1>3, <2>2, <2>3 DEF updateActivatedModes
  <2> QED BY <1>1, <1>3, <2>1, <2>3, <2>4 DEF TypedModes
<1>5. armSwitchDisabled' \in BOOLEAN
  <2>1. UpdatedFlag \in BOOLEAN
    BY <1>1 DEF UpdatedFlag, TypedFlags
  <2>2. armSwitchDisabled' = UpdatedFlag \/ armSwitchDisabled' = armSwitchDisabled
    BY DEF RxTask, processRcStickPositions, tryArm
  <2> QED BY <1>1, <2>1, <2>2 DEF TypedFlags
<1>6. governorUsed' \in BOOLEAN
  BY DEF RxTask, updateInFlight
<1>7. armed \in BOOLEAN /\ armed' \in BOOLEAN
  BY <1>1 DEF IInv, Typing
<1>8. rcDisarmTicks' \in 0..DisarmTicks + 1 /\ (armed' => rcDisarmTicks' <= DisarmTicks)
  <2>1. CASE rcDisarmTicks' = 0
    BY <1>2, <2>1
  <2>2. CASE UNCHANGED <<rcDisarmTicks, armed>>
    BY <1>1, <2>2 DEF TypedCounts, DisarmCounted
  <2>3. CASE DisarmTick
    <3>1. rcDisarmTicks' = (IF armed THEN rcDisarmTicks + 1 ELSE rcDisarmTicks)
          /\ (armed' => rcDisarmTicks' <= DisarmTicks)
      BY <2>3 DEF DisarmTick
    <3> QED BY <1>1, <1>2, <3>1 DEF TypedCounts, DisarmCounted
  <2> QED BY <2>1, <2>2, <2>3 DEF RxTask, processRcStickPositions
<1>9. armedTime' \in 0..2 * HalfRange - 1
  <2>1. armedTime' = armedTime \/ armedTime' = 0
    BY DEF RxTask
  <2> QED BY <1>1, <1>2, <2>1 DEF TypedCounts
<1>10. TypedFlags' /\ TypedCounts' /\ DisarmCounted'
  BY <1>5, <1>6, <1>8, <1>9 DEF TypedFlags, TypedCounts, DisarmCounted
<1>11. IInv' => (TypeOK' <=> TypedModes' /\ TypedFlags' /\ TypedCounts')
  BY TypeParts, PTL
<1> QED BY <1>4, <1>10, <1>11 DEF TypeInv

\* Every step does.
LEMMA NextTypeInv == TypeInv /\ [Next]_vars => TypeInv'
<1> SUFFICES ASSUME TypeInv, [Next]_vars PROVE TypeInv'
  OBVIOUS
<1>1. TypedModes /\ TypedFlags /\ TypedCounts /\ IInv /\ DisarmCounted
  BY TypeParts DEF TypeInv
<1>2. IInv'
  BY NextIInv DEF TypeInv
<1>3. DisarmTicks \in Nat /\ HalfRange \in Nat \ {0}
  BY RcModesAssumption DEF RcModesAssumption
<1>4. IInv' => (TypeOK' <=> TypedModes' /\ TypedFlags' /\ TypedCounts')
  BY TypeParts, PTL
<1> SUFFICES ASSUME ~RxTask PROVE TypedModes' /\ TypedFlags' /\ TypedCounts' /\ DisarmCounted'
  BY <1>2, <1>4, RxTaskTypes DEF TypeInv
<1>5. CASE UNCHANGED vars
  BY <1>1, <1>5 DEF vars, inputVars, forceVars, armVars, flightVars, rearmVars,
                    TypedModes, TypedFlags, TypedCounts, DisarmCounted
<1>6. CASE updateArmingStatus
  <2>1. UpdatedFlag \in BOOLEAN
    BY <1>1 DEF UpdatedFlag, TypedFlags
  <2> QED BY <1>1, <1>6, <2>1 DEF updateArmingStatus, inputVars, forceVars, flightVars, rearmVars,
                                  TypedModes, TypedFlags, TypedCounts, DisarmCounted
<1>7. CASE disarm
  <2>1. armed' = FALSE /\ armedTime' = 0
        /\ UNCHANGED <<macs, inputVars, rcModes, forceVars, armSwitchDisabled, rcDisarmTicks, flightVars>>
    BY <1>7 DEF disarm
  <2> QED BY <1>1, <1>3, <2>1 DEF inputVars, forceVars, flightVars,
                                  TypedModes, TypedFlags, TypedCounts, DisarmCounted
<1>8. CASE mspSetModeOverride
  <2>1. forced' \subseteq Overridable
        /\ UNCHANGED <<macs, inputVars, rcModes, armVars, flightVars, rearmVars>>
    BY <1>8 DEF mspSetModeOverride, setModeOverride, clearModeOverride, ForceVarsOnly
  <2> QED BY <1>1, <2>1 DEF inputVars, armVars, flightVars, rearmVars,
                            TypedModes, TypedFlags, TypedCounts, DisarmCounted
<1>9. CASE Tick
  <2>1. armedTime' \in 0..2 * HalfRange - 1
    <3>1. armedTime' = armedTime \/ armedTime' = (armedTime + 1) % (2 * HalfRange)
      BY <1>9 DEF Tick
    <3>2. armedTime + 1 \in Int /\ 2 * HalfRange \in Nat \ {0}
      BY <1>1, <1>3 DEF TypedCounts
    <3>3. \A a \in Int, b \in Nat \ {0} : a % b \in 0..b - 1
      OBVIOUS
    <3> QED BY <1>1, <3>1, <3>2, <3>3 DEF TypedCounts
  <2>2. UNCHANGED <<macs, inputVars, rcModes, forced, armVars, flightVars>>
    BY <1>9 DEF Tick
  <2> QED BY <1>1, <2>1, <2>2 DEF inputVars, armVars, flightVars,
                                  TypedModes, TypedFlags, TypedCounts, DisarmCounted
<1> QED BY <1>5, <1>6, <1>7, <1>8, <1>9 DEF Next

\* TypeOK, with the bound on the disarm count that makes it inductive.
LEMMA TypeInvHolds == Spec => []TypeInv
  BY InitTypeInv, NextTypeInv, PTL DEF Spec

\* Every variable keeps its type: a run of the RX task ends with modes there are,
\* the override within its longest timeout and the armed time within its width.
THEOREM TypeTheorem == Spec => []TypeOK
<1>1. TypeInv => TypeOK
  BY DEF TypeInv
<1> QED BY <1>1, TypeInvHolds, PTL

\* With no channel in range nothing is asked for.
LEMMA InitModesMatch == Init => ModesMatch
<1> SUFFICES ASSUME Init PROVE ModesMatch
  OBVIOUS
<1>1. raised = {} /\ rcModes = {}
  BY DEF Init
<1>2. \A mac : ~Raised(mac)
  BY <1>1 DEF Raised
<1>3. \A mode : ~Switched(mode)
  BY <1>2 DEF Switched, AskedBy
<1>4. \A mac : ~Met(mac)
  BY <1>2, <1>3 DEF Met
<1> QED BY <1>1, <1>4 DEF ModesMatch, AskedBy

\* The modes only change with the channels, in a run of the RX task.
LEMMA NextModesMatch == TypeInv /\ ModesMatch /\ [Next]_vars => ModesMatch'
<1> SUFFICES ASSUME TypeInv, ModesMatch, [Next]_vars PROVE ModesMatch'
  OBVIOUS
<1>1. CASE RxTask
  <2>1. macs' \in Tables /\ forced \subseteq Overridable
    BY <1>1 DEF TypeInv, TypeOK, RxTask
  <2>2. (macs \in Tables => \A mode \in Modes :
           Plain(mode) => (mode \in ActiveModes(raised) <=> AskedBy(Met, MacsOf(mode))))'
    BY ActiveAre, PTL
  <2>3. PICK up \in SUBSET Aux : raised' = up /\ updateActivatedModes(ActiveModes(up))
    BY <1>1 DEF RxTask
  <2>4. macs' = macs
    BY <1>1 DEF RxTask
  <2>5. ActiveModes(raised)' = ActiveModes(up)
    BY <2>3, <2>4 DEF ActiveModes
  <2>6. rcModes' = ActiveModes(raised)' \cup (IF overrideLeft' > 0 THEN forced' ELSE {})
        /\ (armed' => forced' = {}) /\ forced' \subseteq Overridable
    BY <2>1, <2>3, <2>5 DEF updateActivatedModes
  <2> QED BY <2>1, <2>2, <2>6 DEF ModesMatch
<1>2. CASE ~RxTask
  <2>1. UNCHANGED <<macs, raised, rcModes>> /\ (armed' => armed)
    BY <1>2 DEF Next, vars, inputVars, armVars, updateArmingStatus, disarm, mspSetModeOverride,
                clearModeOverride, setModeOverride, ForceVarsOnly, Tick
  <2> QED BY <2>1 DEF ModesMatch, Plain, MacsOf, AskedBy, Met, Switched, Raised
<1> QED BY <1>1, <1>2

\* The passes over the table end with the modes that the conditions ask for, for
\* every table and every order of it (updateMasksForMac, updateActivatedModes).
THEOREM ModesTheorem == Spec => []ModesMatch
<1>1. Init /\ [][Next]_vars /\ []TypeInv => []ModesMatch
  BY InitModesMatch, NextModesMatch, PTL
<1> QED BY <1>1, TypeInvHolds, PTL DEF Spec
=============================================================================
