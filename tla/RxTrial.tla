------------------------------- MODULE RxTrial -------------------------------
(***************************************************************************)
(* The wiring trial of a receiver port: rxSerialTrial*() of rx/rx.c for    *)
(* the main receiver and rxInputBackupTrial*() of                          *)
(* drivers/rx_input_backup.c for a backup port, each with the frame check  *)
(* it is driven by, and the baud hunt of a backup port, which goes on      *)
(* beneath the trial.                                                      *)
(*                                                                         *)
(* The three wiring bits are a set of those that are on; the three         *)
(* alternate-baud options of the main receiver are one flag.  Time passes  *)
(* in quanta, one or more from a frame check to the next.                  *)
(***************************************************************************)
EXTENDS Integers, FiniteSets

CONSTANTS
    Hold,           \* quanta the main signal outlives its last frame (100 ms)
    BackupHold,     \* ... a backup's (less than RX_INPUT_BACKUP_STALE_MS)
    Debounce,       \* RX_SERIAL_TRIAL_DEBOUNCE_MS
    Settle,         \* rxSerialTrialSettleMs()
    Watchdog,       \* RX_SERIAL_TRIAL_WATCHDOG_MS
    HuntWindow,     \* RX_INPUT_BACKUP_BAUD_HUNT_WINDOW_MS
    LockFrames,     \* RX_INPUT_BACKUP_BAUD_LOCK_FRAMES
    Relock,         \* RX_INPUT_BACKUP_BAUD_RELOCK_MS
    MaxStep,        \* quanta between two frame checks at most
    Setups          \* the ports and receivers considered

Bit   == {"inverted", "halfDuplex", "pinSwap"}
Combo == SUBSET Bit
Kind  == {"MAIN", "BACKUP"}
Rate  == {"base", "alt"}

ASSUME RxTrialAssumption ==
    /\ BackupHold \in 0 .. Hold
    /\ {Hold, Debounce, Settle, Watchdog, HuntWindow, LockFrames, Relock, MaxStep} \subseteq Nat \ {0}
    /\ Hold < Debounce
    /\ HuntWindow <= Relock /\ HuntWindow + MaxStep <= Settle
    /\ Setups \subseteq [kind : Kind,
                         port : BOOLEAN,            \* a port is assigned to the receiver
                         ignoresHalfDuplex : BOOLEAN, \* CRSF and GHST
                         wiring : Combo,            \* configured at boot
                         altBaud : BOOLEAN,         \* configured at boot, main receiver
                         works : SUBSET Combo,      \* the wirings that carry the signal
                         cached : BOOLEAN,          \* ... with altBaud on, too
                         twoRates : BOOLEAN]        \* ops.altBaudRate, backup port

VARIABLES
    setup,
    wiring, altBaud,        \* the receiver configuration in RAM
    state,                  \* rxSerialTrial.state
    tried,                  \* comboOrder[0 .. comboIndex]
    comboAge, pollAge,      \* time since comboStartedAt and lastPollAt
    signalFor,              \* time since signalSince, or Unset
    saved,                  \* the saved* fields of rxSerialTrial
    signal, sinceFrame,     \* rxSignalReceived or portIsActive(), and its age
    leftover,               \* a frame from before the port was opened again
    rate, locked, goodFrames, eventAge,     \* the baud hunt of a backup port
    on, speed,              \* the receiver sends frames, and how fast
    armed,
    heard,                  \* history: a frame came since the port was opened
    steady,                 \* history: `on' since the trial began
    undisturbed             \* history: every Start so far was accepted, from IDLE or FAILED

configVars == <<wiring, altBaud>>
trialVars  == <<state, tried, comboAge, pollAge, signalFor, saved>>
linkVars   == <<signal, sinceFrame, leftover, heard>>
huntVars   == <<rate, locked, goodFrames, eventAge>>
historyVars == <<steady, undisturbed>>
vars == <<setup, configVars, trialVars, linkVars, huntVars, on, speed, armed, historyVars>>

Unset == -1
Main  == setup.kind = "MAIN"
CappedAdd(a, d, cap) == IF a + d > cap THEN cap ELSE a + d

-----------------------------------------------------------------------------
(* The line. *)

\* Frames sent now come through with wiring w, alternate baud b, at rate r.
Carries(w, b, r) ==
    /\ \E c \in setup.works : \/ c = w
                              \/ setup.ignoresHalfDuplex /\ c \ {"halfDuplex"} = w \ {"halfDuplex"}
    /\ IF Main THEN b => setup.cached
       ELSE setup.twoRates => r = speed

Frame == on /\ setup.port /\ Carries(wiring, altBaud, rate)

Link == [signal |-> signal, age |-> sinceFrame]

\* rxSerialTrialReinit(), rxInputBackupTrialReinit(): the port is closed and
\* opened with the configuration.  The main receiver's signal and a frame its
\* provider had completed survive that; rxInputBackupPortInit() resets both.
\* `now' is the link at this moment.
Reinit(now) ==
    /\ heard' = FALSE /\ sinceFrame' = now.age
    /\ leftover' \in {FALSE, Main /\ Frame}
    /\ signal' = (Main /\ now.signal)
    /\ rate' = "base" /\ locked' = FALSE /\ goodFrames' = 0 /\ eventAge' = 0

-----------------------------------------------------------------------------
(* The combos, in the order in which they are tried. *)

Distance(c, d) == Cardinality((c \ d) \cup (d \ c))

Value(c) == (IF "inverted" \in c THEN 1 ELSE 0) + (IF "halfDuplex" \in c THEN 2 ELSE 0)
              + (IF "pinSwap" \in c THEN 4 ELSE 0)

Before(c, d, current) ==
    \/ Distance(c, current) < Distance(d, current)
    \/ Distance(c, current) = Distance(d, current) /\ Value(c) <= Value(d)

\* Mutant: the index is not advanced.
Untried_again(done, current) ==
    {c \in Combo : setup.ignoresHalfDuplex => ("halfDuplex" \in c <=> "halfDuplex" \in current)}

\* Mutant: the combos two bits away are left out.
Untried_skips(done, current) ==
    {c \in Combo : Distance(c, current) # 2} \ done

\* CRSF and GHST never read the half-duplex bit, and it is not varied for them.
Untried(done, current) ==
    {c \in Combo : setup.ignoresHalfDuplex => ("halfDuplex" \in c <=> "halfDuplex" \in current)}
        \ done

NextCombo(done, current) ==
    CHOOSE c \in Untried(done, current) : \A d \in Untried(done, current) : Before(c, d, current)

\* Mutant: the debounce of the combo before goes on.
ApplyCombo_keepsSignal(c, now) ==
    /\ wiring' = c
    /\ Reinit(now)
    /\ comboAge' = 0 /\ UNCHANGED signalFor

\* rxSerialTrialApplyCombo()
ApplyCombo(c, now) ==
    /\ wiring' = c
    /\ Reinit(now)
    /\ comboAge' = 0 /\ signalFor' = Unset

\* Mutant: the alternate bauds are not put back.
Restore_baudOff(now) ==
    /\ wiring' = saved.wiring
    /\ altBaud' = FALSE
    /\ Reinit(now)

\* rxSerialTrialRestore()
Restore(now) ==
    /\ wiring' = saved.wiring
    /\ altBaud' = saved.altBaud
    /\ Reinit(now)

-----------------------------------------------------------------------------
(* MSP2_WING_RX_SERIAL_TRIAL and MSP2_WING_RX_INPUT_BACKUP_TRIAL: the action, *)
(* then the status query, which feeds the watchdog.                           *)

Poll ==
    /\ pollAge' = 0
    /\ UNCHANGED <<setup, configVars, state, tried, comboAge, signalFor, saved,
                   linkVars, huntVars, on, speed, armed, historyVars>>

Rejected == armed \/ ~setup.port

\* rxSerialTrialStart()
Start ==
    /\ state # "RUNNING"
    /\ pollAge' = 0
    /\ undisturbed' = (undisturbed /\ ~Rejected /\ state \in {"IDLE", "FAILED"})
    /\ IF Rejected
       THEN /\ state' = "REJECTED"
            /\ UNCHANGED <<configVars, tried, comboAge, signalFor, saved, linkVars, huntVars, steady>>
       ELSE /\ state' = "RUNNING"
            /\ saved' = [wiring |-> wiring, altBaud |-> altBaud]
            /\ altBaud' = FALSE
            /\ tried' = {wiring}
            /\ ApplyCombo(NextCombo({}, wiring), Link)
            /\ steady' = on
    /\ UNCHANGED <<setup, on, speed, armed>>

\* rxSerialTrialStop(), rxInputBackupTrialStop(): only the latter leaves a
\* trial that was REJECTED alone.
Stop ==
    /\ state # "IDLE"
    /\ state' = "IDLE" /\ pollAge' = 0
    /\ IF Main \/ state # "REJECTED" THEN Restore(Link)
       ELSE UNCHANGED <<configVars, linkVars, huntVars>>
    /\ UNCHANGED <<setup, tried, comboAge, signalFor, saved, on, speed, armed, historyVars>>

-----------------------------------------------------------------------------
(* The frame check and the tick of the trial it ends with. *)

\* A signal ends when its last frame is older than `hold'.
Receive(dt, hold) ==
    LET age == CappedAdd(sinceFrame, dt, Hold + 1)
    IN  IF Frame \/ leftover THEN [signal |-> TRUE, age |-> 0]
        ELSE [signal |-> signal /\ age <= hold, age |-> age]

Debounced(age) == age >= Debounce

\* The combo has failed: the next one, or the end of the trial.
GiveUp(now) ==
    IF Untried(tried, saved.wiring) = {}
    THEN /\ Restore(now) /\ state' = "FAILED" /\ signalFor' = Unset
         /\ UNCHANGED <<tried, saved, comboAge>>
    ELSE LET c == NextCombo(tried, saved.wiring) IN
         /\ ApplyCombo(c, now) /\ tried' = tried \cup {c}
         /\ UNCHANGED <<altBaud, state, saved>>

Settled(age) == age >= Settle

\* The link as the frame check left it, for the ticks that do not touch it.
Links(now, hunt) ==
    /\ signal' = now.signal /\ sinceFrame' = now.age
    /\ leftover' = FALSE /\ heard' = (heard \/ Frame)
    /\ rate' = hunt.rate /\ locked' = hunt.locked
    /\ goodFrames' = hunt.good /\ eventAge' = hunt.age

\* rxSerialTrialTick(): `now' and `hunt' are the link after this frame check.
Tick(dt, now, hunt) ==
    LET since == IF signalFor = Unset THEN 0 ELSE CappedAdd(signalFor, dt, Debounce)
        age   == CappedAdd(comboAge, dt, Settle)
    IN
    /\ pollAge' = CappedAdd(pollAge, dt, Watchdog + 1)
    /\ \/ /\ state # "RUNNING"
          /\ Links(now, hunt)
          /\ UNCHANGED <<configVars, state, tried, comboAge, signalFor, saved>>
       \/ /\ state = "RUNNING" /\ pollAge + dt > Watchdog
          /\ Restore(now) /\ state' = "IDLE"
          /\ UNCHANGED <<tried, comboAge, signalFor, saved>>
       \/ /\ state = "RUNNING" /\ pollAge + dt <= Watchdog /\ now.signal
          /\ signalFor' = since /\ comboAge' = age
          /\ state' = IF signalFor # Unset /\ Debounced(since) THEN "SUCCESS" ELSE state
          /\ Links(now, hunt)
          /\ UNCHANGED <<configVars, tried, saved>>
       \/ /\ state = "RUNNING" /\ pollAge + dt <= Watchdog /\ ~now.signal
          /\ IF Settled(age) THEN GiveUp(now)
             ELSE /\ Links(now, hunt)
                  /\ signalFor' = Unset /\ comboAge' = age
                  /\ UNCHANGED <<configVars, state, tried, saved>>

-----------------------------------------------------------------------------
(* rxInputBackupBaudService(): the port's speed after this poll. *)

Hunting == [rate |-> rate, locked |-> locked, good |-> goodFrames, age |-> eventAge]

OtherSpeed == [rate |-> CHOOSE r \in Rate : r # rate, locked |-> FALSE, good |-> 0, age |-> 0]

\* Mutant: a port that is locked stays so.
BaudService_stuck(dt, frame) ==
    LET idle == CappedAdd(eventAge, dt, Relock)
        good == CappedAdd(goodFrames, 1, LockFrames)
    IN  IF Main \/ ~setup.port \/ ~setup.twoRates THEN Hunting
        ELSE IF frame
        THEN [Hunting EXCEPT !.age = 0, !.good = IF locked THEN @ ELSE good,
                             !.locked = (locked \/ good = LockFrames)]
        ELSE IF locked \/ idle < HuntWindow THEN [Hunting EXCEPT !.age = idle]
        ELSE OtherSpeed

BaudService(dt, frame) ==
    LET idle == CappedAdd(eventAge, dt, Relock)
        good == CappedAdd(goodFrames, 1, LockFrames)
    IN  IF Main \/ ~setup.port \/ ~setup.twoRates THEN Hunting
        ELSE IF frame
        THEN [Hunting EXCEPT !.age = 0, !.good = IF locked THEN @ ELSE good,
                             !.locked = (locked \/ good = LockFrames)]
        ELSE IF IF locked THEN armed \/ idle < Relock ELSE idle < HuntWindow
        THEN [Hunting EXCEPT !.age = idle]
        ELSE OtherSpeed

\* rxFrameCheck() for the main receiver; rxInputBackupPoll() for a backup port.
rxFrameCheck(dt) ==
    /\ Tick(dt, Receive(dt, IF Main THEN Hold ELSE BackupHold), BaudService(dt, Frame))
    /\ UNCHANGED <<setup, on, speed, armed, historyVars>>

-----------------------------------------------------------------------------
(* The receiver and the arm switch. *)

\* It may come back with another speed.
powerReceiver ==
    /\ on' = ~on
    /\ speed' \in IF setup.twoRates /\ on' THEN Rate ELSE {speed}
    /\ steady' = (steady /\ on')
    /\ UNCHANGED <<setup, configVars, trialVars, linkVars, huntVars, armed, undisturbed>>

\* Arming needs the main receiver's signal.
armSwitch ==
    /\ ~armed /\ Main => signal
    /\ armed' = ~armed
    /\ UNCHANGED <<setup, configVars, trialVars, linkVars, huntVars, on, speed, historyVars>>

Init ==
    /\ setup \in Setups
    /\ wiring = setup.wiring /\ altBaud = setup.altBaud
    /\ state = "IDLE" /\ tried = {} /\ comboAge = 0 /\ pollAge = 0 /\ signalFor = Unset
    /\ saved = [wiring |-> {}, altBaud |-> FALSE]
    /\ signal = FALSE /\ sinceFrame = Hold + 1 /\ leftover = FALSE
    /\ rate = "base" /\ locked = FALSE /\ goodFrames = 0 /\ eventAge = 0
    /\ on \in BOOLEAN /\ speed = "alt" /\ armed = FALSE
    /\ heard = FALSE /\ steady = FALSE /\ undisturbed = TRUE

FrameCheck == \E dt \in 1 .. MaxStep : rxFrameCheck(dt)

Next == Poll \/ Start \/ Stop \/ FrameCheck \/ powerReceiver \/ armSwitch

Spec == Init /\ [][Next]_vars

\* The scheduler runs the frame check in every gyro cycle.
FairSpec == Spec /\ WF_vars(FrameCheck)

-----------------------------------------------------------------------------
TypeOK ==
    /\ setup \in Setups /\ wiring \in Combo /\ altBaud \in BOOLEAN
    /\ state \in {"IDLE", "RUNNING", "SUCCESS", "FAILED", "REJECTED"}
    /\ tried \subseteq Combo
    /\ comboAge \in 0 .. Settle /\ pollAge \in 0 .. Watchdog + 1
    /\ signalFor \in Unset .. Debounce
    /\ saved \in [wiring : Combo, altBaud : BOOLEAN]
    /\ signal \in BOOLEAN /\ sinceFrame \in 0 .. Hold + 1 /\ leftover \in BOOLEAN
    /\ rate \in Rate /\ locked \in BOOLEAN
    /\ goodFrames \in 0 .. LockFrames /\ eventAge \in 0 .. Relock
    /\ on \in BOOLEAN /\ speed \in Rate /\ armed \in BOOLEAN
    /\ heard \in BOOLEAN /\ steady \in BOOLEAN /\ undisturbed \in BOOLEAN

\* A wiring is reported found only when the receiver was heard on it: neither
\* the signal that outlives the port it came through nor a frame the provider
\* had completed before carries a combo through the debounce.
SuccessIsHeard == state = "SUCCESS" => heard

\* A trial that ends without a find, by itself, by its watchdog or by a stop,
\* leaves the wiring and the bauds as they were configured, provided that no
\* Start was refused or given while an earlier find was still live.
RestoredAfterTrial ==
    undisturbed /\ state \in {"IDLE", "FAILED"}
        => wiring = setup.wiring /\ altBaud = setup.altBaud

\* A receiver that sends all through a trial, over a wiring there is, is found:
\* the settle time covers the debounce and, on a backup port, the baud hunt.
SteadyReceiverIsFound ==
    [][state = "RUNNING" /\ state' = "FAILED" => ~steady \/ setup.works = {}]_vars

\* A trial comes to an end, whether anyone polls it and whatever the link does.
TrialEnds == state = "RUNNING" ~> state # "RUNNING"

WiringCarries == on /\ setup.port /\ \E r \in Rate : Carries(wiring, altBaud, r)

\* Outside of a trial, disarmed, a receiver that sends is heard for good from
\* some moment on: the hunt finds its speed and stays there, whichever it was
\* locked to before.
LinkIsFound == <>[](state = "IDLE" /\ ~armed /\ WiringCarries) => <>[]signal

\* msp.c on MSP2_WING_RX_SERIAL_TRIAL: "2 = stop/cancel - always restores the
\* pre-trial wiring".
StopRestores ==
    [][state # "IDLE" /\ state' = "IDLE"
          => wiring' = setup.wiring /\ altBaud' = setup.altBaud]_vars
=============================================================================
