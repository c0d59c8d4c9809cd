--------------------------- MODULE RxTrial_proofs ---------------------------
(***************************************************************************)
(* Proofs about the wiring trial of a receiver port, for every choice of   *)
(* its periods and every set of ports: a find is a find of the receiver,   *)
(* and a trial without one leaves the configuration as it was.             *)
(***************************************************************************)
EXTENDS RxTrial, FiniteSetTheorems, WellFoundedInduction, TLAPS

(* The constants, as the steps need them. *)
LEMMA ConstantFacts ==
  /\ Hold \in Nat /\ BackupHold \in Nat /\ BackupHold <= Hold /\ Hold < Debounce
  /\ Debounce \in Nat /\ Settle \in Nat /\ Watchdog \in Nat /\ Relock \in Nat
  /\ LockFrames \in Nat /\ LockFrames > 0 /\ MaxStep \in Nat
BY RxTrialAssumption

(* A setup names a wiring and a baud. *)
LEMMA SetupFacts ==
  ASSUME NEW s \in Setups
  PROVE  s.wiring \in Combo /\ s.altBaud \in BOOLEAN
BY RxTrialAssumption

(* A capped counter stays in its range. *)
LEMMA CapBounds ==
  ASSUME NEW a \in Nat, NEW d \in Nat, NEW cap \in Nat
  PROVE  /\ CappedAdd(a, d, cap) \in 0 .. cap
         /\ CappedAdd(a, d, cap) <= a + d
         /\ CappedAdd(a, d, cap) < cap => CappedAdd(a, d, cap) = a + d
BY DEF CappedAdd

-----------------------------------------------------------------------------
(* There is a next combo as long as one is left: the order in which they are
   tried is that of a number. *)

Rank(c, current) == 8 * Distance(c, current) + Value(c)

(* Two combos differ in finitely many bits. *)
LEMMA DifferenceFinite ==
  ASSUME NEW c \in Combo, NEW d \in Combo
  PROVE  IsFiniteSet((c \ d) \cup (d \ c))
<1>1. IsFiniteSet(Bit)
  <2>1. IsFiniteSet({"inverted"}) /\ IsFiniteSet({"halfDuplex"}) /\ IsFiniteSet({"pinSwap"})
    BY FS_Singleton
  <2>2. IsFiniteSet({"inverted"} \cup {"halfDuplex"})
    BY <2>1, FS_Union
  <2>3. IsFiniteSet(({"inverted"} \cup {"halfDuplex"}) \cup {"pinSwap"})
    BY <2>1, <2>2, FS_Union
  <2>4. Bit = ({"inverted"} \cup {"halfDuplex"}) \cup {"pinSwap"}
    BY DEF Bit
  <2> QED BY <2>3, <2>4
<1>2. (c \ d) \cup (d \ c) \in SUBSET Bit
  BY DEF Combo
<1> QED BY <1>1, <1>2, FS_Subset

(* The order in which combos are tried is one of numbers. *)
LEMMA RankNat ==
  ASSUME NEW c \in Combo, NEW d \in Combo
  PROVE  Distance(c, d) \in Nat /\ Value(c) \in 0 .. 7 /\ Rank(c, d) \in Nat
<1>1. Distance(c, d) \in Nat
  BY DifferenceFinite, FS_CardinalityType DEF Distance
<1>2. Value(c) \in 0 .. 7
  BY DEF Value
<1> QED BY <1>1, <1>2 DEF Rank

(* While a combo is untried there is a next one: it is untried, and before all others. *)
LEMMA NextComboExists ==
  ASSUME NEW done, NEW current \in Combo, Untried(done, current) # {}
  PROVE  /\ NextCombo(done, current) \in Untried(done, current) /\ NextCombo(done, current) \in Combo
         /\ \A d \in Untried(done, current) : Before(NextCombo(done, current), d, current)
<1> DEFINE U == Untried(done, current)
           Ranks == {Rank(c, current) : c \in U}
<1>1. U \subseteq Combo
  BY DEF Untried
<1>2. Ranks \subseteq Nat /\ Ranks # {}
  BY <1>1, RankNat
<1>3. \E x \in Ranks : \A y \in Ranks : ~(<<y, x>> \in OpToRel(<, Nat))
  <2> HIDE DEF Ranks
  <2> QED BY <1>2, NatLessThanWellFounded, WFMin
<1>4. PICK c \in U : \A d \in U : ~(<<Rank(d, current), Rank(c, current)>> \in OpToRel(<, Nat))
  BY <1>3
<1>5. \A d \in U : Before(c, d, current)
  <2> SUFFICES ASSUME NEW d \in U PROVE Before(c, d, current)
    OBVIOUS
  <2>1. /\ Distance(c, current) \in Nat /\ Value(c) \in 0 .. 7 /\ Rank(c, current) \in Nat
        /\ Distance(d, current) \in Nat /\ Value(d) \in 0 .. 7 /\ Rank(d, current) \in Nat
    BY <1>1, RankNat
  <2>2. ~(Rank(d, current) < Rank(c, current))
    BY <1>4, <2>1 DEF OpToRel
  <2> QED BY <2>1, <2>2 DEF Rank, Before
<1> QED BY <1>1, <1>5 DEF NextCombo

-----------------------------------------------------------------------------
(* The inductive invariant. *)

(* While the receiver has not been heard on a combo, its debounce is no older
   than the last frame of the combo before. *)
OldSignalAges ==
  state = "RUNNING" /\ signalFor # Unset => ~leftover /\ (heard \/ signalFor <= sinceFrame)

(* What a trial puts back is what was configured. *)
SavedIsSetup ==
  undisturbed => /\ state # "REJECTED"
                 /\ state # "IDLE" => saved.wiring = setup.wiring /\ saved.altBaud = setup.altBaud

IInv == TypeOK /\ SuccessIsHeard /\ OldSignalAges /\ SavedIsSetup /\ RestoredAfterTrial

(* TypeOK in the parts that the steps change together. *)
ConfigTyped == wiring \in Combo /\ altBaud \in BOOLEAN
TrialTyped == /\ state \in {"IDLE", "RUNNING", "SUCCESS", "FAILED", "REJECTED"}
              /\ tried \subseteq Combo
              /\ comboAge \in 0 .. Settle /\ pollAge \in 0 .. Watchdog + 1
              /\ signalFor \in Unset .. Debounce
              /\ saved \in [wiring : Combo, altBaud : BOOLEAN]
LinkTyped == /\ signal \in BOOLEAN /\ sinceFrame \in 0 .. Hold + 1 /\ leftover \in BOOLEAN
             /\ heard \in BOOLEAN
HuntTyped == /\ rate \in Rate /\ locked \in BOOLEAN
             /\ goodFrames \in 0 .. LockFrames /\ eventAge \in 0 .. Relock
OtherTyped == /\ setup \in Setups /\ on \in BOOLEAN /\ speed \in Rate /\ armed \in BOOLEAN
              /\ steady \in BOOLEAN /\ undisturbed \in BOOLEAN

(* A link, as Receive() and Hunting leave it. *)
LinkRecord == [signal : BOOLEAN, age : 0 .. Hold + 1]
HuntRecord == [rate : Rate, locked : BOOLEAN, good : 0 .. LockFrames, age : 0 .. Relock]

(* A frame comes or does not, and the link is a record of its state. *)
LEMMA FrameBool == TypeOK => Frame \in BOOLEAN /\ Link \in LinkRecord
BY DEF TypeOK, Frame, Link, LinkRecord, Carries

(* Opening the port again keeps the types. *)
LEMMA ReinitTyped ==
  ASSUME TypeOK, NEW now \in LinkRecord, Reinit(now)
  PROVE  LinkTyped' /\ HuntTyped' /\ heard' = FALSE /\ sinceFrame' = now.age
<1>1. heard' = FALSE /\ sinceFrame' = now.age /\ now.age \in 0 .. Hold + 1
  BY DEF Reinit, LinkRecord
<1>2. signal' \in BOOLEAN /\ leftover' \in BOOLEAN
  BY FrameBool DEF Reinit, LinkRecord
<1>3. HuntTyped'
  <2>1. 0 \in 0 .. LockFrames /\ 0 \in 0 .. Relock
    BY ConstantFacts
  <2> QED BY <2>1 DEF Reinit, HuntTyped, Rate
<1> QED BY <1>1, <1>2, <1>3 DEF LinkTyped

(* Putting the wiring back keeps the types. *)
LEMMA RestoreTyped ==
  ASSUME TypeOK, NEW now \in LinkRecord, Restore(now)
  PROVE  /\ ConfigTyped' /\ LinkTyped' /\ HuntTyped'
         /\ wiring' = saved.wiring /\ altBaud' = saved.altBaud
BY ReinitTyped DEF Restore, ConfigTyped, TypeOK

(* What a frame check makes of the signal: it goes on without a new frame only
   while the last one is young. *)
LEMMA ReceiveFacts ==
  ASSUME TypeOK, NEW dt \in 1 .. MaxStep, NEW hold \in {Hold, BackupHold}
  PROVE  /\ Receive(dt, hold) \in LinkRecord
         /\ ~Frame /\ ~leftover /\ Receive(dt, hold).signal
              => Receive(dt, hold).age = sinceFrame + dt /\ sinceFrame + dt <= Hold
<1> DEFINE age == CappedAdd(sinceFrame, dt, Hold + 1)
<1>1. /\ age \in 0 .. Hold + 1 /\ dt \in Nat /\ sinceFrame \in Nat
      /\ age < Hold + 1 => age = sinceFrame + dt
  BY ConstantFacts, CapBounds DEF TypeOK
<1>2. Receive(dt, hold) = IF Frame \/ leftover THEN [signal |-> TRUE, age |-> 0]
                          ELSE [signal |-> signal /\ age <= hold, age |-> age]
  BY DEF Receive
<1> HIDE DEF age
<1>3. Receive(dt, hold) \in LinkRecord
  BY <1>1, <1>2, ConstantFacts DEF TypeOK, LinkRecord
<1>4. ~Frame /\ ~leftover /\ Receive(dt, hold).signal => age <= hold /\ Receive(dt, hold).age = age
  <2> SUFFICES ASSUME ~Frame, ~leftover, Receive(dt, hold).signal
               PROVE  age <= hold /\ Receive(dt, hold).age = age
    OBVIOUS
  <2>1. Receive(dt, hold) = [signal |-> signal /\ age <= hold, age |-> age]
    BY <1>2, Zenon
  <2> DEFINE q == signal /\ age <= hold
  <2>2. Receive(dt, hold) = [signal |-> q, age |-> age]
    BY <2>1
  <2> HIDE DEF q
  <2>3. Receive(dt, hold).signal = q /\ Receive(dt, hold).age = age
    BY <2>2
  <2> QED BY <2>3 DEF q
<1>5. hold \in Nat /\ hold <= Hold
  BY ConstantFacts
<1> QED BY <1>1, <1>3, <1>4, <1>5, ConstantFacts

(* The baud hunt keeps the types. *)
LEMMA HuntFacts ==
  ASSUME TypeOK, NEW dt \in 1 .. MaxStep, NEW frame \in BOOLEAN
  PROVE  BaudService(dt, frame) \in HuntRecord
<1> DEFINE idle == CappedAdd(eventAge, dt, Relock)
           good == CappedAdd(goodFrames, 1, LockFrames)
<1>1. idle \in 0 .. Relock /\ good \in 0 .. LockFrames
  <2>1. eventAge \in Nat /\ goodFrames \in Nat /\ dt \in Nat /\ 1 \in Nat
    BY ConstantFacts DEF TypeOK
  <2>2. idle \in 0 .. Relock
    BY <2>1, ConstantFacts, CapBounds
  <2>3. good \in 0 .. LockFrames
    BY <2>1, ConstantFacts, CapBounds
  <2> QED BY <2>2, <2>3
<1>2. Hunting \in HuntRecord
  BY DEF Hunting, HuntRecord, TypeOK
<1>3. OtherSpeed \in HuntRecord
  <2>1. (CHOOSE r \in Rate : r # rate) \in Rate
    BY DEF Rate
  <2> QED BY <2>1, ConstantFacts DEF OtherSpeed, HuntRecord
<1> HIDE DEF idle, good
<1>4. [Hunting EXCEPT !.age = idle] \in HuntRecord
  BY <1>1, <1>2 DEF HuntRecord
<1>5. ASSUME NEW b \in BOOLEAN, NEW g \in 0 .. LockFrames
      PROVE  [Hunting EXCEPT !.age = 0, !.good = g, !.locked = b] \in HuntRecord
  <2>1. 0 \in 0 .. Relock
    BY ConstantFacts
  <2> QED BY <1>2, <2>1 DEF HuntRecord
<1>6. Hunting.good \in 0 .. LockFrames
  BY <1>2 DEF HuntRecord
<1>7. [Hunting EXCEPT !.age = 0, !.good = IF locked THEN @ ELSE good,
                      !.locked = (locked \/ good = LockFrames)] \in HuntRecord
  <2>1. (locked \/ good = LockFrames) \in BOOLEAN
    BY DEF TypeOK
  <2>2. (IF locked THEN Hunting.good ELSE good) \in 0 .. LockFrames
    BY <1>1, <1>6
  <2>3. [Hunting EXCEPT !.age = 0, !.good = IF locked THEN @ ELSE good,
                        !.locked = (locked \/ good = LockFrames)]
        = [Hunting EXCEPT !.age = 0, !.good = IF locked THEN Hunting.good ELSE good,
                          !.locked = (locked \/ good = LockFrames)]
    BY <1>2 DEF HuntRecord
  <2> QED BY <1>5, <2>1, <2>2, <2>3
<1> QED BY <1>2, <1>3, <1>4, <1>7 DEF BaudService, idle, good

(* The link after a frame check keeps the types. *)
LEMMA LinksTyped ==
  ASSUME TypeOK, NEW now \in LinkRecord, NEW hunt \in HuntRecord, Links(now, hunt)
  PROVE  LinkTyped' /\ HuntTyped' /\ leftover' = FALSE /\ sinceFrame' = now.age
         /\ heard' = (heard \/ Frame)
BY FrameBool DEF Links, LinkTyped, HuntTyped, LinkRecord, HuntRecord, TypeOK

-----------------------------------------------------------------------------
(* The tick of the trial, a case at a time. *)

TickCase(dt, now, hunt) ==
  /\ IInv /\ dt \in 1 .. MaxStep /\ now \in LinkRecord /\ hunt \in HuntRecord
  /\ ~Frame /\ ~leftover /\ now.signal => now.age = sinceFrame + dt /\ sinceFrame + dt <= Hold
  /\ Tick(dt, now, hunt)
  /\ UNCHANGED <<setup, on, speed, armed, historyVars>>

(* What every branch of the tick leaves alone. *)
LEMMA TickOther ==
  ASSUME NEW dt, NEW now, NEW hunt, TickCase(dt, now, hunt)
  PROVE  /\ TypeOK /\ OtherTyped' /\ pollAge' \in 0 .. Watchdog + 1
         /\ setup' = setup /\ undisturbed' = undisturbed
         /\ dt \in Nat /\ CappedAdd(comboAge, dt, Settle) \in 0 .. Settle
<1>1. TypeOK /\ dt \in Nat /\ comboAge \in Nat /\ pollAge \in Nat
  BY ConstantFacts DEF TickCase, IInv, TypeOK
<1>2. CappedAdd(comboAge, dt, Settle) \in 0 .. Settle
  BY <1>1, ConstantFacts, CapBounds
<1>3. CappedAdd(pollAge, dt, Watchdog + 1) \in 0 .. Watchdog + 1
  <2>1. Watchdog + 1 \in Nat
    BY ConstantFacts
  <2> QED BY <1>1, <2>1, CapBounds
<1> QED BY <1>1, <1>2, <1>3 DEF TickCase, Tick, OtherTyped, TypeOK, historyVars

(* Outside of a trial only the link moves. *)
LEMMA TickIdle ==
  ASSUME NEW dt, NEW now, NEW hunt, TickCase(dt, now, hunt), state # "RUNNING",
         Links(now, hunt),
         UNCHANGED <<configVars, state, tried, comboAge, signalFor, saved>>
  PROVE  IInv'
<1>1. TypeOK /\ now \in LinkRecord /\ hunt \in HuntRecord
  BY TickOther DEF TickCase
<1>2. LinkTyped' /\ HuntTyped' /\ heard' = (heard \/ Frame)
  BY <1>1, LinksTyped
<1>3. TypeOK'
  BY <1>1, <1>2, TickOther
     DEF configVars, ConfigTyped, TrialTyped, LinkTyped, HuntTyped,
           OtherTyped, TypeOK
<1> QED
  BY <1>2, <1>3, TickOther
     DEF TickCase, IInv, SuccessIsHeard, OldSignalAges, SavedIsSetup, RestoredAfterTrial, configVars

(* The watchdog, and the end of the last combo. *)
LEMMA TickEnds ==
  ASSUME NEW dt, NEW now, NEW hunt, TickCase(dt, now, hunt), state = "RUNNING",
         Restore(now), state' \in {"IDLE", "FAILED"},
         signalFor' \in {signalFor, Unset}, UNCHANGED <<tried, comboAge, saved>>
  PROVE  IInv'
<1>1. TypeOK /\ now \in LinkRecord
  BY TickOther DEF TickCase
<1>2. /\ ConfigTyped' /\ LinkTyped' /\ HuntTyped'
      /\ wiring' = saved.wiring /\ altBaud' = saved.altBaud
  BY <1>1, RestoreTyped
<1>3. signalFor' \in Unset .. Debounce
  BY <1>1, ConstantFacts DEF TypeOK, Unset
<1>4. TypeOK'
  BY <1>1, <1>2, <1>3, TickOther
     DEF ConfigTyped, TrialTyped, LinkTyped, HuntTyped,
           OtherTyped, TypeOK
<1> QED
  BY <1>2, <1>4, TickOther
     DEF TickCase, IInv, SuccessIsHeard, OldSignalAges, SavedIsSetup, RestoredAfterTrial

(* The debounce counts, and may end in a find. *)
LEMMA TickDebounces ==
  ASSUME NEW dt, NEW now, NEW hunt, TickCase(dt, now, hunt), state = "RUNNING", now.signal,
         signalFor' = IF signalFor = Unset THEN 0 ELSE CappedAdd(signalFor, dt, Debounce),
         comboAge' = CappedAdd(comboAge, dt, Settle),
         state' = IF signalFor # Unset
                     /\ Debounced(IF signalFor = Unset THEN 0 ELSE CappedAdd(signalFor, dt, Debounce))
                  THEN "SUCCESS" ELSE state,
         Links(now, hunt),
         UNCHANGED <<configVars, tried, saved>>
  PROVE  IInv'
<1>1. TypeOK /\ now \in LinkRecord /\ hunt \in HuntRecord
  BY TickOther DEF TickCase
<1>2. /\ LinkTyped' /\ HuntTyped' /\ leftover' = FALSE /\ sinceFrame' = now.age
      /\ heard' = (heard \/ Frame)
  BY <1>1, LinksTyped
<1>3. /\ dt \in Nat /\ sinceFrame \in Nat /\ signalFor \in Unset .. Debounce /\ Unset = -1
      /\ now.age \in Nat
  BY <1>1, TickOther, ConstantFacts DEF TypeOK, LinkRecord, Unset
<1>4. signalFor # Unset => signalFor \in Nat
  BY <1>3, ConstantFacts
<1>5. signalFor # Unset => signalFor' \in 0 .. Debounce /\ signalFor' <= signalFor + dt
  BY <1>3, <1>4, ConstantFacts, CapBounds
<1>6. signalFor' \in 0 .. Debounce
  BY <1>5, ConstantFacts
<1>7. TypeOK'
  <2>1. signalFor' \in Unset .. Debounce
    BY <1>3, <1>6, ConstantFacts
  <2> QED BY <1>1, <1>2, <2>1, TickOther
    DEF configVars, ConfigTyped, TrialTyped, LinkTyped, HuntTyped,
           OtherTyped, TypeOK
<1>8. heard' \/ signalFor' <= sinceFrame'
  <2> SUFFICES ASSUME ~heard' PROVE signalFor' <= sinceFrame'
    OBVIOUS
  <2>1. ~heard /\ ~Frame
    BY <1>2
  <2>2. CASE signalFor = Unset
    BY <1>2, <1>3, <2>2
  <2>3. CASE signalFor # Unset
    <3>1. ~leftover /\ signalFor <= sinceFrame
      BY <2>1, <2>3 DEF TickCase, IInv, OldSignalAges
    <3>2. now.age = sinceFrame + dt
      BY <2>1, <3>1 DEF TickCase
    <3> QED BY <1>2, <1>3, <1>4, <1>5, <2>3, <3>1, <3>2
  <2> QED BY <2>2, <2>3
<1>9. state' = "SUCCESS" => heard'
  <2> SUFFICES ASSUME state' = "SUCCESS", ~heard' PROVE FALSE
    BY <1>2, FrameBool DEF TypeOK
  <2>1. signalFor # Unset /\ signalFor' >= Debounce
    BY DEF Debounced
  <2>2. ~heard /\ ~Frame
    BY <1>2
  <2>3. ~leftover
    BY <2>1, <2>2 DEF TickCase, IInv, OldSignalAges
  <2>4. now.age <= Hold
    BY <2>2, <2>3 DEF TickCase
  <2> QED BY <1>2, <1>3, <1>6, <1>8, <2>1, <2>4, ConstantFacts
<1> QED
  BY <1>2, <1>7, <1>8, <1>9, TickOther
     DEF TickCase, IInv, SuccessIsHeard, OldSignalAges, SavedIsSetup, RestoredAfterTrial, configVars

(* Without a signal the combo waits, or gives up. *)
LEMMA TickWaits ==
  ASSUME NEW dt, NEW now, NEW hunt, TickCase(dt, now, hunt), state = "RUNNING",
         Links(now, hunt), signalFor' = Unset, comboAge' = CappedAdd(comboAge, dt, Settle),
         UNCHANGED <<configVars, state, tried, saved>>
  PROVE  IInv'
<1>1. TypeOK /\ now \in LinkRecord /\ hunt \in HuntRecord
  BY TickOther DEF TickCase
<1>2. LinkTyped' /\ HuntTyped'
  BY <1>1, LinksTyped
<1>3. Unset \in Unset .. Debounce
  BY ConstantFacts DEF Unset
<1>4. TypeOK'
  BY <1>1, <1>2, <1>3, TickOther
     DEF configVars, ConfigTyped, TrialTyped, LinkTyped, HuntTyped,
           OtherTyped, TypeOK
<1> QED
  BY <1>4, TickOther
     DEF TickCase, IInv, SuccessIsHeard, OldSignalAges, SavedIsSetup, RestoredAfterTrial, configVars

(* Applying a combo keeps the types and starts its timers. *)
LEMMA ApplyComboTyped ==
  ASSUME TypeOK, NEW c \in Combo, NEW now \in LinkRecord, ApplyCombo(c, now)
  PROVE  /\ wiring' \in Combo /\ LinkTyped' /\ HuntTyped'
         /\ comboAge' \in 0 .. Settle /\ signalFor' = Unset /\ signalFor' \in Unset .. Debounce
<1>1. LinkTyped' /\ HuntTyped' /\ wiring' = c /\ comboAge' = 0 /\ signalFor' = Unset
  BY ReinitTyped DEF ApplyCombo
<1>2. 0 \in 0 .. Settle /\ Unset \in Unset .. Debounce
  BY ConstantFacts DEF Unset
<1> QED BY <1>1, <1>2

(* A combo that is given up: the next one, or the end of the trial. *)
LEMMA TickGivesUp ==
  ASSUME NEW dt, NEW now, NEW hunt, TickCase(dt, now, hunt), state = "RUNNING", GiveUp(now)
  PROVE  IInv'
<1>1. TypeOK /\ now \in LinkRecord
  BY TickOther DEF TickCase
<1>2. CASE Untried(tried, saved.wiring) = {}
  BY <1>2, TickEnds DEF GiveUp
<1>3. CASE Untried(tried, saved.wiring) # {}
  <2> DEFINE c == NextCombo(tried, saved.wiring)
  <2>1. saved.wiring \in Combo
    BY <1>1 DEF TypeOK
  <2>2. c \in Combo
    BY <1>3, <2>1, NextComboExists
  <2>3. /\ ApplyCombo(c, now) /\ tried' = tried \cup {c}
        /\ UNCHANGED <<altBaud, state, saved>>
    BY <1>3 DEF GiveUp
  <2> HIDE DEF c
  <2>4. /\ wiring' \in Combo /\ LinkTyped' /\ HuntTyped'
        /\ comboAge' \in 0 .. Settle /\ signalFor' = Unset /\ signalFor' \in Unset .. Debounce
    BY <1>1, <2>2, <2>3, ApplyComboTyped
  <2>5. TypeOK'
    BY <1>1, <2>2, <2>3, <2>4, TickOther
       DEF ConfigTyped, TrialTyped, LinkTyped, HuntTyped,
           OtherTyped, TypeOK
  <2> QED
    BY <2>3, <2>4, <2>5, TickOther
       DEF TickCase, IInv, SuccessIsHeard, OldSignalAges, SavedIsSetup, RestoredAfterTrial
<1> QED BY <1>2, <1>3

(* The frame check, with the tick and the baud hunt in it. *)
LEMMA FrameCheckKeeps ==
  ASSUME IInv, NEW dt \in 1 .. MaxStep, rxFrameCheck(dt)
  PROVE  IInv'
<1> DEFINE now == Receive(dt, IF Main THEN Hold ELSE BackupHold)
           hunt == BaudService(dt, Frame)
<1>1. TypeOK /\ Frame \in BOOLEAN
  BY FrameBool DEF IInv
<1>2. /\ now \in LinkRecord
      /\ ~Frame /\ ~leftover /\ now.signal => now.age = sinceFrame + dt /\ sinceFrame + dt <= Hold
  BY <1>1, ReceiveFacts
<1>3. hunt \in HuntRecord
  BY <1>1, HuntFacts
<1>4. Tick(dt, now, hunt) /\ UNCHANGED <<setup, on, speed, armed, historyVars>>
  BY DEF rxFrameCheck
<1> HIDE DEF now, hunt
<1>5. TickCase(dt, now, hunt)
  BY <1>2, <1>3, <1>4 DEF TickCase
<1>6. CASE /\ state # "RUNNING" /\ Links(now, hunt)
           /\ UNCHANGED <<configVars, state, tried, comboAge, signalFor, saved>>
  BY <1>5, <1>6, TickIdle
<1>7. CASE /\ state = "RUNNING" /\ Restore(now) /\ state' = "IDLE"
           /\ UNCHANGED <<tried, comboAge, signalFor, saved>>
  BY <1>5, <1>7, TickEnds
<1>8. CASE /\ state = "RUNNING" /\ now.signal
           /\ signalFor' = IF signalFor = Unset THEN 0 ELSE CappedAdd(signalFor, dt, Debounce)
           /\ comboAge' = CappedAdd(comboAge, dt, Settle)
           /\ state' = IF signalFor # Unset
                          /\ Debounced(IF signalFor = Unset THEN 0
                                       ELSE CappedAdd(signalFor, dt, Debounce))
                       THEN "SUCCESS" ELSE state
           /\ Links(now, hunt) /\ UNCHANGED <<configVars, tried, saved>>
  BY <1>5, <1>8, TickDebounces
<1>9. CASE state = "RUNNING" /\ GiveUp(now)
  BY <1>5, <1>9, TickGivesUp
<1>10. CASE /\ state = "RUNNING" /\ Links(now, hunt)
            /\ signalFor' = Unset /\ comboAge' = CappedAdd(comboAge, dt, Settle)
            /\ UNCHANGED <<configVars, state, tried, saved>>
  BY <1>5, <1>10, TickWaits
<1> QED BY <1>4, <1>6, <1>7, <1>8, <1>9, <1>10 DEF Tick

-----------------------------------------------------------------------------
(* The commands. *)

(* The start of a trial saves the wiring, or is refused. *)
LEMMA StartKeeps ==
  ASSUME IInv, Start
  PROVE  IInv'
<1>1. TypeOK /\ Link \in LinkRecord
  BY FrameBool DEF IInv
<1>2. OtherTyped' /\ pollAge' \in 0 .. Watchdog + 1
  <2>1. steady' \in BOOLEAN
    BY <1>1 DEF Start, TypeOK
  <2>2. undisturbed' \in BOOLEAN
    BY <1>1 DEF Start, TypeOK
  <2> QED BY <1>1, <2>1, <2>2, ConstantFacts DEF Start, OtherTyped, TypeOK
<1>3. CASE Rejected
  <2>1. /\ state' = "REJECTED" /\ undisturbed' = FALSE
        /\ UNCHANGED <<configVars, tried, comboAge, signalFor, saved, linkVars, huntVars>>
    BY <1>3 DEF Start
  <2>2. TypeOK'
    BY <1>1, <1>2, <2>1
       DEF configVars, linkVars, huntVars, ConfigTyped, TrialTyped, LinkTyped, HuntTyped,
           OtherTyped, TypeOK
  <2> QED BY <2>1, <2>2 DEF IInv, SuccessIsHeard, OldSignalAges, SavedIsSetup, RestoredAfterTrial
<1>4. CASE ~Rejected
  <2> DEFINE c == NextCombo({}, wiring)
  <2>1. /\ state' = "RUNNING" /\ saved' = [wiring |-> wiring, altBaud |-> altBaud]
        /\ altBaud' = FALSE /\ tried' = {wiring} /\ ApplyCombo(c, Link) /\ setup' = setup
        /\ undisturbed' => undisturbed /\ state \in {"IDLE", "FAILED"}
    BY <1>4 DEF Start
  <2>2. wiring \in Combo /\ altBaud \in BOOLEAN
    BY <1>1 DEF TypeOK
  <2>3. Untried({}, wiring) # {}
    <3>1. wiring \in Untried({}, wiring)
      BY <2>2 DEF Untried
    <3> QED BY <3>1
  <2>4. c \in Combo
    BY <2>2, <2>3, NextComboExists
  <2> HIDE DEF c
  <2>5. /\ wiring' \in Combo /\ LinkTyped' /\ HuntTyped'
        /\ comboAge' \in 0 .. Settle /\ signalFor' = Unset /\ signalFor' \in Unset .. Debounce
    BY <1>1, <2>1, <2>4, ApplyComboTyped
  <2>6. TypeOK'
    BY <1>2, <2>1, <2>2, <2>5
       DEF ConfigTyped, TrialTyped, LinkTyped, HuntTyped,
           OtherTyped, TypeOK
  <2>7. undisturbed' => wiring = setup.wiring /\ altBaud = setup.altBaud
    BY <2>1 DEF IInv, RestoredAfterTrial
  <2> QED
    BY <2>1, <2>5, <2>6, <2>7
       DEF IInv, SuccessIsHeard, OldSignalAges, SavedIsSetup, RestoredAfterTrial
<1> QED BY <1>3, <1>4

(* The stop of a trial puts the wiring back. *)
LEMMA StopKeeps ==
  ASSUME IInv, Stop
  PROVE  IInv'
<1>1. TypeOK /\ Link \in LinkRecord
  BY FrameBool DEF IInv
<1>2. /\ state # "IDLE" /\ state' = "IDLE" /\ pollAge' = 0
      /\ UNCHANGED <<setup, tried, comboAge, signalFor, saved, on, speed, armed, historyVars>>
  BY DEF Stop
<1>3. CASE Restore(Link)
  <2>1. /\ ConfigTyped' /\ LinkTyped' /\ HuntTyped'
        /\ wiring' = saved.wiring /\ altBaud' = saved.altBaud
    BY <1>1, <1>3, RestoreTyped
  <2>2. TypeOK'
    BY <1>1, <1>2, <2>1, ConstantFacts
       DEF historyVars, ConfigTyped, TrialTyped, LinkTyped, HuntTyped,
           OtherTyped, TypeOK
  <2> QED
    BY <1>2, <2>1, <2>2
       DEF IInv, SuccessIsHeard, OldSignalAges, SavedIsSetup, RestoredAfterTrial, historyVars
<1>4. CASE state = "REJECTED" /\ UNCHANGED <<configVars, linkVars, huntVars>>
  <2>1. TypeOK'
    BY <1>1, <1>2, <1>4, ConstantFacts DEF configVars, linkVars, huntVars, historyVars, TypeOK
  <2> QED
    BY <1>2, <1>4, <2>1
       DEF IInv, SuccessIsHeard, OldSignalAges, SavedIsSetup, RestoredAfterTrial, historyVars
<1> QED BY <1>3, <1>4 DEF Stop

-----------------------------------------------------------------------------
(* The invariant holds of every behaviour. *)
THEOREM IInvHolds == Spec => []IInv
<1>1. Init => IInv
  <2> SUFFICES ASSUME Init PROVE IInv
    OBVIOUS
  <2>1. setup.wiring \in Combo /\ setup.altBaud \in BOOLEAN
    BY SetupFacts DEF Init
  <2>2. {} \in Combo
    BY DEF Combo
  <2>3. TypeOK
    <3>1. ConfigTyped /\ OtherTyped
      BY <2>1 DEF Init, ConfigTyped, OtherTyped, Rate
    <3>2. TrialTyped
      <4>1. 0 \in 0 .. Settle /\ 0 \in 0 .. Watchdog + 1 /\ Unset \in Unset .. Debounce
        BY ConstantFacts DEF Unset
      <4> QED BY <2>2, <4>1 DEF Init, TrialTyped
    <3>3. LinkTyped /\ HuntTyped
      <4>1. 0 \in 0 .. LockFrames /\ 0 \in 0 .. Relock /\ Hold + 1 \in 0 .. Hold + 1
        BY ConstantFacts
      <4> QED BY <4>1 DEF Init, LinkTyped, HuntTyped, Rate
    <3> QED
      BY <3>1, <3>2, <3>3
         DEF ConfigTyped, TrialTyped, LinkTyped, HuntTyped,
           OtherTyped, TypeOK
  <2> QED BY <2>3 DEF Init, IInv, SuccessIsHeard, OldSignalAges, SavedIsSetup, RestoredAfterTrial
<1>2. IInv /\ [Next]_vars => IInv'
  <2> SUFFICES ASSUME IInv, [Next]_vars PROVE IInv'
    OBVIOUS
  <2>1. CASE Start
    BY <2>1, StartKeeps
  <2>2. CASE Stop
    BY <2>2, StopKeeps
  <2>3. CASE FrameCheck
    BY <2>3, FrameCheckKeeps DEF FrameCheck
  <2>4. CASE Poll \/ powerReceiver \/ armSwitch \/ UNCHANGED vars
    <3>1. /\ UNCHANGED <<setup, configVars, state, tried, comboAge, signalFor, saved,
                         linkVars, huntVars, undisturbed>>
          /\ pollAge' = pollAge \/ pollAge' = 0
      BY <2>4 DEF Poll, powerReceiver, armSwitch, vars, trialVars, historyVars
    <3>2. on' \in BOOLEAN /\ speed' \in Rate /\ armed' \in BOOLEAN /\ steady' \in BOOLEAN
      <4>1. CASE powerReceiver
        BY <4>1 DEF powerReceiver, IInv, TypeOK
      <4>2. CASE Poll \/ armSwitch \/ UNCHANGED vars
        BY <4>2 DEF Poll, armSwitch, vars, historyVars, IInv, TypeOK
      <4> QED BY <2>4, <4>1, <4>2
    <3>3. TypeOK'
      BY <3>1, <3>2, ConstantFacts DEF IInv, TypeOK, configVars, linkVars, huntVars
    <3> QED
      BY <3>1, <3>3 DEF IInv, SuccessIsHeard, OldSignalAges, SavedIsSetup, RestoredAfterTrial,
                        configVars, linkVars
  <2> QED BY <2>1, <2>2, <2>3, <2>4 DEF Next
<1> QED BY <1>1, <1>2, PTL DEF Spec

(* Every variable of the trial keeps its type. *)
THEOREM TypeCorrect == Spec => []TypeOK
<1>1. IInv => TypeOK
  BY DEF IInv
<1> QED BY <1>1, IInvHolds, PTL

(* A trial reports SUCCESS only for a combo the receiver was heard on, whatever
   the periods, as long as a signal is held for less than the debounce. *)
THEOREM SuccessTheorem == Spec => []SuccessIsHeard
<1>1. IInv => SuccessIsHeard
  BY DEF IInv
<1> QED BY <1>1, IInvHolds, PTL

(* A trial without a find leaves the configuration as it was before. *)
THEOREM RestoredTheorem == Spec => []RestoredAfterTrial
<1>1. IInv => RestoredAfterTrial
  BY DEF IInv
<1> QED BY <1>1, IInvHolds, PTL

-----------------------------------------------------------------------------
(* A receiver that is on all through a trial is found. *)

(* The periods of the search: a combo is given up only after the hunt has had
   the time to come to the receiver's speed. *)
LEMMA SettleFacts ==
  /\ HuntWindow \in Nat /\ HuntWindow > 0 /\ HuntWindow <= Relock
  /\ HuntWindow + MaxStep <= Settle
BY RxTrialAssumption

(* The wiring carries the signal. *)
Works(w) ==
  \E c \in setup.works : \/ c = w
                         \/ setup.ignoresHalfDuplex /\ c \ {"halfDuplex"} = w \ {"halfDuplex"}

Searching == state = "RUNNING" /\ steady = TRUE

(* The wirings that were tried before do not carry the signal. *)
TriedInVain ==
  Searching => /\ on = TRUE /\ setup.port = TRUE /\ altBaud = FALSE
               /\ \A c \in tried : c = wiring \/ ~Works(c)

(* On a wiring that does, the hunt is at the receiver's speed or in its first
   window since the combo began. *)
AtOtherSpeed == ~Main /\ setup.twoRates = TRUE /\ rate # speed

HuntKeepsUp ==
  Searching /\ Works(wiring) /\ AtOtherSpeed
    => locked = FALSE /\ eventAge = comboAge /\ comboAge < HuntWindow

SearchInv == TriedInVain /\ HuntKeepsUp

(* On such a wiring frames come, unless the hunt is at the other speed. *)
LEMMA FrameWhenItWorks ==
  ASSUME TypeOK, TriedInVain, Searching, Works(wiring)
  PROVE  Frame <=> ~AtOtherSpeed
<1>1. on = TRUE /\ setup.port = TRUE /\ altBaud = FALSE
  BY DEF TriedInVain
<1>2. setup.twoRates \in BOOLEAN
  BY RxTrialAssumption DEF TypeOK
<1> QED BY <1>1, <1>2 DEF Frame, Carries, Works, AtOtherSpeed

(* The first combo of a trial is the configured wiring. *)
LEMMA FirstCombo ==
  ASSUME NEW w \in Combo
  PROVE  NextCombo({}, w) = w
<1> DEFINE c == NextCombo({}, w)
<1>1. w \in Untried({}, w)
  BY DEF Untried
<1>2. c \in Combo /\ Before(c, w, w)
  BY <1>1, NextComboExists
<1> HIDE DEF c
<1>3. Distance(w, w) = 0
  <2>1. (w \ w) \cup (w \ w) = {}
    OBVIOUS
  <2> QED BY <2>1, FS_EmptySet DEF Distance
<1>4. Distance(c, w) = 0
  BY <1>2, <1>3, RankNat DEF Before
<1>5. IsFiniteSet((c \ w) \cup (w \ c))
  BY <1>2, DifferenceFinite
<1>6. (c \ w) \cup (w \ c) = {}
  BY <1>4, <1>5, FS_EmptySet DEF Distance
<1>7. c = w
  BY <1>6
<1> QED BY <1>7 DEF c

(* Between two frame checks the search stands still, and a receiver that is
   switched off ends it. *)
LEMMA OthersKeepSearch ==
  ASSUME TypeOK, SearchInv, Poll \/ powerReceiver \/ armSwitch \/ UNCHANGED vars
  PROVE  SearchInv'
<1>1. UNCHANGED <<setup, wiring, altBaud, state, tried, comboAge, rate, locked, eventAge>>
  BY DEF Poll, powerReceiver, armSwitch, vars, configVars, trialVars, huntVars
<1>2. CASE powerReceiver
  <2>1. steady' = (steady /\ on') /\ on' = ~on
    BY <1>2 DEF powerReceiver
  <2>2. Searching' => Searching /\ on = FALSE
    BY <1>1, <2>1 DEF Searching, TypeOK
  <2>3. ~Searching'
    BY <2>2 DEF SearchInv, TriedInVain
  <2> QED BY <2>3 DEF SearchInv, TriedInVain, HuntKeepsUp
<1>3. CASE Poll \/ armSwitch \/ UNCHANGED vars
  <2>1. UNCHANGED <<on, speed, steady>>
    BY <1>3 DEF Poll, armSwitch, vars, historyVars
  <2> QED BY <1>1, <2>1 DEF SearchInv, TriedInVain, HuntKeepsUp, Searching, Works, AtOtherSpeed, Main
<1> QED BY <1>2, <1>3

(* A combo begins with the hunt at the first speed and both clocks at zero. *)
LEMMA ComboStarts ==
  ASSUME NEW c, NEW now, ApplyCombo(c, now)
  PROVE  wiring' = c /\ HuntKeepsUp'
<1>1. wiring' = c /\ comboAge' = 0 /\ locked' = FALSE /\ eventAge' = 0
  BY DEF ApplyCombo, Reinit
<1> QED BY <1>1, SettleFacts DEF HuntKeepsUp

(* A trial begins with the configured wiring, and that alone is tried. *)
LEMMA StartKeepsSearch ==
  ASSUME TypeOK, Start
  PROVE  SearchInv'
<1>1. CASE Rejected
  <2>1. ~Searching'
    BY <1>1 DEF Start, Searching
  <2> QED BY <2>1 DEF SearchInv, TriedInVain, HuntKeepsUp
<1>2. CASE ~Rejected
  <2>1. /\ ApplyCombo(NextCombo({}, wiring), Link) /\ tried' = {wiring}
        /\ altBaud' = FALSE /\ steady' = on /\ UNCHANGED <<setup, on>>
    BY <1>2 DEF Start
  <2>2. NextCombo({}, wiring) = wiring
    BY FirstCombo DEF TypeOK
  <2>3. wiring' = wiring /\ HuntKeepsUp'
    BY <2>1, <2>2, ComboStarts
  <2>4. setup.port = TRUE
    <3>1. setup.port \in BOOLEAN /\ setup.port
      BY <1>2, RxTrialAssumption DEF Rejected, TypeOK
    <3> QED BY <3>1
  <2> QED BY <2>1, <2>3, <2>4 DEF SearchInv, TriedInVain, Searching
<1> QED BY <1>1, <1>2

(* What the hunt does while the wiring carries the signal: at the receiver's
   speed it stays there, at the other it counts its window or changes over. *)
LEMMA HuntOnWiring ==
  ASSUME TypeOK, SearchInv, Searching, Works(wiring), NEW dt \in 1 .. MaxStep,
         rate' = BaudService(dt, Frame).rate, locked' = BaudService(dt, Frame).locked,
         eventAge' = BaudService(dt, Frame).age, comboAge' = CappedAdd(comboAge, dt, Settle),
         UNCHANGED <<setup, speed>>, AtOtherSpeed'
  PROVE  locked' = FALSE /\ eventAge' = comboAge' /\ comboAge' < HuntWindow
<1> DEFINE idle == CappedAdd(eventAge, dt, Relock)
           good == CappedAdd(goodFrames, 1, LockFrames)
<1>1. /\ setup.port = TRUE /\ ~Main /\ setup.twoRates = TRUE
      /\ rate \in Rate /\ speed \in Rate
  BY DEF SearchInv, TriedInVain, AtOtherSpeed, Main, TypeOK
<1>2. Frame => rate = speed
  BY <1>1, FrameWhenItWorks DEF SearchInv, AtOtherSpeed
<1>3. ~Frame => rate # speed
  BY <1>1, FrameWhenItWorks DEF SearchInv, AtOtherSpeed
<1>4. rate' # speed
  BY DEF AtOtherSpeed
<1>5. Hunting.rate = rate /\ Hunting.locked = locked
  BY DEF Hunting
<1>6. ~Frame
  <2> SUFFICES ASSUME Frame PROVE FALSE
    OBVIOUS
  <2>1. BaudService(dt, Frame) = [Hunting EXCEPT !.age = 0, !.good = IF locked THEN @ ELSE good,
                                                 !.locked = (locked \/ good = LockFrames)]
    BY <1>1 DEF BaudService
  <2>2. BaudService(dt, Frame).rate = rate
    BY <2>1 DEF Hunting
  <2> QED BY <1>2, <1>4, <2>2
<1>7. locked = FALSE /\ eventAge = comboAge /\ comboAge < HuntWindow
  BY <1>1, <1>3, <1>6 DEF SearchInv, HuntKeepsUp, AtOtherSpeed
<1>8. CASE idle < HuntWindow
  <2>1. BaudService(dt, Frame) = [Hunting EXCEPT !.age = idle]
    BY <1>1, <1>6, <1>7, <1>8 DEF BaudService
  <2>2. BaudService(dt, Frame).locked = locked /\ BaudService(dt, Frame).age = idle
    BY <2>1 DEF Hunting
  <2>3. locked' = FALSE /\ eventAge' = idle
    BY <1>7, <2>2
  <2>4. idle = comboAge + dt /\ CappedAdd(comboAge, dt, Settle) = comboAge + dt
    <3>1. eventAge \in Nat /\ dt \in Nat /\ comboAge \in Nat /\ MaxStep \in Nat /\ dt <= MaxStep
      BY ConstantFacts DEF TypeOK
    <3>2. eventAge + dt > Relock => idle = Relock
      BY DEF CappedAdd
    <3>3. idle = eventAge + dt
      BY <1>8, <3>1, <3>2, ConstantFacts, SettleFacts DEF CappedAdd
    <3> QED BY <1>7, <1>8, <3>1, <3>3, ConstantFacts, SettleFacts DEF CappedAdd
  <2> QED BY <1>8, <2>3, <2>4
<1>9. CASE ~(idle < HuntWindow)
  <2>1. BaudService(dt, Frame) = OtherSpeed
    BY <1>1, <1>6, <1>7, <1>9 DEF BaudService
  <2>2. rate' = CHOOSE r \in Rate : r # rate
    BY <2>1 DEF OtherSpeed
  <2>3. rate' = speed
    BY <1>1, <1>3, <1>6, <2>2 DEF Rate
  <2> QED BY <1>4, <2>3
<1> QED BY <1>8, <1>9

(* A wiring that carries the signal is not given up. *)
LEMMA GivenUpInVain ==
  ASSUME TypeOK, SearchInv, Searching, NEW dt \in 1 .. MaxStep, NEW hold,
         ~Receive(dt, hold).signal, Settled(CappedAdd(comboAge, dt, Settle))
  PROVE  ~Works(wiring)
<1> SUFFICES ASSUME Works(wiring) PROVE FALSE
  OBVIOUS
<1>1. ~Frame
  BY DEF Receive
<1>2. AtOtherSpeed
  BY <1>1, FrameWhenItWorks DEF SearchInv
<1>3. comboAge < HuntWindow
  BY <1>2 DEF SearchInv, HuntKeepsUp
<1>4. comboAge \in Nat /\ dt \in Nat /\ MaxStep \in Nat /\ dt <= MaxStep
  BY ConstantFacts DEF TypeOK
<1>5. CappedAdd(comboAge, dt, Settle) <= comboAge + dt
  BY <1>4, ConstantFacts, CapBounds
<1>6. CappedAdd(comboAge, dt, Settle) >= Settle
  BY DEF Settled
<1>7. CappedAdd(comboAge, dt, Settle) \in Nat
  BY <1>4, ConstantFacts, CapBounds
<1> QED BY <1>3, <1>4, <1>5, <1>6, <1>7, ConstantFacts, SettleFacts

(* The last combo is given up only where no wiring carries the signal. *)
LEMMA AllTried ==
  ASSUME TypeOK, SearchInv, Searching, ~Works(wiring), Untried(tried, saved.wiring) = {}
  PROVE  setup.works = {}
<1> SUFFICES ASSUME NEW w \in setup.works PROVE FALSE
  OBVIOUS
<1>1. setup.works \subseteq Combo /\ setup.ignoresHalfDuplex \in BOOLEAN
  BY RxTrialAssumption DEF TypeOK
<1>2. \A c \in tried : ~Works(c)
  BY DEF SearchInv, TriedInVain
<1>3. \A c \in Combo : (setup.ignoresHalfDuplex => ("halfDuplex" \in c <=> "halfDuplex" \in saved.wiring))
                         => c \in tried
  BY DEF Untried
<1>4. CASE setup.ignoresHalfDuplex
  <2> DEFINE c == IF "halfDuplex" \in saved.wiring THEN w \cup {"halfDuplex"} ELSE w \ {"halfDuplex"}
  <2>1. c \in Combo
    BY <1>1 DEF Combo, Bit
  <2>2. "halfDuplex" \in c <=> "halfDuplex" \in saved.wiring
    OBVIOUS
  <2>3. w \ {"halfDuplex"} = c \ {"halfDuplex"}
    OBVIOUS
  <2>4. Works(c)
    BY <1>4, <2>3 DEF Works
  <2> HIDE DEF c
  <2> QED BY <1>2, <1>3, <2>1, <2>2, <2>4
<1>5. CASE ~setup.ignoresHalfDuplex
  <2>1. w \in tried
    BY <1>1, <1>3, <1>5
  <2>2. Works(w)
    BY DEF Works
  <2> QED BY <1>2, <2>1, <2>2
<1> QED BY <1>4, <1>5

(* A frame check with the same combo goes on with the hunt. *)
LEMMA ComboKeepsSearch ==
  ASSUME TypeOK, SearchInv, Searching, NEW dt \in 1 .. MaxStep, NEW now,
         Links(now, BaudService(dt, Frame)), comboAge' = CappedAdd(comboAge, dt, Settle),
         UNCHANGED <<configVars, tried, saved, setup, on, speed, armed, historyVars>>
  PROVE  SearchInv'
<1>1. /\ UNCHANGED <<setup, speed, on, wiring, altBaud, tried, steady>>
      /\ rate' = BaudService(dt, Frame).rate /\ locked' = BaudService(dt, Frame).locked
      /\ eventAge' = BaudService(dt, Frame).age
  BY DEF Links, configVars, historyVars
<1>2. TriedInVain'
  BY <1>1 DEF SearchInv, TriedInVain, Works
<1>3. HuntKeepsUp'
  <2> SUFFICES ASSUME Works(wiring)', AtOtherSpeed'
               PROVE  locked' = FALSE /\ eventAge' = comboAge' /\ comboAge' < HuntWindow
    BY DEF HuntKeepsUp
  <2>1. Works(wiring)
    BY <1>1 DEF Works
  <2> QED BY <1>1, <2>1, HuntOnWiring
<1> QED BY <1>2, <1>3 DEF SearchInv

(* A combo that is given up did not carry the signal; nothing is said of the next. *)
LEMMA NextKeepsSearch ==
  ASSUME TypeOK, SearchInv, Searching, NEW dt \in 1 .. MaxStep, NEW hold,
         ~Receive(dt, hold).signal, Settled(CappedAdd(comboAge, dt, Settle)), NEW now, GiveUp(now),
         UNCHANGED <<setup, on, speed, armed, historyVars>>
  PROVE  SearchInv' /\ (state' = "FAILED" => setup.works = {})
<1>1. ~Works(wiring)
  BY GivenUpInVain
<1>2. CASE Untried(tried, saved.wiring) = {}
  <2>1. state' = "FAILED"
    BY <1>2 DEF GiveUp
  <2> QED BY <1>1, <1>2, <2>1, AllTried DEF SearchInv, TriedInVain, HuntKeepsUp, Searching
<1>3. CASE Untried(tried, saved.wiring) # {}
  <2> DEFINE c == NextCombo(tried, saved.wiring)
  <2>1. ApplyCombo(c, now) /\ tried' = tried \cup {c} /\ UNCHANGED <<altBaud, state>>
    BY <1>3 DEF GiveUp
  <2> HIDE DEF c
  <2>2. wiring' = c /\ HuntKeepsUp'
    BY <2>1, ComboStarts
  <2>3. \A x \in tried : ~Works(x)
    BY <1>1 DEF SearchInv, TriedInVain
  <2>4. TriedInVain'
    BY <2>1, <2>2, <2>3 DEF SearchInv, TriedInVain, Searching, Works, historyVars
  <2> QED BY <2>1, <2>2, <2>4 DEF SearchInv, Searching
<1> QED BY <1>2, <1>3

(* The frame check. *)
LEMMA FrameCheckKeepsSearch ==
  ASSUME TypeOK, SearchInv, NEW dt \in 1 .. MaxStep, rxFrameCheck(dt)
  PROVE  SearchInv' /\ (Searching /\ state' = "FAILED" => setup.works = {})
<1> DEFINE hold == IF Main THEN Hold ELSE BackupHold
           now  == Receive(dt, hold)
           hunt == BaudService(dt, Frame)
<1>1. Tick(dt, now, hunt) /\ UNCHANGED <<setup, on, speed, armed, historyVars>>
  BY DEF rxFrameCheck
<1>2. CASE ~Searching
  <2>1. (state # "RUNNING" => state' = state) /\ (state = "RUNNING" => steady' # TRUE)
    BY <1>1, <1>2 DEF Tick, Searching, historyVars
  <2>2. ~Searching'
    BY <2>1 DEF Searching
  <2> QED BY <1>2, <2>2 DEF SearchInv, TriedInVain, HuntKeepsUp
<1>3. CASE Searching
  <2>1. CASE state' = "IDLE"
    BY <2>1 DEF SearchInv, TriedInVain, HuntKeepsUp, Searching
  <2>2. CASE /\ Links(now, hunt) /\ comboAge' = CappedAdd(comboAge, dt, Settle)
             /\ state' # "FAILED" /\ UNCHANGED <<configVars, tried, saved>>
    BY <1>1, <1>3, <2>2, ComboKeepsSearch
  <2>3. CASE ~now.signal /\ Settled(CappedAdd(comboAge, dt, Settle)) /\ GiveUp(now)
    BY <1>1, <1>3, <2>3, NextKeepsSearch
  <2> HIDE DEF now, hunt
  <2>4. state = "RUNNING"
    BY <1>3 DEF Searching
  <2> QED BY <1>1, <2>1, <2>2, <2>3, <2>4 DEF Tick
<1> QED BY <1>2, <1>3

(* Every step. *)
LEMMA StepKeepsSearch ==
  ASSUME TypeOK, SearchInv, [Next]_vars
  PROVE  SearchInv' /\ (Searching /\ state' = "FAILED" => setup.works = {})
<1>1. CASE Start
  <2>1. state # "RUNNING"
    BY <1>1 DEF Start
  <2> QED BY <1>1, <2>1, StartKeepsSearch DEF Searching
<1>2. CASE Stop
  <2>1. state' = "IDLE"
    BY <1>2 DEF Stop
  <2> QED BY <2>1 DEF SearchInv, TriedInVain, HuntKeepsUp, Searching
<1>3. CASE FrameCheck
  BY <1>3, FrameCheckKeepsSearch DEF FrameCheck
<1>4. CASE Poll \/ powerReceiver \/ armSwitch \/ UNCHANGED vars
  <2>1. state' = state
    BY <1>4 DEF Poll, powerReceiver, armSwitch, vars, trialVars
  <2> QED BY <1>4, <2>1, OthersKeepSearch DEF Searching
<1> QED BY <1>1, <1>2, <1>3, <1>4 DEF Next

(* A trial fails with the receiver on from its beginning to its end only where no
   wiring carries the signal: every one is tried, and none is given up before the
   debounce, the baud hunt included, could have ended. *)
THEOREM SteadyReceiverTheorem == Spec => SteadyReceiverIsFound
<1>1. Init => SearchInv
  BY DEF Init, SearchInv, TriedInVain, HuntKeepsUp, Searching
<1>2. TypeOK /\ SearchInv /\ [Next]_vars => SearchInv'
  BY StepKeepsSearch
<1>3. TypeOK /\ SearchInv /\ [Next]_vars
        => [state = "RUNNING" /\ state' = "FAILED" => ~steady \/ setup.works = {}]_vars
  BY StepKeepsSearch DEF Searching, TypeOK
<1> QED BY <1>1, <1>2, <1>3, TypeCorrect, PTL DEF Spec, SteadyReceiverIsFound
=============================================================================
