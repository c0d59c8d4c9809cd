------------------------- MODULE ConfigStore_proofs -------------------------
(***************************************************************************)
(* ConfigStore for every layout, every division into pages and any set of  *)
(* values: its types, that a valid store is the last completed save, and   *)
(* that the store is left alone in flight.                                 *)
(*                                                                         *)
(* The footer is the key: the word at Last is written only by a save whose *)
(* every earlier word succeeded, so its checksum is over the configuration *)
(* that `stored' remembers; whatever is written or erased after that, the  *)
(* store is valid only if its records are the ones the footer was          *)
(* computed from.                                                          *)
(***************************************************************************)
EXTENDS ConfigStore, TLAPS

Saving == [origin : {"boot", "msp", "delayed"}, attempt : Attempts,
           next : Nat, err : BOOLEAN]

Typed ==
    /\ at \in {"OFF", "BOOT", "RUN", "WRITE", "RESET", "FAILURE"}
    /\ ram \in Config /\ (hash = NoHash \/ hash \in Config)
    /\ dirty \in BOOLEAN /\ armed \in BOOLEAN
    /\ queue \subseteq {"delayed", "msp"}
    /\ version \in [Group -> Version]
    /\ stored = NoHash \/ stored \in Config

FlashTyped == \A i \in Words : flash[i].is \in {"erased", "header", "record", "checksum"}

\* A save under way.
WriterTyped == at = "WRITE" => writer \in Saving /\ writer.next <= Last + 1

\* The checksum in the footer is over the configuration stored last.
FooterIsStored ==
    flash[Last].is = "checksum" =>
      /\ stored \in Config
      /\ \A i \in 1 .. Len(Layout) : /\ flash[Last].of[i].group = Layout[i]
                                     /\ flash[Last].of[i].value = stored[Layout[i]]

\* No save is under way in flight.
Grounded == at \in {"BOOT", "WRITE"} => ~armed

IInv == Typed /\ FlashTyped /\ WriterTyped /\ FooterIsStored /\ Grounded

-----------------------------------------------------------------------------
\* The store begins with the header and ends with the checksum.
LEMMA LayoutFacts ==
    /\ Len(Layout) \in Nat /\ Last \in Nat /\ Last > 1
    /\ Last \in Words /\ 0 \in Words /\ 1 .. Len(Layout) \subseteq Words
<1>1. Len(Layout) \in Nat /\ \E i \in 1 .. Len(Layout) : Layout[i] = System
  BY ConfigAssumption DEF ConfigAssumption, Group
<1> QED
  BY <1>1 DEF Last, Words

\* The configurations the model names are configurations.
LEMMA ConfigsTyped ==
    /\ Defaults \in Config
    /\ ram \in Config => UserConfig \in Config /\ Changes \subseteq Config
  BY ConfigAssumption DEF ConfigAssumption, Defaults, Config, UserConfig, Changes

\* A group's record is one of the store's.
LEMMA RecordOfGroup ==
    ASSUME NEW g \in Group
    PROVE  RecordOf(g) \in 1 .. Len(Layout) /\ Layout[RecordOf(g)] = g
  BY DEF Group, RecordOf

\* A valid store has the records its footer was computed from.
LEMMA ValidRecords ==
    ASSUME IInv, Valid
    PROVE  /\ stored \in Config
           /\ \A i \in 1 .. Len(Layout) : /\ flash[i].group = Layout[i]
                                          /\ flash[i].value = stored[Layout[i]]
<1>1. flash[Last] = [is |-> "checksum", of |-> [i \in 1 .. Len(Layout) |-> flash[i]]]
  BY DEF Valid, Checksum
<1>2. flash[Last].is = "checksum" /\ \A i \in 1 .. Len(Layout) : flash[Last].of[i] = flash[i]
  BY <1>1
<1> QED
  BY <1>2 DEF IInv, FooterIsStored

\* A store that passes its checks loads as a configuration.
LEMMA LoadedTyped ==
    ASSUME IInv, Valid
    PROVE  Loaded \in Config
<1>1. ASSUME NEW g \in Group PROVE flash[RecordOf(g)].value \in Value
  BY RecordOfGroup, ValidRecords DEF Config
<1> QED
  BY <1>1, ConfigAssumption DEF Loaded, Config, ConfigAssumption

\* What an action that leaves the flash alone has to show.
LEMMA FlashAlone ==
    ASSUME IInv, UNCHANGED <<flash, stored>>, Typed', WriterTyped', Grounded'
    PROVE  IInv'
  BY DEF IInv, FlashTyped, FooterIsStored

\* The return into the caller, with a valid store.
LEMMA SavedIInv ==
    ASSUME IInv, Valid, ~armed,
           NEW origin \in {"boot", "msp", "delayed"}, NEW config \in Config, NEW hashes,
           hashes = NoHash \/ hashes \in Config,
           Saved(origin, config, hashes), UNCHANGED <<flash, stored, armed, version>>,
           queue' \subseteq {"delayed", "msp"}
    PROVE  IInv'
<1>1. ram' \in Config /\ (hash' = NoHash \/ hash' \in Config)
  BY LoadedTyped DEF Saved
<1>2. at' \in {"RESET", "RUN"} /\ dirty' = FALSE
  BY DEF Saved
<1>3. Typed'
  BY <1>1, <1>2 DEF IInv, Typed
<1>4. WriterTyped' /\ Grounded'
  BY <1>2 DEF WriterTyped, Grounded
<1> QED
  BY <1>3, <1>4, FlashAlone

\* The start of an attempt, whoever asks for it.
LEMMA BeginSaveIInv ==
    ASSUME IInv, ~armed,
           NEW origin \in {"boot", "msp", "delayed"}, NEW attempt \in Attempts,
           NEW config \in Config, NEW hashes, hashes = NoHash \/ hashes \in Config,
           BeginSave(origin, attempt, config, hashes), UNCHANGED <<armed, version>>,
           queue' \subseteq {"delayed", "msp"}
    PROVE  IInv'
<1>1. UNCHANGED <<flash, stored>>
  BY DEF BeginSave
<1>2. CASE Valid /\ Unchanged(config, hashes)
  BY <1>1, <1>2, SavedIInv DEF BeginSave
<1>3. CASE ~(Valid /\ Unchanged(config, hashes))
  <2>1. /\ at' = "WRITE" /\ writer' = NewSave(origin, attempt)
        /\ ram' = config /\ hash' = hashes /\ dirty' = dirty
    BY <1>3 DEF BeginSave
  <2>2. Typed'
    BY <2>1, <1>1 DEF IInv, Typed
  <2>3. WriterTyped'
    BY <2>1, LayoutFacts DEF WriterTyped, NewSave, Saving
  <2>4. Grounded'
    BY DEF Grounded
  <2> QED
    BY <1>1, <2>2, <2>3, <2>4, FlashAlone
<1> QED
  BY <1>2, <1>3

-----------------------------------------------------------------------------
\* Programming a word touches no other word, but may erase the rest of a page.
LEMMA ProgrammedWords ==
    ASSUME NEW address \in Nat, NEW word, NEW i \in Words
    PROVE  /\ i = address => Programmed(address, word)[i] = word
           /\ i # address => Programmed(address, word)[i] \in {flash[i], Erased}
  BY DEF Programmed

\* Every word a save writes is of one of the kinds of the store.
LEMMA WordTyped ==
    ASSUME NEW n \in 0 .. Last
    PROVE  Word(n).is \in {"erased", "header", "record", "checksum"}
<1>1. CASE n = 0
  BY <1>1 DEF Word, Header
<1>2. CASE n = Last /\ n # 0
  BY <1>2 DEF Word, Checksum
<1>3. CASE n # 0 /\ n # Last
  <2>1. n \in 1 .. Len(Layout)
    BY <1>3, LayoutFacts DEF Last
  <2> QED
    BY <1>3, <2>1 DEF Word, Records, Record
<1> QED
  BY <1>1, <1>2, <1>3

\* A word that is written: the footer is over what the attempt wrote before it.
LEMMA WriteWordIInv == IInv /\ WriteWord => IInv'
<1> SUFFICES ASSUME IInv, WriteWord PROVE IInv'
  OBVIOUS
<1>1. /\ at = "WRITE" /\ at' = "WRITE" /\ writer \in Saving
      /\ writer.next <= Last /\ writer.next \in Nat
  BY DEF WriteWord, Writing, IInv, WriterTyped, Saving
<1>2. UNCHANGED <<at, ram, hash, dirty, queue, armed, version>>
  BY DEF WriteWord
<1>3. stored' = IF writer.next = Last THEN ram ELSE stored
  BY DEF WriteWord
<1>4. flash' = Programmed(writer.next, Word(writer.next))
  BY DEF WriteWord
<1>5. Typed'
  BY <1>2, <1>3 DEF IInv, Typed
<1>6. FlashTyped'
  <2> SUFFICES ASSUME NEW i \in Words
               PROVE  flash'[i].is \in {"erased", "header", "record", "checksum"}
    BY DEF FlashTyped
  <2>1. CASE i = writer.next
    <3>1. flash'[i] = Word(writer.next)
      BY <1>4, <2>1 DEF Programmed
    <3> QED
      BY <1>1, <3>1, WordTyped, LayoutFacts
  <2>2. CASE i # writer.next
    BY <1>1, <1>4, <2>2, ProgrammedWords DEF IInv, FlashTyped, Erased
  <2> QED
    BY <2>1, <2>2
<1>7. WriterTyped'
  <2>1. writer' = [writer EXCEPT !.next = @ + 1]
    BY DEF WriteWord
  <2>2. writer.next + 1 \in Nat
    BY <1>1
  <2>3. writer' \in Saving
    BY <1>1, <2>1, <2>2, Zenon DEF Saving
  <2>4. writer'.next = writer.next + 1
    BY <1>1, <2>1 DEF Saving
  <2> QED
    BY <1>1, <2>3, <2>4, LayoutFacts DEF WriterTyped
<1>8. FooterIsStored'
  <2>1. CASE writer.next = Last
    <3>1. stored' = ram
      BY <1>1, <1>3, <2>1, LayoutFacts
    <3>2. flash'[Last] = Word(Last)
      BY <1>4, <2>1, <3>1, LayoutFacts DEF Programmed
    <3>3. flash'[Last] = [is |-> "checksum", of |-> Records]
      BY <3>2, LayoutFacts DEF Word, Checksum
    <3>4. \A i \in 1 .. Len(Layout) : /\ Records[i].group = Layout[i]
                                      /\ Records[i].value = ram[Layout[i]]
      BY DEF Records, Record
    <3> QED
      BY <3>1, <3>3, <3>4 DEF FooterIsStored, IInv, Typed
  <2>2. CASE writer.next # Last
    <3>1. flash'[Last] \in {flash[Last], Erased}
      BY <1>1, <1>4, <2>2, ProgrammedWords, LayoutFacts
    <3>2. stored' = stored
      BY <1>3, <2>2
    <3> QED
      BY <3>1, <3>2 DEF FooterIsStored, IInv, Erased
  <2> QED
    BY <2>1, <2>2
<1>9. Grounded'
  BY <1>2 DEF IInv, Grounded
<1> QED
  BY <1>5, <1>6, <1>7, <1>8, <1>9 DEF IInv

\* A word that fails: no footer comes of the attempt.
LEMMA FailWordIInv == IInv /\ FailWord => IInv'
<1> SUFFICES ASSUME IInv, FailWord PROVE IInv'
  OBVIOUS
<1>1. /\ at = "WRITE" /\ writer \in Saving
      /\ writer.next <= Last + 1 /\ writer.next \in Nat
  BY DEF FailWord, Writing, IInv, WriterTyped, Saving
<1>2. UNCHANGED <<at, ram, hash, dirty, stored, queue, armed, version>>
  BY DEF FailWord
<1>3. \A i \in Words : flash'[i] \in {flash[i], Erased}
  <2>1. flash' \in {flash, Programmed(writer.next, Erased)}
    BY DEF FailWord
  <2> QED
    BY <2>1 DEF Programmed
<1>4. Typed' /\ Grounded'
  BY <1>2 DEF IInv, Typed, Grounded
<1>5. FlashTyped'
  BY <1>3 DEF IInv, FlashTyped, Erased
<1>6. WriterTyped'
  <2>1. writer' = [writer EXCEPT !.err = TRUE]
    BY DEF FailWord
  <2>2. writer' \in Saving /\ writer'.next = writer.next
    BY <1>1, <2>1 DEF Saving
  <2> QED
    BY <1>1, <2>2 DEF WriterTyped
<1>7. FooterIsStored'
  <2>1. flash'[Last] \in {flash[Last], Erased}
    BY <1>3, LayoutFacts
  <2> QED
    BY <1>2, <2>1 DEF FooterIsStored, IInv, Erased
<1> QED
  BY <1>4, <1>5, <1>6, <1>7 DEF IInv

\* The end of an attempt, and the next one.
LEMMA EndSaveIInv == IInv /\ EndSave => IInv'
<1> SUFFICES ASSUME IInv, EndSave PROVE IInv'
  OBVIOUS
<1>1. /\ at = "WRITE" /\ ~armed /\ writer \in Saving
      /\ ram \in Config /\ (hash = NoHash \/ hash \in Config)
      /\ UNCHANGED <<queue, armed, version>> /\ queue' \subseteq {"delayed", "msp"}
  BY DEF EndSave, IInv, Typed, WriterTyped, Grounded
<1>2. writer.origin \in {"boot", "msp", "delayed"}
  BY <1>1 DEF Saving
<1>3. CASE Complete /\ Saved(writer.origin, ram, hash) /\ UNCHANGED <<flash, stored>>
  <2>1. Valid
    BY <1>3 DEF Complete
  <2> QED
    BY <1>1, <1>2, <1>3, <2>1, SavedIInv
<1>4. CASE Retries /\ BeginSave(writer.origin, writer.attempt + 1, ram, hash)
  <2>1. writer.attempt + 1 \in Attempts
    BY <1>4 DEF Retries
  <2> QED
    BY <1>1, <1>2, <1>4, <2>1, BeginSaveIInv
<1>5. CASE /\ ~Retries /\ ~Complete
           /\ at' = "FAILURE" /\ writer' = NoSave
           /\ UNCHANGED <<flash, ram, hash, dirty, stored>>
  <2>1. Typed' /\ WriterTyped' /\ Grounded'
    BY <1>1, <1>5 DEF IInv, Typed, WriterTyped, Grounded
  <2> QED
    BY <1>5, <2>1, FlashAlone
<1> QED
  BY <1>3, <1>4, <1>5 DEF EndSave

\* The boot loads, resets, or saves.
LEMMA BootIInv == IInv /\ Boot => IInv'
<1> SUFFICES ASSUME IInv, Boot PROVE IInv'
  OBVIOUS
<1>1. /\ at = "BOOT" /\ ~armed /\ (hash = NoHash \/ hash \in Config)
      /\ UNCHANGED <<queue, armed, version>> /\ queue' \subseteq {"delayed", "msp"}
  BY DEF Boot, IInv, Typed, Grounded
<1>2. CASE Valid /\ \A g \in Group : Loadable(g)
  <2>1. /\ at' = "RUN" /\ ram' = Loaded /\ hash' = Loaded
        /\ UNCHANGED <<flash, dirty, writer, stored>>
    BY <1>2 DEF Boot
  <2>2. Typed'
    BY <1>1, <1>2, <2>1, LoadedTyped DEF IInv, Typed
  <2>3. WriterTyped' /\ Grounded'
    BY <2>1 DEF WriterTyped, Grounded
  <2> QED
    BY <2>1, <2>2, <2>3, FlashAlone
<1>3. CASE ~(Valid /\ \A g \in Group : Loadable(g))
  <2> DEFINE hashes == IF Valid THEN Loaded ELSE hash
  <2>1. hashes = NoHash \/ hashes \in Config
    BY <1>1, LoadedTyped
  <2>2. BeginSave("boot", 1, Defaults, hashes)
    BY <1>3 DEF Boot
  <2>3. 1 \in Attempts
    BY DEF Attempts
  <2> HIDE DEF hashes
  <2> QED
    BY <1>1, <2>1, <2>2, <2>3, BeginSaveIInv, ConfigsTyped
<1> QED
  BY <1>2, <1>3

\* The saves the pilot's tools and the dispatcher start.
LEMMA SavesIInv == IInv /\ (MspSave \/ dispatchConfigWrite \/ writeReadEeprom) => IInv'
<1> SUFFICES ASSUME IInv, MspSave \/ dispatchConfigWrite \/ writeReadEeprom PROVE IInv'
  OBVIOUS
<1>1. /\ at = "RUN" /\ ram \in Config /\ UserConfig \in Config
      /\ hash = NoHash \/ hash \in Config
      /\ queue \subseteq {"delayed", "msp"} /\ 1 \in Attempts
  BY ConfigsTyped DEF MspSave, dispatchConfigWrite, writeReadEeprom, IInv, Typed, Attempts
<1>2. ASSUME UNCHANGED saveVars \/ (dirty' = TRUE /\ UNCHANGED <<at, flash, ram, hash, writer, stored>>),
             UNCHANGED <<armed, version>>, queue' \subseteq {"delayed", "msp"}
      PROVE  IInv'
  <2>1. Typed' /\ WriterTyped' /\ Grounded' /\ UNCHANGED <<flash, stored>>
    BY <1>1, <1>2 DEF IInv, Typed, WriterTyped, Grounded, saveVars
  <2> QED
    BY <2>1, FlashAlone
<1>3. CASE MspSave
  <2>1. UNCHANGED <<armed, version>>
    BY <1>3 DEF MspSave
  <2>2. CASE ~armed /\ BeginSave("msp", 1, UserConfig, hash) /\ UNCHANGED queue
    BY <1>1, <2>1, <2>2, BeginSaveIInv
  <2> QED
    BY <1>1, <1>2, <1>3, <2>1, <2>2 DEF MspSave
<1>4. CASE dispatchConfigWrite
  BY <1>1, <1>4, BeginSaveIInv DEF dispatchConfigWrite
<1>5. CASE writeReadEeprom
  <2>1. UNCHANGED <<armed, version>> /\ queue' \subseteq {"delayed", "msp"}
    BY <1>1, <1>5 DEF writeReadEeprom
  <2>2. CASE ~armed
    BY <1>1, <1>5, <2>1, <2>2, BeginSaveIInv DEF writeReadEeprom
  <2>3. CASE armed
    BY <1>2, <1>5, <2>1, <2>3 DEF writeReadEeprom
  <2> QED
    BY <2>2, <2>3
<1> QED
  BY <1>3, <1>4, <1>5

\* The steps that leave the store and the writer alone.
LEMMA OthersIInv ==
    IInv /\ (PowerUp \/ PowerLoss \/ Update \/ Adjust \/ Set \/ Arm \/ Disarm
             \/ UNCHANGED vars) => IInv'
<1> SUFFICES ASSUME IInv, PowerUp \/ PowerLoss \/ Update \/ Adjust \/ Set \/ Arm \/ Disarm
                          \/ UNCHANGED vars
             PROVE  IInv'
  OBVIOUS
<1>1. CASE PowerUp
  <2>1. Typed' /\ WriterTyped' /\ Grounded' /\ UNCHANGED <<flash, stored>>
    BY <1>1, ConfigsTyped DEF PowerUp, IInv, Typed, WriterTyped, Grounded
  <2> QED
    BY <2>1, FlashAlone
<1>2. CASE PowerLoss
  <2>1. Typed' /\ WriterTyped' /\ Grounded' /\ UNCHANGED <<flash, stored>>
    BY <1>2 DEF PowerLoss, IInv, Typed, WriterTyped, Grounded
  <2> QED
    BY <2>1, FlashAlone
<1>3. CASE Update
  <2>1. version' \in [Group -> Version]
    BY <1>3 DEF Update, IInv, Typed
  <2>2. UNCHANGED <<saveVars, queue, armed>>
    BY <1>3 DEF Update
  <2>3. Typed' /\ WriterTyped' /\ Grounded' /\ UNCHANGED <<flash, stored>>
    BY <2>1, <2>2 DEF IInv, Typed, WriterTyped, Grounded, saveVars
  <2> QED
    BY <2>3, FlashAlone
<1>4. CASE Adjust \/ Set
  <2>1. ram' \in Config
    BY <1>4, ConfigsTyped DEF Adjust, Set, IInv, Typed
  <2>2. /\ at = "RUN" /\ dirty' \in BOOLEAN
        /\ UNCHANGED <<at, flash, hash, writer, stored, queue, armed, version>>
    BY <1>4 DEF Adjust, Set, IInv, Typed
  <2>3. Typed' /\ WriterTyped' /\ Grounded' /\ UNCHANGED <<flash, stored>>
    BY <2>1, <2>2 DEF IInv, Typed, WriterTyped, Grounded
  <2> QED
    BY <2>3, FlashAlone
<1>5. CASE Arm \/ Disarm
  <2>1. /\ at = "RUN" /\ armed' \in BOOLEAN /\ queue' \subseteq {"delayed", "msp"}
        /\ UNCHANGED <<saveVars, version>>
    BY <1>5 DEF Arm, Disarm, IInv, Typed
  <2>2. Typed' /\ WriterTyped' /\ Grounded' /\ UNCHANGED <<flash, stored>>
    BY <2>1 DEF IInv, Typed, WriterTyped, Grounded, saveVars
  <2> QED
    BY <2>2, FlashAlone
<1>6. CASE UNCHANGED vars
  <2>1. Typed' /\ WriterTyped' /\ Grounded' /\ UNCHANGED <<flash, stored>>
    BY <1>6 DEF vars, saveVars, IInv, Typed, WriterTyped, Grounded
  <2> QED
    BY <2>1, FlashAlone
<1> QED
  BY <1>1, <1>2, <1>3, <1>4, <1>5, <1>6

\* An erased chip.
LEMMA InitIInv == Init => IInv
<1> SUFFICES ASSUME Init PROVE IInv
  OBVIOUS
<1>1. Typed
  BY ConfigsTyped DEF Init, Typed
<1>2. \A i \in Words : flash[i].is = "erased"
  BY DEF Init, Erased
<1>3. FlashTyped /\ FooterIsStored
  BY <1>2, LayoutFacts DEF FlashTyped, FooterIsStored
<1>4. WriterTyped /\ Grounded
  BY DEF Init, WriterTyped, Grounded
<1> QED
  BY <1>1, <1>3, <1>4 DEF IInv

\* The store keeps its types, and a footer in it is over the configuration of the
\* save that wrote it (writeSettingsToEEPROM, isEEPROMStructureValid).
THEOREM IInvHolds == Spec => []IInv
<1>1. IInv /\ [Next]_vars => IInv'
  BY WriteWordIInv, FailWordIInv, EndSaveIInv, BootIInv, SavesIInv, OthersIInv DEF Next, Step
<1> QED
  BY <1>1, InitIInv, PTL DEF Spec

-----------------------------------------------------------------------------
\* The types of every variable, for every layout.
THEOREM TypeCorrect == Spec => []TypeOK
<1>1. IInv => TypeOK
  BY DEF IInv, Typed, FlashTyped, WriterTyped, TypeOK, Saving
<1> QED
  BY <1>1, IInvHolds, PTL

\* A store that passes its checks is the last save that was completed.
THEOREM ValidTheorem == Spec => []ValidIsLast
<1>1. IInv => ValidIsLast
  BY ValidRecords DEF ValidIsLast
<1> QED
  BY <1>1, IInvHolds, PTL

\* The store is not touched in flight (dispatchConfigWrite, writeReadEeprom).
THEOREM QuietTheorem == Spec => QuietInFlight
<1>1. ASSUME IInv, [Next]_vars, armed PROVE flash' = flash
  <2>1. at # "WRITE"
    BY <1>1 DEF IInv, Grounded
  <2>2. ~WriteWord /\ ~FailWord
    BY <2>1 DEF WriteWord, FailWord, Writing
  <2>3. ASSUME NEW origin, NEW attempt, NEW config, NEW hashes,
               BeginSave(origin, attempt, config, hashes)
        PROVE  flash' = flash
    BY <2>3 DEF BeginSave
  <2>4. Step => flash' = flash
    BY <2>3 DEF Step, PowerUp, Boot, EndSave, dispatchConfigWrite, writeReadEeprom, saveVars
  <2>5. MspSave => flash' = flash
    BY <2>3 DEF MspSave, saveVars
  <2>6. PowerLoss \/ Update \/ Adjust \/ Set \/ Arm \/ Disarm \/ UNCHANGED vars => flash' = flash
    BY DEF PowerLoss, Update, Adjust, Set, Arm, Disarm, vars, saveVars
  <2> QED
    BY <1>1, <2>2, <2>4, <2>5, <2>6 DEF Next
<1> QED
  BY <1>1, IInvHolds, PTL DEF Spec, QuietInFlight
-----------------------------------------------------------------------------
(* What a completed save has stored. *)

\* A save that has passed the checksum without an error stored the configuration.
WrittenIsStored ==
    at = "WRITE" /\ writer.err = FALSE /\ writer.next = Last + 1 => stored = ram

\* A configuration loaded as the user's stays the user's until the next reset:
\* no change is to the system group, and only the boot goes back to the defaults.
SystemKept ==
    at = "RUN" \/ (at = "WRITE" /\ writer.origin # "boot") =>
        (hash # NoHash /\ hash[System] = Configured => ram[System] = Configured)

SaveInv == WrittenIsStored /\ SystemKept

\* No change a user makes is to the system group.
LEMMA UserConfigFacts ==
    ASSUME IInv
    PROVE  /\ UserConfig[System] = Configured
           /\ ram[System] = Configured => UserConfig = ram
           /\ \A c \in Changes : c[System] = ram[System]
<1>1. ram \in [Group -> Value] /\ System \in Group
  BY ConfigAssumption DEF IInv, Typed, Config, ConfigAssumption
<1> QED BY <1>1 DEF UserConfig, Changes

\* A save that returns to the main loop leaves a loaded configuration or its own.
LEMMA SavedSaveInv ==
    ASSUME NEW origin \in {"boot", "msp", "delayed"}, NEW config, NEW hashes,
           Saved(origin, config, hashes),
           origin = "delayed" => (hashes # NoHash /\ hashes[System] = Configured
                                    => config[System] = Configured)
    PROVE  SaveInv'
<1>1. at' = IF origin = "boot" THEN "RESET" ELSE "RUN"
  BY DEF Saved
<1>2. WrittenIsStored'
  BY <1>1 DEF WrittenIsStored
<1>3. CASE origin = "boot"
  BY <1>1, <1>2, <1>3 DEF SaveInv, SystemKept
<1>4. CASE origin = "msp"
  <2>1. hash' = ram'
    BY <1>4 DEF Saved
  <2> QED BY <1>2, <2>1 DEF SaveInv, SystemKept
<1>5. CASE origin = "delayed"
  <2>1. hash' = hashes /\ ram' = config
    BY <1>5 DEF Saved
  <2> QED BY <1>2, <1>5, <2>1 DEF SaveInv, SystemKept
<1> QED BY <1>3, <1>4, <1>5

\* An attempt begins with nothing written, or is skipped.
LEMMA BeginSaveSaveInv ==
    ASSUME NEW origin \in {"boot", "msp", "delayed"}, NEW attempt \in Attempts,
           NEW config, NEW hashes, BeginSave(origin, attempt, config, hashes),
           origin # "boot" => (hashes # NoHash /\ hashes[System] = Configured
                                 => config[System] = Configured)
    PROVE  SaveInv'
<1>1. CASE Valid /\ Unchanged(config, hashes)
  BY <1>1, SavedSaveInv DEF BeginSave
<1>2. CASE ~(Valid /\ Unchanged(config, hashes))
  <2>1. at' = "WRITE" /\ writer' = NewSave(origin, attempt) /\ ram' = config /\ hash' = hashes
    BY <1>2 DEF BeginSave
  <2>2. writer'.next = 0 /\ writer'.origin = origin
    BY <2>1 DEF NewSave
  <2>3. WrittenIsStored'
    BY <2>2, LayoutFacts DEF WrittenIsStored
  <2> QED BY <2>1, <2>2, <2>3 DEF SaveInv, SystemKept
<1> QED BY <1>1, <1>2

\* The words of an attempt: the checksum is the one that stores the configuration.
LEMMA WordsSaveInv == IInv /\ SaveInv /\ (WriteWord \/ FailWord) => SaveInv'
<1> SUFFICES ASSUME IInv, SaveInv, WriteWord \/ FailWord PROVE SaveInv'
  OBVIOUS
<1>1. /\ at = "WRITE" /\ writer \in Saving /\ UNCHANGED <<at, ram, hash>>
  BY DEF WriteWord, FailWord, Writing, IInv, WriterTyped
<1>2. CASE WriteWord
  <2>1. /\ writer' = [writer EXCEPT !.next = @ + 1]
        /\ stored' = IF writer.next = Last THEN ram ELSE stored
    BY <1>2 DEF WriteWord
  <2>2. writer'.next = writer.next + 1 /\ writer'.origin = writer.origin /\ writer.next \in Nat
    BY <1>1, <2>1 DEF Saving
  <2>3. writer'.next = Last + 1 => stored' = ram
    BY <2>1, <2>2, LayoutFacts
  <2> QED BY <1>1, <2>2, <2>3 DEF SaveInv, WrittenIsStored, SystemKept
<1>3. CASE FailWord
  <2>1. writer' = [writer EXCEPT !.err = TRUE]
    BY <1>3 DEF FailWord
  <2>2. writer'.err = TRUE /\ writer'.origin = writer.origin
    BY <1>1, <2>1 DEF Saving
  <2> QED BY <1>1, <2>2 DEF SaveInv, WrittenIsStored, SystemKept
<1> QED BY <1>2, <1>3

\* The end of an attempt, and the next one.
LEMMA EndSaveSaveInv == IInv /\ SaveInv /\ EndSave => SaveInv'
<1> SUFFICES ASSUME IInv, SaveInv, EndSave PROVE SaveInv'
  OBVIOUS
<1>1. at = "WRITE" /\ writer.origin \in {"boot", "msp", "delayed"}
  BY DEF EndSave, IInv, WriterTyped, Saving
<1>2. writer.origin # "boot" => (hash # NoHash /\ hash[System] = Configured
                                   => ram[System] = Configured)
  BY <1>1 DEF SaveInv, SystemKept
<1>3. CASE Saved(writer.origin, ram, hash)
  BY <1>1, <1>2, <1>3, SavedSaveInv
<1>4. CASE Retries /\ BeginSave(writer.origin, writer.attempt + 1, ram, hash)
  <2>1. writer.attempt + 1 \in Attempts
    BY <1>4 DEF Retries
  <2> QED BY <1>1, <1>2, <1>4, <2>1, BeginSaveSaveInv
<1>5. CASE at' = "FAILURE"
  BY <1>5 DEF SaveInv, WrittenIsStored, SystemKept
<1> QED BY <1>3, <1>4, <1>5 DEF EndSave

\* Every other step ends with no save under way, or begins one.
LEMMA OthersSaveInv ==
    ASSUME IInv, SaveInv, [Next]_vars, ~WriteWord, ~FailWord, ~EndSave
    PROVE  SaveInv'
<1>1. 1 \in Attempts
  BY DEF Attempts
<1>2. ASSUME UNCHANGED saveVars PROVE SaveInv'
  BY <1>2 DEF saveVars, SaveInv, WrittenIsStored, SystemKept
<1>3. CASE Boot
  <2>1. CASE at' = "RUN" /\ ram' = Loaded /\ hash' = Loaded
    BY <2>1 DEF SaveInv, WrittenIsStored, SystemKept
  <2>2. CASE BeginSave("boot", 1, Defaults, IF Valid THEN Loaded ELSE hash)
    BY <1>1, <2>2, BeginSaveSaveInv
  <2> QED BY <1>3, <2>1, <2>2 DEF Boot
<1>4. CASE MspSave \/ writeReadEeprom
  <2>1. CASE BeginSave("msp", 1, UserConfig, hash)
    BY <1>1, <2>1, BeginSaveSaveInv, UserConfigFacts
  <2>2. CASE UNCHANGED <<at, flash, ram, hash, writer, stored>>
    BY <2>2 DEF SaveInv, WrittenIsStored, SystemKept
  <2> QED BY <1>2, <1>4, <2>1, <2>2 DEF MspSave, writeReadEeprom
<1>5. CASE dispatchConfigWrite
  <2>1. at = "RUN" /\ BeginSave("delayed", 1, ram, hash)
    BY <1>5 DEF dispatchConfigWrite
  <2> QED BY <1>1, <2>1, BeginSaveSaveInv DEF SaveInv, SystemKept
<1>6. CASE Adjust \/ Set
  <2>1. at = "RUN" /\ at' = "RUN" /\ hash' = hash /\ ram' \in Changes
    BY <1>6 DEF Adjust, Set
  <2> QED BY <2>1, UserConfigFacts DEF SaveInv, WrittenIsStored, SystemKept
<1>7. CASE PowerUp \/ PowerLoss
  <2>1. at' \in {"BOOT", "OFF"}
    BY <1>7 DEF PowerUp, PowerLoss
  <2> QED BY <2>1 DEF SaveInv, WrittenIsStored, SystemKept
<1>8. CASE Update \/ Arm \/ Disarm \/ UNCHANGED vars
  BY <1>2, <1>8 DEF Update, Arm, Disarm, vars
<1> QED
  BY <1>3, <1>4, <1>5, <1>6, <1>7, <1>8 DEF Next, Step

\* A write that has passed the checksum without an error stored the configuration
\* in memory, and a configuration loaded as the user's stays the user's.
THEOREM SaveInvHolds == Spec => []SaveInv
<1>1. Init => SaveInv
  BY DEF Init, SaveInv, WrittenIsStored, SystemKept
<1>2. IInv /\ SaveInv /\ [Next]_vars => SaveInv'
  BY WordsSaveInv, EndSaveSaveInv, OthersSaveInv
<1> QED
  BY <1>1, <1>2, IInvHolds, PTL DEF Spec

\* Nothing is left to save only when it has been saved, or was loaded: a save
\* that begins and finds nothing to write has the configuration of its hash.
LEMMA NothingToSave ==
    ASSUME IInv, SaveInv, at = "RUN", Unchanged(UserConfig, hash)
    PROVE  hash = ram
<1>1. hash = UserConfig
  BY DEF Unchanged
<1>2. hash # NoHash
  <2>1. UserConfig \in Config
    BY ConfigsTyped DEF IInv, Typed
  <2>2. System \in DOMAIN UserConfig /\ System \in Group
    BY <2>1, ConfigAssumption DEF Config, ConfigAssumption
  <2>3. \A s \in DOMAIN NoHash : FALSE
    BY DEF NoHash
  <2> QED BY <1>1, <2>2, <2>3
<1>3. ram[System] = Configured
  BY <1>1, <1>2, UserConfigFacts DEF SaveInv, SystemKept
<1> QED BY <1>1, <1>3, UserConfigFacts

\* A save that clears the dirty flag has stored the configuration, or it is the
\* one that was loaded last: no failing word and no retry goes unnoticed.
THEOREM SaveTheorem == Spec => SaveIsStored
<1>1. IInv /\ SaveInv /\ [Next]_vars
        => [dirty /\ ~dirty' /\ at' = "RUN" => stored' = ram \/ hash = ram]_vars
  <2> SUFFICES ASSUME IInv, SaveInv, Next, dirty, ~dirty', at' = "RUN"
               PROVE  stored' = ram \/ hash = ram
    BY DEF vars, saveVars
  <2>1. ASSUME NEW origin, NEW attempt, NEW config, NEW hashes,
               BeginSave(origin, attempt, config, hashes)
        PROVE  Unchanged(config, hashes)
    BY <2>1 DEF BeginSave
  <2>2. CASE EndSave
    <3>1. CASE Complete /\ UNCHANGED <<flash, stored>>
      <4>1. writer.err = FALSE /\ writer.next = Last + 1 /\ at = "WRITE"
        BY <2>2, <3>1, LayoutFacts DEF EndSave, Complete, Writing, IInv, WriterTyped, Saving
      <4> QED BY <3>1, <4>1 DEF SaveInv, WrittenIsStored
    <3>2. CASE BeginSave(writer.origin, writer.attempt + 1, ram, hash)
      BY <2>1, <3>2 DEF Unchanged
    <3> QED BY <2>2, <3>1, <3>2 DEF EndSave
  <2>3. CASE MspSave
    <3>1. at = "RUN" /\ BeginSave("msp", 1, UserConfig, hash)
      BY <2>3 DEF MspSave, saveVars
    <3> QED BY <2>1, <3>1, NothingToSave
  <2>4. CASE writeReadEeprom
    <3>1. at = "RUN" /\ BeginSave("msp", 1, UserConfig, hash)
      BY <2>4 DEF writeReadEeprom, saveVars
    <3> QED BY <2>1, <3>1, NothingToSave
  <2>5. CASE dispatchConfigWrite
    <3>1. BeginSave("delayed", 1, ram, hash)
      BY <2>5 DEF dispatchConfigWrite
    <3> QED BY <2>1, <3>1 DEF Unchanged
  <2>6. CASE Boot
    <3>1. at = "BOOT" /\ BeginSave("boot", 1, Defaults, IF Valid THEN Loaded ELSE hash)
      BY <2>6 DEF Boot
    <3> QED BY <3>1 DEF BeginSave, Saved
  <2>7. ~PowerUp /\ ~PowerLoss
    BY DEF PowerUp, PowerLoss
  <2>8. ~(dirty' = dirty) /\ ~(dirty' = TRUE)
    OBVIOUS
  <2>9. ~WriteWord /\ ~FailWord /\ ~Set
    BY <2>8 DEF WriteWord, FailWord, Set
  <2>10. ~Update /\ ~Arm /\ ~Disarm
    <3>1. ~UNCHANGED saveVars
      BY <2>8 DEF saveVars
    <3>2. (Update => UNCHANGED saveVars) /\ (Arm => UNCHANGED saveVars)
      BY DEF Update, Arm
    <3>3. Disarm => UNCHANGED saveVars
      BY DEF Disarm
    <3> QED BY <3>1, <3>2, <3>3
  <2>11. ~Adjust
    BY <2>8, Zenon DEF Adjust
  <2> QED
    BY <2>2, <2>3, <2>4, <2>5, <2>6, <2>7, <2>9, <2>10, <2>11 DEF Next, Step
<1> QED
  BY <1>1, IInvHolds, SaveInvHolds, PTL DEF Spec, SaveIsStored
=============================================================================
